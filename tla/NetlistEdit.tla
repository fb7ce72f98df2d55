----------------------------- MODULE NetlistEdit -----------------------------
(***************************************************************************)
(* Changing the text of a netlist (netlist.py) under the gates that the    *)
(* orchestrator runs first (orchestrator.py).  The text is the state of    *)
(* the design: it is parsed again by every gate, and nothing else says     *)
(* where a change went.                                                    *)
(*                                                                         *)
(* A text is a sequence of physical lines, and a line the sequence of its  *)
(* tokens: [key, val] is `key=val`, and a key None is a positional token.  *)
(* Paths are sequences of subcircuit names, <<>> being the top level.      *)
(***************************************************************************)
EXTENDS Missing, SequencesExt

CONSTANTS
  Circuits,   \* the decks to start from: functions on the testbenches
  Canonical,  \* the testbench whose deck the gates read
  Edit,       \* the changes a proposal is made of
  Body,       \* the bodies of the library
  Literal,    \* the values that are numbers
  Letter,     \* Letter[refdes]: its first letter, upper case
  MaxEdits, MaxBatch

Lines == [kind : {"open", "close", "device", "more", "comment", "directive"},
          words : Seq([key : STRING \cup {None}, val : STRING])]
Edits == [scope : Seq(STRING), refdes : STRING, param : STRING, new_value : STRING]

(* The stack of open subcircuits after line i (parse_netlist, _line_scopes)*)
After(line, stack) ==
  CASE line.kind = "open"                    -> Append(stack, line.words[1].val)
    [] line.kind = "close" /\ stack # <<>>   -> Front(stack)
    [] OTHER                                 -> stack
Opened(text) ==
  LET after[i \in 0 .. Len(text)] == IF i = 0 THEN <<>> ELSE After(text[i], after[i - 1])
  IN  after
ScopeAt(text, i) == Opened(text)[i]

Opens(text) == {i \in DOMAIN text : text[i].kind = "open"}
Subckts(text) == {Opened(text)[i] : i \in Opens(text)}
Devices(text) == {i \in DOMAIN text : text[i].kind = "device"}

(* logical_lines: a line, and the continuations up to the next one; blank  *)
(* lines and comments between them do not count.                           *)
Physical(text, i) ==
  {i} \cup {j \in i + 1 .. Len(text) :
              /\ text[j].kind = "more"
              /\ \A k \in i + 1 .. j : text[k].kind \in {"more", "comment"}}

(* The tokens of a component after its refdes, each at its place: so many  *)
(* lines below the first, and its number there.                            *)
Words(text, i) ==
  LET places == (UNION {{j - i} \X DOMAIN text[j].words : j \in Physical(text, i)}) \ {<<0, 1>>}
  IN  [place \in places |-> text[i + place[1]].words[place[2]]]
Keyed(words, p) == {place \in DOMAIN words : words[place].key = p}

(* What is a circuit: a definition has a name and is closed, no two have   *)
(* one path, and a component has a refdes and something it is connected to.*)
WellFormed(text) ==
  /\ text \in Seq(Lines)
  /\ \A i \in Opens(text) : text[i].words # <<>>
  /\ \A i, j \in Opens(text) : Opened(text)[i] = Opened(text)[j] => i = j
  /\ Opened(text)[Len(text)] = <<>>
  /\ \A i \in Devices(text) :
       text[i].words # <<>> /\ text[i].words[1].key = None /\ Keyed(Words(text, i), None) # {}
(* A body closes nothing that it did not open.                             *)
Contained(text) ==
  \A i \in DOMAIN text : text[i].kind = "close" => Opened(text)[i - 1] # <<>>

(* The decks of a specification simulate one design: they share its        *)
(* subcircuits, and differ at the top level.                               *)
ASSUME NetlistEditAssumption ==
  /\ \A circuit \in Circuits :
       /\ Canonical \in DOMAIN circuit
       /\ \A tb \in DOMAIN circuit :
            /\ WellFormed(circuit[tb])
            /\ Subckts(circuit[tb]) = Subckts(circuit[Canonical])
  /\ \A body \in Body : WellFormed(body) /\ Contained(body)
  /\ Edit \subseteq Edits
  /\ MaxEdits \in Nat /\ MaxBatch \in Nat
  /\ None \notin STRING /\ None \notin Seq(Lines) /\ None \notin {"refdes", "param", "stimulus"}

VARIABLES
  decks,    \* netlist_texts: the text of each testbench, None when applying raised
  edits_made,  \* how many proposals and swaps were applied
  came      \* what the last of them did

netlistVars == <<decks, edits_made, came>>

-----------------------------------------------------------------------------
(* _parse_component_line: the last of two tokens with one key wins, and    *)
(* the last positional one is the value.                                   *)
LastPlace(places) ==
  LET line == Max({place[1] : place \in places})
  IN  <<line, Max({place[2] : place \in {q \in places : q[1] = line}})>>
ParseComponentLine(scope, refdes, words) ==
  LET last(p) == LastPlace(Keyed(words, p))
      placed == Keyed(words, None)
      names == {words[place].key : place \in DOMAIN words} \ {None}
  IN  [scope  |-> scope,
       refdes |-> refdes,
       nodes  |-> [place \in placed \ {last(None)} |-> words[place].val],
       value  |-> IF placed = {} THEN None ELSE words[last(None)].val,
       params |-> [p \in names |-> words[last(p)].val]]
ComponentAt(text, i) ==
  ParseComponentLine(ScopeAt(text, i), text[i].words[1].val, Words(text, i))
Components(text) == {ComponentAt(text, i) : i \in Devices(text)}

(* The order of parse_netlist: the top level, then by definition.          *)
DefinedAt(text, i) ==
  Max({0} \cup {o \in Opens(text) : o < i /\ Opened(text)[o] = ScopeAt(text, i)})
Later(text, i, j) ==
  \/ DefinedAt(text, i) > DefinedAt(text, j)
  \/ DefinedAt(text, i) = DefinedAt(text, j) /\ i >= j

(* _find_matches: an unscoped refdes is looked for everywhere.             *)
FindMatches(text, e) ==
  {i \in Devices(text) :
     /\ text[i].words[1].val = e.refdes
     /\ e.scope = <<>> \/ ScopeAt(text, i) = e.scope}

-----------------------------------------------------------------------------
(* The three gates; the first that refuses ends the review (_hard_gates).  *)
CheckRefdesResolution(text, e) ==
  /\ e.scope = <<>> \/ e.scope \in Subckts(text)
  /\ Cardinality(FindMatches(text, e)) = 1

(* by_refdes keeps, for a name, the component that comes last.             *)
ByRefdes(text, e) ==
  LET found == FindMatches(text, e)
  IN  ComponentAt(text, CHOOSE i \in found : \A j \in found : Later(text, i, j))
IsNumber(value) == value # None /\ value \in Literal
PeerKey(c) == IF c.value # None /\ ~IsNumber(c.value) THEN c.value ELSE Letter[c.refdes]
PeerParams(text, key) ==
  UNION {DOMAIN c.params : c \in {d \in Components(text) : PeerKey(d) = key}}
CheckParamApplicability(text, e) ==
  FindMatches(text, e) # {} =>
    LET c == ByRefdes(text, e)
    IN  IF e.param = "value" THEN IsNumber(c.value)
        ELSE e.param \in DOMAIN c.params \cup PeerParams(text, PeerKey(c))

CheckStimulusUntouched(text, e) ==
  ~(/\ e.scope = <<>> /\ Letter[e.refdes] \in {"V", "I"}
    /\ \E i \in Devices(text) : ScopeAt(text, i) = <<>> /\ text[i].words[1].val = e.refdes)

HardGates(text, changes) ==
  CASE \E k \in DOMAIN changes : ~CheckRefdesResolution(text, changes[k])   -> "refdes"
    [] \E k \in DOMAIN changes : ~CheckParamApplicability(text, changes[k]) -> "param"
    [] \E k \in DOMAIN changes : ~CheckStimulusUntouched(text, changes[k])  -> "stimulus"
    [] OTHER -> None

(* resolve_change_scopes: the blocks that are shown to the reviewer.       *)
ResolveChangeScopes(text, changes) ==
  UNION {IF e.scope # <<>> THEN {e.scope} \cap Subckts(text)
         ELSE {ScopeAt(text, i) : i \in FindMatches(text, e)} \ {<<>>} :
         e \in Range(changes)}

-----------------------------------------------------------------------------
(* apply_changes.  A token is replaced on the last physical line that has  *)
(* one, the last such token there; a parameter that no line has is         *)
(* appended to the last line; a name that matches nothing changes nothing, *)
(* and one that matches several components raises.                         *)
NewToken(e) == [key |-> IF e.param = "value" THEN None ELSE e.param, val |-> e.new_value]
Addressed(line, e) == {k \in DOMAIN line.words : line.words[k].key = NewToken(e).key}
WriteFirstToken(text, lines, e) ==   \* mutant: the first of them, which a later one overrides
  LET having == {j \in lines : Addressed(text[j], e) # {}}
      at == Min(having)
      last == Max(lines)
  IN  IF having # {}
      THEN [text EXCEPT ![at].words[Min(Addressed(text[at], e))] = NewToken(e)]
      ELSE IF e.param = "value" THEN text
      ELSE [text EXCEPT ![last].words = Append(text[last].words, NewToken(e))]
WriteToken(text, lines, e) ==
  LET having == {j \in lines : Addressed(text[j], e) # {}}
      at == Max(having)
      last == Max(lines)
  IN  IF having # {}
      THEN [text EXCEPT ![at].words[Max(Addressed(text[at], e))] = NewToken(e)]
      ELSE IF e.param = "value" THEN text
      ELSE [text EXCEPT ![last].words = Append(text[last].words, NewToken(e))]
ApplyChange(text, e) ==
  LET found == FindMatches(text, e)
  IN  CASE found = {}              -> text
        [] Cardinality(found) > 1  -> None
        [] OTHER -> WriteToken(text, Physical(text, CHOOSE i \in found : TRUE), e)
ApplyChanges(text, changes) ==
  LET after[n \in 0 .. Len(changes)] ==
        IF n = 0 THEN text
        ELSE IF after[n - 1] = None THEN None ELSE ApplyChange(after[n - 1], changes[n])
  IN  after[Len(changes)]

(* _locate_subckt_span, apply_topology_swap, extract_subckt_body.          *)
Span(text, path) ==
  LET first == Min({i \in Opens(text) : Opened(text)[i] = path})
      shut == {j \in first + 1 .. Len(text) :
                 text[j].kind = "close" /\ Opened(text)[j] = Front(path)}
  IN  <<first, Min(shut)>>
ApplyTopologySwap(text, path, body) ==
  LET span == Span(text, path)
  IN  SubSeq(text, 1, span[1]) \o body \o SubSeq(text, span[2], Len(text))
ExtractSubcktBody(text, path) ==
  LET span == Span(text, path) IN SubSeq(text, span[1] + 1, span[2] - 1)

-----------------------------------------------------------------------------
NothingCame == [kind |-> "nothing"]
NetlistInit ==
  /\ decks \in Circuits
  /\ edits_made = 0
  /\ came = NothingCame

ApplyRaised == \E tb \in DOMAIN decks : decks[tb] = None

(* A proposal: the gates read the canonical deck, and what they let pass   *)
(* is applied to every deck (_apply_to_all).                               *)
ProposeEdits ==
  /\ edits_made < MaxEdits /\ ~ApplyRaised
  /\ \E n \in 1 .. MaxBatch : \E changes \in [1 .. n -> Edit] :
       LET reason == HardGates(decks[Canonical], changes)
       IN  /\ decks' = IF reason # None THEN decks
                       ELSE [tb \in DOMAIN decks |-> ApplyChanges(decks[tb], changes)]
           /\ came' = [kind |-> "proposal", from |-> decks, changes |-> changes,
                       reason |-> reason,
                       blocks |-> ResolveChangeScopes(decks[Canonical], changes)]
  /\ edits_made' = edits_made + 1

(* A topology swap, in every deck.                                         *)
SwapBody ==
  /\ edits_made < MaxEdits /\ ~ApplyRaised
  /\ \E path \in Subckts(decks[Canonical]), body \in Body :
       /\ decks' = [tb \in DOMAIN decks |-> ApplyTopologySwap(decks[tb], path, body)]
       /\ came' = [kind |-> "swap", from |-> decks, path |-> path, body |-> body]
  /\ edits_made' = edits_made + 1

NetlistNext == ProposeEdits \/ SwapBody
NetlistSpec == NetlistInit /\ [][NetlistNext]_netlistVars

-----------------------------------------------------------------------------
NetlistTypeOK ==
  /\ edits_made \in 0 .. MaxEdits
  /\ came.kind \in {"nothing", "proposal", "swap"}
  /\ \A tb \in DOMAIN decks : decks[tb] # None =>
       \A i \in DOMAIN decks[tb] : decks[tb][i].words # <<>> \/ decks[tb][i].kind # "device"

(* What a list of changes means: the component a name denotes takes the    *)
(* last value the list gives each of its parameters.                       *)
Denotes(e, c) == e.refdes = c.refdes /\ e.scope \in {<<>>, c.scope}
Meant(changes, c) ==
  LET mine == {k \in DOMAIN changes : Denotes(changes[k], c)}
      last(p) == changes[Max({k \in mine : changes[k].param = p})].new_value
      named == {changes[k].param : k \in mine}
      given == named \ {"value"}
  IN  [c EXCEPT !.value = IF "value" \in named THEN last("value") ELSE c.value,
                !.params = [p \in DOMAIN c.params \cup given |->
                              IF p \in given THEN last(p) ELSE c.params[p]]]
Below(path, c) == IsPrefix(path, c.scope)

(* An edit does what it says and nothing else, as the next parse sees it.  *)
(* A proposal that passed the gates changes in the canonical deck exactly  *)
(* the components it denotes, none of them a stimulus of the top level,    *)
(* and all of them in the blocks the reviewer was shown; in another deck   *)
(* it does the same to the components that deck has, unless a name is      *)
(* ambiguous there, and only then does applying raise.  A refused proposal *)
(* changes nothing.  A swap replaces one body in every deck, gives it back *)
(* when it is extracted, and leaves what is outside as it was (netlist.py: *)
(* 873-991, orchestrator.py:176-218, 1044-1056).                           *)
ProposalLands ==
  \A tb \in DOMAIN decks :
    LET before == Components(came.from[tb])
        moved == {c \in before : \E e \in Range(came.changes) : Denotes(e, c)}
        clear == \A e \in Range(came.changes) :
                   Cardinality(FindMatches(came.from[tb], e)) <= 1
    IN  /\ decks[tb] = None <=> ~clear
        /\ clear => Components(decks[tb]) = {Meant(came.changes, c) : c \in before}
        /\ tb = Canonical =>
             /\ clear
             /\ {c.scope : c \in moved} \ {<<>>} = came.blocks
             /\ \A c \in moved : c.scope = <<>> => Letter[c.refdes] \notin {"V", "I"}
             /\ \A c, d \in moved : c.scope = d.scope /\ c.refdes = d.refdes => c = d
SwapLands ==
  \A tb \in DOMAIN decks :
    LET outside(text) == {c \in Components(text) : ~Below(came.path, c)}
        inside(text) == {c \in Components(text) : Below(came.path, c)}
    IN  /\ ExtractSubcktBody(decks[tb], came.path) = came.body
        /\ outside(decks[tb]) = outside(came.from[tb])
        /\ inside(decks[tb]) =
             {[c EXCEPT !.scope = came.path \o c.scope] : c \in Components(came.body)}
EditsLandWhereTheySay ==
  /\ came.kind = "proposal" => IF came.reason # None THEN decks = came.from ELSE ProposalLands
  /\ came.kind = "swap" => SwapLands
=============================================================================
