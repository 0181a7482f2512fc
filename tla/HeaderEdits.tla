----------------------------- MODULE HeaderEdits ----------------------------
(***************************************************************************)
(* The editheader journal of interp/editheader.go.                         *)
(*                                                                         *)
(* addheader and deleteheader never touch the message: they append         *)
(* HeaderEdit records to RuntimeData.HeaderEdits, and every read of a      *)
(* header replays the journal over the original values                     *)
(* (applyHeaderEditsToValues).  RuntimeData.Msg is the EditableMessage     *)
(* wrapper, so tests such as exists and header see the edited header (the  *)
(* editheader tests of the sieve package depend on it).  deleteheader with *)
(* value-patterns reads the header through d.Msg and then replays the      *)
(* journal over that result a second time before choosing what to delete.  *)
(*                                                                         *)
(* Header names are compared case-insensitively everywhere in the code     *)
(* (EqualFold, ToLower, the message's canonical keys), so a field is one   *)
(* model value whatever its spelling.                                      *)
(***************************************************************************)
EXTENDS Naturals, Sequences, SequencesExt

CONSTANTS
  Fields,          \* header field names (model values)
  Protected,       \* protectedHeaders: Received, Auto-Submitted
  Invalid,         \* names rejected by isValidHeaderName
  Values,          \* header values: "" and one-letter strings
  Keys,            \* deleteheader value-patterns
  MatchTypes,      \* match types of deleteheader: "is", "contains"
  Indexes,         \* :index values of a deleteheader without patterns (0: none)
  PatternIndexes,  \* :index values of a deleteheader with value-patterns
  Messages,        \* the original headers a message may have
  MaxCmds          \* most editheader commands one script runs

ASSUME Protected \cup Invalid \subseteq Fields
ASSUME Values \cup Keys \subseteq {"", "a", "b", "c"}
ASSUME MatchTypes \subseteq {"is", "contains"}
ASSUME Messages \subseteq [Fields -> Seq(Values)]
ASSUME \A m \in Messages, f \in Invalid : m[f] = <<>>
ASSUME Indexes \cup PatternIndexes \subseteq Nat /\ 0 \in Indexes

VARIABLES
  base,    \* base[f]: the values of field f in the original message
  edits,   \* RuntimeData.HeaderEdits, the journal
  cmd,     \* the command the last step ran (history, for the refinement)
  ran      \* number of commands run

vars == <<base, edits, cmd, ran>>

(***************************************************************************)
(* testString for the default comparator i;ascii-casemap.  Values are      *)
(* lower case, so the case folding is the identity; over one-letter        *)
(* strings, contains holds iff the key is empty or equal to the value.     *)
(***************************************************************************)
Matches(mt, v, k) ==
  CASE mt = "is"       -> v = k
    [] mt = "contains" -> k = "" \/ k = v

(***************************************************************************)
(* The commands a script can load.  loadDeleteHeader refuses :last without *)
(* :index; without value-patterns the match type plays no part.            *)
(***************************************************************************)
AddCmds == [op: {"addheader"}, field: Fields, value: Values, last: BOOLEAN]

LoadableDelete(c) ==
  /\ ~(c.last /\ c.index = 0)
  /\ c.keys = {} => c.index \in Indexes /\ c.mt = "is"
  /\ c.keys # {} => c.index \in PatternIndexes

DelCmds ==
  {c \in [op: {"deleteheader"}, field: Fields, index: Indexes \cup PatternIndexes,
          last: BOOLEAN, mt: MatchTypes, keys: SUBSET Keys] : LoadableDelete(c)}

Commands == AddCmds \cup DelCmds

(***************************************************************************)
(* Mutants of ApplyEdit, each a plausible slip in applyHeaderEditsToValues: *)
(* counting :last from the end one off, and dropping the by-position case  *)
(* so that an :index delete falls through to delete-all.                   *)
(***************************************************************************)
ApplyEditLastOffByOne(f, result, e) ==
  LET idx == IF e.last THEN Len(result) - e.index ELSE e.index
  IN  CASE e.field # f                     -> result
        [] e.action = "add" /\ e.last      -> Append(result, e.value)
        [] e.action = "add"                -> Cons(e.value, result)
        [] e.index > 0                     ->
             IF idx \in 1..Len(result) THEN RemoveAt(result, idx) ELSE result
        [] e.value # ""                    -> RemoveFirst(result, e.value)
        [] OTHER                           -> <<>>

ApplyEditNoIndexCase(f, result, e) ==
  CASE e.field # f                     -> result
    [] e.action = "add" /\ e.last      -> Append(result, e.value)
    [] e.action = "add"                -> Cons(e.value, result)
    [] e.value # ""                    -> RemoveFirst(result, e.value)
    [] OTHER                           -> <<>>

(***************************************************************************)
(* One journal entry applied to the values of field f: the body of the     *)
(* loop of applyHeaderEditsToValues.  A delete with Index > 0 removes by   *)
(* position, else one with a non-empty Value removes the first equal       *)
(* value, else it removes every value.                                     *)
(***************************************************************************)
ApplyEdit(f, result, e) ==
  LET idx == IF e.last THEN Len(result) - e.index + 1 ELSE e.index
  IN  CASE e.field # f                     -> result
        [] e.action = "add" /\ e.last      -> Append(result, e.value)
        [] e.action = "add"                -> Cons(e.value, result)
        [] e.index > 0                     ->
             IF idx \in 1..Len(result) THEN RemoveAt(result, idx) ELSE result
        [] e.value # ""                    -> RemoveFirst(result, e.value)
        [] OTHER                           -> <<>>

\* applyHeaderEditsToValues(d, f, values): the journal replayed in order;
\* r[i] is the result after its first i entries
Replay(f, values) ==
  LET r[i \in 0..Len(edits)] ==
        IF i = 0 THEN values ELSE ApplyEdit(f, r[i - 1], edits[i])
  IN  r[Len(edits)]

\* mutant: RuntimeData.Msg left as the original message, not the overlay
MsgHeaderGetRaw(f) == base[f]

\* d.Msg.HeaderGet(f): EditableMessage.HeaderGet over the original message
MsgHeaderGet(f) == Replay(f, base[f])

\* mutant: the :index stored zero-based
EditZeroBased(action, f, v, i, l) ==
  [action |-> action, field |-> f, value |-> v, index |-> i - 1, last |-> l]

Edit(action, f, v, i, l) ==
  [action |-> action, field |-> f, value |-> v, index |-> i, last |-> l]

\* isValidHeaderName: field-name = 1*ftext.  A field is a model value;
\* Invalid holds the names that are empty or have a byte outside ftext.
IsValidHeaderName(f) == f \notin Invalid

\* isProtectedHeader: the lower-cased name is in protectedHeaders
IsProtectedHeader(f) == f \in Protected

\* valueMatchesPatterns: does v match one of the value-patterns of c
ValueMatches(c, v) == \E k \in c.keys : Matches(c.mt, v, k)

(***************************************************************************)
(* The entries CmdDeleteHeader.Execute appends for command c.              *)
(***************************************************************************)
DeleteEdits(c) ==
  LET f      == c.field
      values == Replay(f, MsgHeaderGet(f))
      idx    == IF c.last THEN Len(values) - c.index + 1 ELSE c.index
      hits   == SelectSeq(values, LAMBDA v : ValueMatches(c, v))
  IN  CASE ~IsValidHeaderName(f) \/ IsProtectedHeader(f) -> <<>>
        [] c.keys = {}                  -> <<Edit("delete", f, "", c.index, c.last)>>
        [] values = <<>>                -> <<>>
        [] c.index > 0                  ->
             IF idx \in 1..Len(values) /\ ValueMatches(c, values[idx])
               THEN <<Edit("delete", f, values[idx], c.index, c.last)>>
               ELSE <<>>
        [] OTHER ->
             [j \in 1..Len(hits) |-> Edit("delete", f, hits[j], 0, FALSE)]

Init ==
  /\ base \in Messages  /\ edits = <<>>
  /\ cmd = [op |-> "none"]
  /\ ran = 0

\* The entries CmdAddHeader.Execute appends: none for an invalid name.
AddEdits(c) ==
  IF ~IsValidHeaderName(c.field) THEN <<>>
  ELSE <<Edit("add", c.field, c.value, 0, c.last)>>

\* CmdAddHeader.Execute
AddHeader(c) ==
  /\ c \in AddCmds
  /\ ran < MaxCmds
  /\ edits' = edits \o AddEdits(c)
  /\ cmd' = c
  /\ ran' = ran + 1
  /\ UNCHANGED base

\* CmdDeleteHeader.Execute
DeleteHeader(c) ==
  /\ c \in DelCmds
  /\ ran < MaxCmds
  /\ edits' = edits \o DeleteEdits(c)
  /\ cmd' = c
  /\ ran' = ran + 1
  /\ UNCHANGED base

Next == \E c \in Commands : AddHeader(c) \/ DeleteHeader(c)

Spec == Init /\ [][Next]_vars

-----------------------------------------------------------------------------

TypeOK ==
  /\ base \in [Fields -> Seq(Values)]
  /\ edits \in Seq([action: {"add", "delete"}, field: Fields, value: Values \cup {""},
                    index: Nat, last: BOOLEAN])
  /\ cmd \in Commands \cup {[op |-> "none"]}
  /\ ran \in 0..MaxCmds

(***************************************************************************)
(* The header every test reads (d.Msg.HeaderGet) evolves exactly as the    *)
(* header edited in place by each addheader and deleteheader command: the  *)
(* journal replay of applyHeaderEditsToValues, and the occurrences         *)
(* CmdDeleteHeader.Execute picks from its own replayed read, implement     *)
(* HeaderView step for step.                                               *)
(***************************************************************************)
\* what the tests read: every field through d.Msg.HeaderGet
EditedView == [f \in Fields |-> MsgHeaderGet(f)]

HV == INSTANCE HeaderView WITH view <- EditedView

RefinesHeaderView == HV!Spec

(***************************************************************************)
(* deleteheader only ever removes: after it, the header a test reads is a  *)
(* subsequence of the one before, every other field reads the same, and    *)
(* with :index at most one value is gone.  Both the entries                *)
(* CmdDeleteHeader.Execute appends and the way applyHeaderEditsToValues    *)
(* replays them on every later read have to agree for this to hold.        *)
(***************************************************************************)
\* a is b with some values left out, order kept
IsSubsequence(a, b) ==
  \E g \in [1..Len(a) -> 1..Len(b)] :
    /\ \A i \in 1..Len(a) : a[i] = b[g[i]]
    /\ \A i \in 1..Len(a) - 1 : g[i] < g[i + 1]

DeleteOnlyRemoves ==
  [][cmd'.op = "deleteheader" =>
       \A f \in Fields :
         LET before == EditedView[f]
             after  == EditedView'[f]
         IN  /\ IsSubsequence(after, before)
             /\ f # cmd'.field => after = before
             /\ cmd'.index > 0 => Len(after) >= Len(before) - 1]_vars
=============================================================================
