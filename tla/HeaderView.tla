----------------------------- MODULE HeaderView -----------------------------
(***************************************************************************)
(* What the editheader extension promises (spec.md 4.6, 4.7; RFC 5293):    *)
(* the header a test reads is the message header edited in place, one     *)
(* command at a time.  addheader puts a value first, or last with :last;   *)
(* deleteheader removes the :index-th occurrence (counted from the end     *)
(* with :last), or every occurrence, in both cases only occurrences that   *)
(* match a value-pattern when patterns are given.  Deleting a protected    *)
(* header, or naming an invalid field, changes nothing.                    *)
(*                                                                         *)
(* No journal here: view is the header itself.  HeaderEdits implements     *)
(* this module under a refinement mapping.                                 *)
(***************************************************************************)
EXTENDS Naturals, Sequences, SequencesExt

CONSTANTS
  Fields,     \* header field names a script or message uses
  Protected,  \* fields deleteheader must leave alone
  Invalid,    \* names that are not RFC 5322 field names
  Values,     \* header values
  Messages,   \* the original headers a message may have: [Fields -> Seq(Values)]
  Commands,   \* the addheader / deleteheader commands a script may run
  Matches(_, _, _)  \* Matches(matchType, value, key)

VARIABLES
  view,   \* view[f]: the values of field f, in header order
  cmd     \* the command the last step ran

hvVars == <<view, cmd>>

NoCmd == [op |-> "none"]

\* The positions of s a deleteheader command c removes.
Doomed(c, s) ==
  LET Hit(i) == c.keys = {} \/ \E k \in c.keys : Matches(c.mt, s[i], k)
      pos    == IF c.last THEN Len(s) - c.index + 1 ELSE c.index
  IN  IF c.index > 0
        THEN {i \in {pos} \cap 1..Len(s) : Hit(i)}
        ELSE {i \in 1..Len(s) : Hit(i)}

\* s without the positions in D, order kept.
Without(s, D) ==
  LET w[i \in 0..Len(s)] ==
        IF i = 0 THEN <<>> ELSE IF i \in D THEN w[i - 1] ELSE Append(w[i - 1], s[i])
  IN  w[Len(s)]

Init ==
  /\ view \in Messages
  /\ cmd = NoCmd

AddHeader(c) ==
  /\ c.op = "addheader"
  /\ view' = IF c.field \in Invalid THEN view
             ELSE [view EXCEPT ![c.field] =
                     IF c.last THEN Append(@, c.value) ELSE Cons(c.value, @)]

DeleteHeader(c) ==
  /\ c.op = "deleteheader"
  /\ view' = IF c.field \in Invalid \cup Protected THEN view
             ELSE [view EXCEPT ![c.field] = Without(@, Doomed(c, @))]

\* A step runs one command c; cmd' names it.
Next ==
  /\ cmd' \in Commands
  /\ AddHeader(cmd') \/ DeleteHeader(cmd')

Spec == Init /\ [][Next]_hvVars
=============================================================================
