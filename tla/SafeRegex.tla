------------------------------ MODULE SafeRegex ------------------------------
(***************************************************************************)
(* The :regex path of interp/regex.go and matchRegex (unnamed/part_006).   *)
(*                                                                         *)
(* matchRegex first calls CompileSafeRegex, then FindSubmatch; a host      *)
(* using the package API may call Match instead.  Each stage runs its work *)
(* in a fresh goroutine that reports on one of two channels made with      *)
(* buffer 1 (a result, or an error), while the caller selects between      *)
(* those channels and the context deadline.  When the deadline wins, the   *)
(* caller returns a timeout error and the goroutine                        *)
(* runs on: it must still be able to send and exit, and what it sends must *)
(* never be read as the answer of a later call.                            *)
(*                                                                         *)
(* The deadline is not a clock here: it may expire at any point while the  *)
(* caller waits, which is every order the Go scheduler and the timer can   *)
(* produce.  A script evaluates one :regex comparison after another, so    *)
(* there is one caller running MaxCalls calls.                             *)
(***************************************************************************)
EXTENDS Naturals, Sequences

CONSTANTS
  MaxCalls,  \* matchRegex calls the script makes (one per key and value)
  Inputs     \* Inputs[k]: the [pattern, input] lengths call k may be given

Calls  == 1..MaxCalls
Stages == {"compile", "find", "match"}   \* CompileSafeRegex, FindSubmatch, Match
Kinds  == {"ok", "err"}                  \* the result and the error channel
Workers == Calls \X Stages

\* What a goroutine can produce: regexp.Compile gives a regexp or an error;
\* FindStringSubmatch gives matches or nil, MatchString true or false, and
\* both may panic (caught by recover).
StageResults(s) ==
  IF s = "compile" THEN {"re", "err"} ELSE {"match", "nomatch", "panic"}

\* The channel a result r goes to: compileErr for a compile error, matchErr
\* for a recovered panic, else compiled / result.
KindOf(r) == IF r \in {"err", "panic"} THEN "err" ELSE "ok"

\* DefaultRegexLimits, the limits matchRegex passes; MaxExecTime is the
\* deadline, which may fire at any point
DefaultRegexLimits == [MaxPatternLength |-> 1000, MaxInputLength |-> 10000]

\* mutant: a length equal to the limit refused
TooLongAtLimit(len, s) ==
  IF s = "compile" THEN len.pattern >= DefaultRegexLimits.MaxPatternLength
  ELSE len.input >= DefaultRegexLimits.MaxInputLength

\* the length check that opens stage s: the pattern's in CompileSafeRegex,
\* the input's in Match and FindSubmatch (limits kept in SafeRegexMatcher)
TooLong(len, s) ==
  IF s = "compile" THEN len.pattern > DefaultRegexLimits.MaxPatternLength
  ELSE len.input > DefaultRegexLimits.MaxInputLength

\* mutant: the channels made unbuffered
BufCapUnbuffered == 0

\* make(chan ..., 1) in CompileSafeRegex and FindSubmatch
BufCap == 1

\* mutant: one pair of channels kept across calls instead of a fresh pair
ChanShared(k, s, kind) == <<0, s, kind>>

\* the channel made by call k at stage s: a fresh one per call
Chan(k, s, kind) == <<k, s, kind>>

ChanIds == ({0} \cup Calls) \X Stages \X Kinds

VARIABLES
  call,     \* the matchRegex call the caller is in (MaxCalls + 1: all done)
  at,       \* "start", or the stage whose select the caller waits in
  worker,   \* worker[w]: "none", "running", "sending" or "exited"
  wval,     \* wval[w]: what goroutine w computed ("none" before)
  chans,    \* chans[c]: the values buffered in channel c
  outcome,  \* outcome[k]: what call k returned ("none" while it runs)
  len       \* len[k]: the lengths call k was given (NoLen before it starts)

vars == <<call, at, worker, wval, chans, outcome, len>>

\* the lengths of a call that has not started
NoLen == [pattern |-> 0, input |-> 0]

Outcomes == {"none", "match", "nomatch", "error", "limit", "timeout"}

Init ==
  /\ call = 1
  /\ at = "start"
  /\ worker = [w \in Workers |-> "none"]
  /\ wval = [w \in Workers |-> "none"]
  /\ chans = [c \in ChanIds |-> <<>>]
  /\ outcome = [k \in Calls |-> "none"]
  /\ len = [k \in Calls |-> NoLen]

\* matchRegex returns o for the current call; the caller moves on
Return(o) ==
  /\ outcome' = [outcome EXCEPT ![call] = o]
  /\ call' = call + 1
  /\ at' = "start"

\* A stage starts, from goroutine states wk and with the lengths ln of
\* the call: the length check fails, or the goroutine is started and the
\* caller enters its select.
Spawn(s, wk, ln) ==
  \/ /\ TooLong(ln, s)
     /\ Return("limit")
     /\ worker' = wk
  \/ /\ ~TooLong(ln, s)
     /\ worker' = [wk EXCEPT ![<<call, s>>] = "running"]
     /\ at' = s
     /\ UNCHANGED <<call, outcome>>

\* matchRegex: CompileSafeRegex(pattern, DefaultRegexLimits)
StartCompile ==
  /\ at = "start"
  /\ call \in Calls
  /\ \E ln \in Inputs[call] :
       /\ len' = [len EXCEPT ![call] = ln]
       /\ Spawn("compile", worker, ln)
  /\ UNCHANGED <<wval, chans>>

\* goroutine w runs regexp.Compile or FindStringSubmatch
Compute(w) ==
  /\ worker[w] = "running"
  /\ \E r \in StageResults(w[2]) :
       /\ wval' = [wval EXCEPT ![w] = r]
       /\ worker' = [worker EXCEPT ![w] = "sending"]
  /\ UNCHANGED <<call, at, chans, outcome, len>>

\* goroutine w sends into the buffer of its channel and exits
SendBuffered(w) ==
  LET c == Chan(w[1], w[2], KindOf(wval[w])) IN
  /\ worker[w] = "sending"
  /\ Len(chans[c]) < BufCap
  /\ chans' = [chans EXCEPT ![c] = Append(@, wval[w])]
  /\ worker' = [worker EXCEPT ![w] = "exited"]
  /\ UNCHANGED <<call, at, wval, outcome, len>>

\* SafeRegexMatcher.FindSubmatch, as matchRegex calls it
FindSubmatch(wk) == Spawn("find", wk, len[call])

\* SafeRegexMatcher.Match: the same length check, goroutine and select
Match(wk) == Spawn("match", wk, len[call])

\* mutant: CompileSafeRegex's regexp returned as the answer of matchRegex
ReceivedNoFind(kind, v, wk) ==
  CASE kind = "err" -> Return("error") /\ worker' = wk
    [] OTHER        -> Return(v) /\ worker' = wk

\* The caller takes value v from channel kind of its select at stage at:
\* a compiled regexp starts FindSubmatch or Match; an error or a match ends
\* the call.  wk: the goroutine states after the receive.
Received(kind, v, wk) ==
  CASE at = "compile" /\ kind = "ok" -> FindSubmatch(wk) \/ Match(wk)
    [] kind = "err"                  -> Return("error") /\ worker' = wk
    [] OTHER                         -> Return(v) /\ worker' = wk

\* select: a value is waiting in the buffer of one of the caller's channels
RecvBuffered ==
  /\ at \in Stages
  /\ \E kind \in Kinds :
       LET c == Chan(call, at, kind) IN
       /\ chans[c] # <<>>
       /\ chans' = [chans EXCEPT ![c] = Tail(@)]
       /\ Received(kind, Head(chans[c]), worker)
  /\ UNCHANGED <<wval, len>>

\* select: a goroutine sending on one of the caller's channels hands its
\* value over directly, and exits
RecvHandoff ==
  /\ at \in Stages
  /\ \E w \in Workers :
       LET kind == KindOf(wval[w]) IN
       /\ worker[w] = "sending"
       /\ Chan(w[1], w[2], kind) = Chan(call, at, kind)
       /\ chans[Chan(call, at, kind)] = <<>>
       /\ Received(kind, wval[w], [worker EXCEPT ![w] = "exited"])
  /\ UNCHANGED <<wval, chans, len>>

\* select: ctx.Done() fires first; the goroutine is left running
Timeout ==
  /\ at \in Stages
  /\ Return("timeout")
  /\ UNCHANGED <<worker, wval, chans, len>>

Caller == StartCompile \/ RecvBuffered \/ RecvHandoff \/ Timeout

WorkerStep(w) == Compute(w) \/ SendBuffered(w)

Next == Caller \/ \E w \in Workers : WorkerStep(w)

(***************************************************************************)
(* Fairness: a runnable goroutine is eventually run by the Go scheduler,   *)
(* and regexp (RE2) work takes time linear in its input, so every enabled  *)
(* goroutine step is weakly fair; so is the caller.                        *)
(***************************************************************************)
Spec ==
  /\ Init /\ [][Next]_vars
  /\ WF_vars(Caller)
  /\ \A w \in Workers : WF_vars(WorkerStep(w))

-----------------------------------------------------------------------------

TypeOK ==
  /\ call \in 1..MaxCalls + 1
  /\ at \in {"start"} \cup Stages
  /\ worker \in [Workers -> {"none", "running", "sending", "exited"}]
  /\ wval \in [Workers -> {"none", "re", "err", "match", "nomatch", "panic"}]
  /\ chans \in [ChanIds -> Seq({"re", "err", "match", "nomatch", "panic"})]
  /\ outcome \in [Calls -> Outcomes]
  /\ \A k \in Calls : len[k] \in Inputs[k] \cup {NoLen}

(***************************************************************************)
(* A match or no-match a call returns is what FindStringSubmatch or        *)
(* MatchString of that same call computed: a goroutine left behind by a    *)
(* timed-out call never supplies the answer of a later one.  The channels  *)
(* made afresh in every CompileSafeRegex, FindSubmatch and Match call are  *)
(* what guarantees it.                                                     *)
(***************************************************************************)
AnswerFromOwnWorker ==
  \A k \in Calls :
    outcome[k] \in {"match", "nomatch"} =>
      \E s \in {"find", "match"} :
        worker[<<k, s>>] # "none" /\ outcome[k] = wval[<<k, s>>]

(***************************************************************************)
(* spec.md 7: regex execution is bounded to a pattern of at most 1000 and  *)
(* an input of at most 10000 bytes.  A call is refused for its length only *)
(* when one of them is over, and a call with one of them over never        *)
(* returns a match or a no-match: CompileSafeRegex checks the pattern, and *)
(* FindSubmatch / Match check the input against the limits the compiled   *)
(* matcher kept, one stage later.                                          *)
(***************************************************************************)
LengthBudget ==
  \A k \in Calls :
    LET over == len[k].pattern > 1000 \/ len[k].input > 10000
    IN  /\ outcome[k] = "limit" => over
        /\ outcome[k] \in {"match", "nomatch"} => ~over

(***************************************************************************)
(* No goroutine leaks for good: every goroutine CompileSafeRegex or        *)
(* FindSubmatch starts eventually exits, also when its caller returned on  *)
(* the deadline and nobody will ever read its channel.  The buffer of one  *)
(* in make(chan ..., 1) is what lets the send complete.                    *)
(***************************************************************************)
AllWorkersExit ==
  <>[](\A w \in Workers : worker[w] \in {"none", "exited"})
=============================================================================
