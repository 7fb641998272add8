--------------------------- MODULE FridaHooksProofs ---------------------------
(***************************************************************************)
(* Proofs about FridaHooks, for any number of threads and any programs.    *)
(***************************************************************************)
EXTENDS FridaHooks, FiniteSetTheorems, TLAPS

CallType   == [fn : {"open", "stat64"}, path : {"watched", "other"}, by : Threads]
ThreadType == [pc : {"idle", "entered", "left"}, fn : {"open", "stat64"},
               path : {"watched", "other"}, id : Nat, hooked : BOOLEAN]

InCall(t) == thread[t].pc # "idle"

(* Nothing happens before the script is loaded.                            *)
ControlInv ==
    /\ control \in {"spawn", "attach", "load", "resume"} <=> child \in {"none", "suspended"}
    /\ child \in {"none", "suspended"} =>
         /\ calls = <<>> /\ msgs = <<>> /\ filled = {} /\ statbuf = NoBuf /\ ~ran
         /\ \A t \in Threads : ~InCall(t)
    /\ control = "resume" => hooks = exports

(* A call in progress is one of the history's, by its thread; stat64() is  *)
(* hooked from the start or never.                                         *)
CallInv ==
    \A t \in Threads :
        /\ ~InCall(t) => thread[t].id = 0
        /\ InCall(t) => /\ thread[t].id \in 1..Len(calls)
                        /\ calls[thread[t].id].fn = thread[t].fn
                        /\ calls[thread[t].id].path = thread[t].path
                        /\ calls[thread[t].id].by = t
        /\ InCall(t) /\ thread[t].fn = "stat64" => (thread[t].hooked <=> "stat64" \in hooks)

(* Until a size is reported, the buffer noted is that of a call which is   *)
(* still to leave through the hook.                                        *)
SizeInv ==
    /\ ran <=> Of("size") # {}
    /\ \A i, j \in Of("size") : i = j
    /\ \A i \in Of("size") : msgs[i].live /\ msgs[i].id \in Watched("stat64")
    /\ ~ran /\ statbuf # NoBuf => \E t \in Threads : /\ InCall(t) /\ thread[t].id = statbuf
                                                     /\ thread[t].fn = "stat64" /\ thread[t].hooked

(* With one thread: the call in progress is the latest,                    *)
SoloInv == OneThread => \A t \in Threads : InCall(t) => thread[t].id = Len(calls)

(* ... the listener of open(), if there is one, is there until a           *)
(* watched call has returned,                                              *)
OpenInv ==
    OneThread =>
        /\ child \in {"running", "exited"} =>
             ("open" \in hooks <=> "open" \in exports /\ Watched("open") \cap Returned = {})
        /\ \A t \in Threads : InCall(t) /\ thread[t].fn = "open"
                                => (thread[t].hooked <=> "open" \in hooks)

(* ... and the buffer noted is that of the watched stat64(), if any; the   *)
(* size reported is that of the first of them to return, read when its     *)
(* buffer was as it is now.                                                *)
Done == Watched("stat64") \cap Returned

StatInv ==
    OneThread /\ "stat64" \in hooks =>
        /\ ran <=> Done # {}
        /\ statbuf = NoBuf <=> Watched("stat64") = {}
        /\ \A i \in Of("size") : /\ msgs[i].id \in Done
                                 /\ \A j \in Done : msgs[i].id <= j
                                 /\ msgs[i].filled <=> msgs[i].id \in filled

(* The inductive invariant.                                                *)
HooksInv ==
    /\ TypeOK /\ ControlInv /\ CallInv /\ SizeInv
    /\ SoloInv /\ OpenInv /\ OpensReportedUntilWatched /\ StatInv

-----------------------------------------------------------------------------
(* What the operators of the module make of a step. *)

LEMMA Minimum ==
    ASSUME NEW S \in SUBSET Nat, NEW m \in S, \A j \in S : m <= j
    PROVE  Min(S) = m
  <1>1. \A x \in S : (\A y \in S : x =< y) <=> x = m
    OBVIOUS
  <1>2. PICK x \in S : x = Min(S) /\ \A y \in S : x =< y
    BY <1>1, Zenon DEF Min
  <1>. QED  BY <1>1, <1>2

(* A message that is kept is of its kind and of no other.                  *)
LEMMA Kept ==
    ASSUME msgs \in Seq(Message), NEW m \in Message, msgs' = Append(msgs, m)
    PROVE  /\ msgs' \in Seq(Message)
           /\ \A kind : /\ Of(kind)' = Of(kind) \cup (IF m.kind = kind THEN {Len(msgs) + 1} ELSE {})
                        /\ Ids(kind)' = Ids(kind) \cup (IF m.kind = kind THEN {m.id} ELSE {})
           /\ \A i \in 1..Len(msgs) : msgs'[i] = msgs[i]
           /\ msgs'[Len(msgs) + 1] = m
  <1>1. /\ msgs' \in Seq(Message) /\ Len(msgs') = Len(msgs) + 1 /\ Len(msgs) \in Nat
        /\ \A i \in 1..Len(msgs) : msgs'[i] = msgs[i]
        /\ msgs'[Len(msgs) + 1] = m
    OBVIOUS
  <1>2. ASSUME NEW kind
        PROVE  Of(kind)' = Of(kind) \cup (IF m.kind = kind THEN {Len(msgs) + 1} ELSE {})
    BY <1>1 DEF Of
  <1>3. ASSUME NEW kind
        PROVE  Ids(kind)' = Ids(kind) \cup (IF m.kind = kind THEN {m.id} ELSE {})
    <2>1. \A i \in Of(kind) : i \in 1..Len(msgs)
      BY DEF Of
    <2>2. \A x : x \in Ids(kind)' <=> \E i \in Of(kind)' : msgs'[i].id = x
      BY DEF Ids
    <2>3. \A x : x \in Ids(kind) <=> \E i \in Of(kind) : msgs[i].id = x
      BY DEF Ids
    <2>. QED  BY <1>1, <1>2, <2>1, <2>2, <2>3
  <1>. QED  BY <1>1, <1>2, <1>3

(* Keep adds a message of the kind and call it names.                      *)
LEMMA Keeping ==
    ASSUME msgs \in Seq(Message), NEW kind \in {"path", "fd", "size"}, NEW id \in Nat,
           Keep(kind, id)
    PROVE  \E m \in Message :
             /\ m.kind = kind /\ m.id = id
             /\ m.live <=> \E t \in Threads : thread[t].pc # "idle" /\ thread[t].id = id
             /\ m.filled <=> id \in filled
             /\ msgs' = Append(msgs, m)
  <1>. DEFINE live == \E t \in Threads : thread[t].pc # "idle" /\ thread[t].id = id
              full == id \in filled
              m == [kind |-> kind, id |-> id, live |-> live, filled |-> full]
  <1>1. live \in BOOLEAN /\ full \in BOOLEAN
    OBVIOUS
  <1>2. msgs' = Append(msgs, m)
    BY DEF Keep
  <1>3. m \in Message
    BY <1>1 DEF Message
  <1>4. m.kind = kind /\ m.id = id /\ m.live = live /\ m.filled = full
    OBVIOUS
  <1>. HIDE DEF m
  <1>5. (m.live <=> live) /\ (m.filled <=> full)
    BY <1>4
  <1>. QED  BY <1>2, <1>3, <1>4, <1>5

(* A call that is entered is the latest and has not returned.              *)
LEMMA Entered ==
    ASSUME TypeOK, CallInv, NEW t \in Threads, Enter(t)
    PROVE  LET n == Len(calls) + 1
               c == Head(program[t])
           IN /\ n \in Nat /\ c \in Call /\ Len(calls') = n
              /\ program' \in [Threads -> Seq(Call)]
              /\ calls' \in Seq(CallType)
              /\ \A i \in 1..Len(calls) : calls'[i] = calls[i]
              /\ calls'[n].fn = c.fn /\ calls'[n].path = c.path /\ calls'[n].by = t
              /\ thread' \in [Threads -> ThreadType]
              /\ \A s \in Threads \ {t} : thread'[s] = thread[s]
              /\ thread'[t].pc = "entered" /\ thread'[t].fn = c.fn
              /\ thread'[t].path = c.path /\ thread'[t].id = n
              /\ thread'[t].hooked <=> c.fn \in hooks
              /\ Returned' = Returned
              /\ Returned \subseteq 1..Len(calls)
              /\ \A fn : Watched(fn)' = Watched(fn) \cup
                                          (IF c.fn = fn /\ c.path = "watched" THEN {n} ELSE {})
  <1>. DEFINE n == Len(calls) + 1
              c == Head(program[t])
              hooked == c.fn \in hooks
              r == [pc |-> "entered", fn |-> c.fn, path |-> c.path, id |-> n, hooked |-> hooked]
              q == [fn |-> c.fn, path |-> c.path, by |-> t]
  <1>1. /\ c \in Call /\ Tail(program[t]) \in Seq(Call) /\ n \in Nat
        /\ calls \in Seq(CallType) /\ Len(calls) \in Nat
    BY DEF TypeOK, Enter, CallType
  <1>2. program' \in [Threads -> Seq(Call)]
    BY <1>1 DEF TypeOK, Enter
  <1>3. hooked \in BOOLEAN
    OBVIOUS
  <1>4. r \in ThreadType /\ q \in CallType
    BY <1>1, <1>3 DEF ThreadType, CallType, Call
  <1>5. /\ r.pc = "entered" /\ r.fn = c.fn /\ r.path = c.path /\ r.id = n /\ r.hooked = hooked
        /\ q.fn = c.fn /\ q.path = c.path /\ q.by = t
    OBVIOUS
  <1>6. thread' = [thread EXCEPT ![t] = r] /\ calls' = Append(calls, q)
    BY DEF Enter
  <1>7. thread \in [Threads -> ThreadType] /\ thread[t].pc = "idle"
    BY DEF TypeOK, ThreadType, Enter
  <1>. HIDE DEF r, q, n, c
  <1>8. r.hooked <=> hooked
    BY <1>5
  <1>9. /\ thread' \in [Threads -> ThreadType] /\ thread'[t] = r
        /\ \A s \in Threads \ {t} : thread'[s] = thread[s]
    BY <1>4, <1>6, <1>7
  <1>10. /\ calls' \in Seq(CallType) /\ Len(calls') = n /\ calls'[n] = q
         /\ \A i \in 1..Len(calls) : calls'[i] = calls[i]
    BY <1>1, <1>4, <1>6 DEF n
  <1>11. Returned' = Returned /\ Returned \subseteq 1..Len(calls)
    <2>1. thread[t].id = 0
      BY <1>7 DEF CallInv, InCall
    <2>2. \A s \in Threads : thread'[s].id = IF s = t THEN n ELSE thread[s].id
      BY <1>5, <1>9
    <2>3. \A i \in 1..Len(calls) :
              (\A s \in Threads : thread'[s].id # i) <=> (\A s \in Threads : thread[s].id # i)
      BY <1>1, <2>1, <2>2 DEF n
    <2>4. thread'[t].id = n
      BY <2>2
    <2>. QED  BY <1>1, <1>10, <2>3, <2>4 DEF Returned, n
  <1>12. ASSUME NEW fn
         PROVE  Watched(fn)' = Watched(fn) \cup
                                 (IF c.fn = fn /\ c.path = "watched" THEN {n} ELSE {})
    BY <1>1, <1>5, <1>10 DEF Watched, n
  <1>. QED  BY <1>1, <1>2, <1>5, <1>8, <1>9, <1>10, <1>11, <1>12 DEF n, c

(* Only the call of the thread returns.                                    *)
LEMMA Left ==
    ASSUME TypeOK, CallInv, NEW t \in Threads, Leave(t)
    PROVE  /\ thread' \in [Threads -> ThreadType]
           /\ \A s \in Threads \ {t} : thread'[s] = thread[s]
           /\ thread'[t].pc = "idle" /\ thread'[t].id = 0
           /\ Returned' = Returned \cup {thread[t].id}
           /\ thread[t].id \notin Returned
           /\ Returned \subseteq 1..Len(calls)
           /\ thread[t].id \in 1..Len(calls)
  <1>1. thread \in [Threads -> ThreadType] /\ thread[t].pc = "left"
    BY DEF TypeOK, ThreadType, Leave
  <1>2. Idle \in ThreadType /\ Idle.pc = "idle" /\ Idle.id = 0
    BY DEF Idle, ThreadType
  <1>3. /\ thread' \in [Threads -> ThreadType] /\ thread'[t] = Idle
        /\ \A s \in Threads \ {t} : thread'[s] = thread[s]
    BY <1>1, <1>2 DEF Leave
  <1>4. /\ thread[t].id \in 1..Len(calls) /\ calls[thread[t].id].by = t
        /\ \A s \in Threads : thread[s].id = thread[t].id => s = t
    BY <1>1 DEF CallInv, InCall
  <1>5. calls' = calls /\ \A s \in Threads : thread'[s].id = IF s = t THEN 0 ELSE thread[s].id
    BY <1>2, <1>3 DEF Leave
  <1>6. calls' = calls
    BY DEF Leave
  <1>7. ASSUME NEW i \in 1..Len(calls)
        PROVE  i \in Returned' <=> (i \in Returned \/ i = thread[t].id)
    BY <1>4, <1>5, <1>6 DEF Returned
  <1>8. Returned' = Returned \cup {thread[t].id}
    BY <1>4, <1>6, <1>7 DEF Returned
  <1>. QED  BY <1>1, <1>2, <1>3, <1>4, <1>8 DEF Returned
(* With one thread, a call in progress is the only one.                    *)
LEMMA Alone ==
    ASSUME CallInv, OneThread, NEW s \in Threads, NEW t \in Threads, InCall(s), InCall(t)
    PROVE  s = t
  <1>1. /\ thread[s].id \in 1..Len(calls) /\ calls[thread[s].id].by = s
        /\ thread[t].id \in 1..Len(calls) /\ calls[thread[t].id].by = t
    BY DEF CallInv
  <1>. QED  BY <1>1 DEF OneThread

-----------------------------------------------------------------------------
(* The invariant is inductive. *)

LEMMA Initially ==
    Init => HooksInv
  <1>. SUFFICES ASSUME Init PROVE HooksInv
    OBVIOUS
  <1>1. /\ calls = <<>> /\ msgs = <<>> /\ Len(calls) = 0 /\ Len(msgs) = 0
        /\ thread = [t \in Threads |-> Idle]
    BY DEF Init
  <1>2. \A t \in Threads : thread[t] = Idle
    BY <1>1
  <1>3. Idle \in ThreadType /\ Idle.pc = "idle" /\ Idle.id = 0
    BY DEF Idle, ThreadType
  <1>4. \A x : x \notin 1..Len(calls) /\ x \notin 1..Len(msgs)
    BY <1>1
  <1>5. \A fn : Watched(fn) = {} /\ Of(fn) = {} /\ Ids(fn) = {}
    BY <1>4 DEF Watched, Of, Ids
  <1>6. thread \in [Threads -> ThreadType]
    BY <1>1, <1>3
  <1>7. calls \in Seq(CallType) /\ msgs \in Seq(Message)
    BY <1>1
  <1>8. program \in [Threads -> Seq(Call)]
    BY FridaHooksAssumption DEF Init
  <1>9. TypeOK
    BY <1>1, <1>6, <1>7, <1>8 DEF Init, Platforms, TypeOK, ThreadType, CallType, NoBuf
  <1>10. ControlInv
    BY <1>1, <1>2, <1>3 DEF Init, ControlInv, InCall
  <1>11. CallInv /\ SoloInv
    BY <1>2, <1>3 DEF CallInv, SoloInv, InCall
  <1>12. SizeInv /\ StatInv
    BY <1>5 DEF Init, SizeInv, StatInv, Done
  <1>13. OpenInv
    BY <1>2, <1>3 DEF Init, OpenInv, InCall
  <1>14. OpensReportedUntilWatched
    BY <1>4, <1>5 DEF OpensReportedUntilWatched
  <1>. QED  BY <1>9, <1>10, <1>11, <1>12, <1>13, <1>14 DEF HooksInv

(* The steps of the control script, and the end of the program.            *)
LEMMA Controlling ==
    ASSUME HooksInv, Control \/ Exit \/ UNCHANGED vars
    PROVE  HooksInv'
  <1>. USE DEF HooksInv
  <1>1. UNCHANGED <<exports, statbuf, ran, msgs, program, thread, calls, filled>>
    BY DEF Control, Spawn, Attach, LoadScript, Resume, PrintMessages, Exit, Step,
           scriptVars, programVars, vars
  <1>2. /\ \A fn : Watched(fn)' = Watched(fn) /\ Of(fn)' = Of(fn) /\ Ids(fn)' = Ids(fn)
        /\ Returned' = Returned /\ (OneThread' <=> OneThread)
        /\ \A t \in Threads : InCall(t)' <=> InCall(t)
    BY <1>1 DEF Watched, Of, Ids, Returned, OneThread, InCall
  <1>3. TypeOK'
    <2>1. /\ control' \in {"spawn", "attach", "load", "resume", "wait", "printed"}
          /\ child' \in {"none", "suspended", "running", "exited"}
          /\ exports' = exports /\ exports \subseteq {"open", "stat64"} /\ hooks' \subseteq exports
      BY DEF TypeOK, Control, Spawn, Attach, LoadScript, Resume, PrintMessages, Exit, Step,
             scriptVars, programVars, vars
    <2>. QED  BY <1>1, <1>2, <2>1 DEF TypeOK
  <1>4. ControlInv'
    <2>1. CASE UNCHANGED <<control, child, hooks>>
      BY <1>1, <1>2, <2>1 DEF ControlInv
    <2>2. CASE Spawn
      BY <1>1, <1>2, <2>2 DEF ControlInv, Spawn, Step, scriptVars
    <2>3. CASE Attach
      BY <1>1, <1>2, <2>3 DEF ControlInv, Attach, Step, scriptVars
    <2>4. CASE LoadScript
      BY <1>1, <1>2, <2>4 DEF ControlInv, LoadScript, Step
    <2>5. CASE Resume
      BY <1>1, <1>2, <2>5 DEF ControlInv, Resume, Step, scriptVars
    <2>6. CASE PrintMessages
      BY <1>1, <1>2, <2>6 DEF ControlInv, PrintMessages, Step, scriptVars
    <2>7. CASE Exit
      BY <1>1, <1>2, <2>7 DEF ControlInv, Exit, scriptVars
    <2>. QED  BY <2>1, <2>2, <2>3, <2>4, <2>5, <2>6, <2>7 DEF Control, vars
  <1>5. SizeInv' /\ SoloInv' /\ OpensReportedUntilWatched'
    BY <1>1, <1>2 DEF SizeInv, SoloInv, OpensReportedUntilWatched
  <1>6. \/ UNCHANGED hooks
        \/ /\ \A t \in Threads : ~InCall(t)
           /\ calls = <<>> /\ msgs = <<>> /\ statbuf = NoBuf /\ ~ran
           /\ child' \notin {"running", "exited"}
    BY DEF ControlInv, Control, Spawn, Attach, LoadScript, Resume, PrintMessages, Exit, Step,
           scriptVars, vars
  <1>7. calls = <<>> /\ msgs = <<>> => \A fn : Watched(fn) = {} /\ Of(fn) = {}
    BY DEF Watched, Of
  <1>8. CallInv'
    BY <1>1, <1>2, <1>6 DEF CallInv, InCall
  <1>9. StatInv'
    <2>1. CASE UNCHANGED hooks
      BY <1>1, <1>2, <2>1 DEF StatInv, Done
    <2>. QED  BY <1>1, <1>2, <1>6, <1>7, <2>1 DEF StatInv, Done
  <1>10. OpenInv'
    <2>1. CASE UNCHANGED hooks
      <3>1. /\ child' \in {"running", "exited"} /\ child \notin {"running", "exited"} =>
                 calls = <<>> /\ hooks = exports
        BY DEF TypeOK, ControlInv, Control, Spawn, Attach, LoadScript, Resume, PrintMessages, Exit,
               Step, vars
      <3>2. calls = <<>> => Watched("open") = {}
        BY DEF Watched
      <3>. QED  BY <1>1, <1>2, <2>1, <3>1, <3>2 DEF OpenInv
    <2>. QED  BY <1>1, <1>2, <1>6, <2>1 DEF OpenInv
  <1>. QED  BY <1>3, <1>4, <1>5, <1>8, <1>9, <1>10

(* A call runs; a buffer that is filled is not one a size was read from.   *)
LEMMA Running ==
    ASSUME HooksInv, NEW t \in Threads, Body(t)
    PROVE  HooksInv'
  <1>. USE DEF HooksInv
  <1>. DEFINE r == [thread[t] EXCEPT !.pc = "left"]
  <1>1. thread \in [Threads -> ThreadType] /\ thread[t].pc = "entered"
    BY DEF TypeOK, ThreadType, Body
  <1>2. /\ r \in ThreadType /\ r.pc = "left" /\ r.fn = thread[t].fn /\ r.path = thread[t].path
        /\ r.id = thread[t].id
    BY <1>1 DEF ThreadType
  <1>3. r.hooked = thread[t].hooked
    BY <1>1 DEF ThreadType
  <1>4. thread' = [thread EXCEPT ![t] = r]
    BY DEF Body
  <1>. HIDE DEF r
  <1>5. thread' \in [Threads -> ThreadType] /\ thread'[t] = r
    BY <1>1, <1>2, <1>4
  <1>6. \A s \in Threads \ {t} : thread'[s] = thread[s]
    BY <1>1, <1>4
  <1>7. \A s \in Threads : /\ thread'[s].fn = thread[s].fn /\ thread'[s].path = thread[s].path
                           /\ thread'[s].id = thread[s].id
                           /\ thread'[s].hooked <=> thread[s].hooked
                           /\ InCall(s)' <=> InCall(s)
    BY <1>1, <1>2, <1>3, <1>5, <1>6 DEF InCall
  <1>8. UNCHANGED <<control, child, exports, hooks, statbuf, ran, msgs, program, calls>>
    BY DEF Body, scriptVars
  <1>9. /\ \A fn : Watched(fn)' = Watched(fn) /\ Of(fn)' = Of(fn) /\ Ids(fn)' = Ids(fn)
        /\ Returned' = Returned /\ (OneThread' <=> OneThread)
    BY <1>7, <1>8 DEF Watched, Of, Ids, Returned, OneThread
  <1>10. thread[t].id \in 1..Len(calls) /\ thread[t].id \notin Returned /\ InCall(t)
    BY <1>1 DEF CallInv, InCall, Returned
  <1>11. filled \subseteq filled' /\ filled' \subseteq filled \cup {thread[t].id}
    BY DEF Body
  <1>12. TypeOK'
    BY <1>5, <1>8, <1>9, <1>10, <1>11 DEF TypeOK, ThreadType
  <1>13. ControlInv'
    BY <1>7, <1>8, <1>10 DEF ControlInv
  <1>14. CallInv'
    BY <1>7, <1>8 DEF CallInv
  <1>15. SizeInv'
    BY <1>7, <1>8, <1>9 DEF SizeInv
  <1>16. SoloInv' /\ OpenInv' /\ OpensReportedUntilWatched'
    BY <1>7, <1>8, <1>9 DEF SoloInv, OpenInv, OpensReportedUntilWatched
  <1>17. StatInv'
    BY <1>8, <1>9, <1>10, <1>11 DEF StatInv, Done
  <1>. QED  BY <1>12, <1>13, <1>14, <1>15, <1>16, <1>17

(* A call is entered; with one thread, no other is in progress.            *)
LEMMA Entering ==
    ASSUME HooksInv, NEW t \in Threads, Enter(t)
    PROVE  HooksInv'
  <1>. USE DEF HooksInv
  <1>. DEFINE n == Len(calls) + 1
              c == Head(program[t])
  <1>0. Len(calls) \in Nat
    BY DEF TypeOK
  <1>1. /\ n \in Nat /\ c \in Call /\ Len(calls') = n
        /\ program' \in [Threads -> Seq(Call)]
        /\ calls' \in Seq(CallType)
        /\ \A i \in 1..Len(calls) : calls'[i] = calls[i]
        /\ calls'[n].fn = c.fn /\ calls'[n].path = c.path /\ calls'[n].by = t
    BY Entered
  <1>2. /\ thread' \in [Threads -> ThreadType]
        /\ \A s \in Threads \ {t} : thread'[s] = thread[s]
        /\ thread'[t].pc = "entered" /\ thread'[t].fn = c.fn
        /\ thread'[t].path = c.path /\ thread'[t].id = n
        /\ thread'[t].hooked <=> c.fn \in hooks
    BY Entered
  <1>3. /\ Returned' = Returned
        /\ Returned \subseteq 1..Len(calls)
        /\ \A fn : Watched(fn)' = Watched(fn) \cup
                                    (IF c.fn = fn /\ c.path = "watched" THEN {n} ELSE {})
    BY Entered
  <1>4. /\ UNCHANGED <<control, child, exports, hooks, filled>>
        /\ child = "running" /\ thread[t].pc = "idle"
        /\ IF c.fn \notin hooks THEN UNCHANGED <<statbuf, ran, msgs>>
           ELSE IF c.fn = "open" THEN OnEnterOpen ELSE OnEnterStat(c.path)
    BY DEF Enter
  <1>. HIDE DEF n, c
  <1>5. c.fn \in {"open", "stat64"} /\ c.path \in {"watched", "other"}
    BY <1>0, <1>1 DEF Call
  <1>6. \A fn : Watched(fn) \subseteq 1..Len(calls)
    BY DEF Watched
  <1>7. \A s \in Threads : InCall(s)' <=> (s = t \/ InCall(s))
    BY <1>2 DEF InCall
  <1>8. ran' = ran
    BY <1>4 DEF OnEnterOpen, OnEnterStat
  <1>9. statbuf' = IF c.fn = "stat64" /\ c.fn \in hooks /\ c.path = "watched" THEN n ELSE statbuf
    BY <1>4, <1>5 DEF OnEnterOpen, OnEnterStat, n
  <1>10. /\ msgs' \in Seq(Message)
         /\ \A kind \in {"fd", "size"} : Of(kind)' = Of(kind) /\ Ids(kind)' = Ids(kind)
         /\ \A i \in 1..Len(msgs) : msgs'[i] = msgs[i]
         /\ Ids("path")' = Ids("path") \cup
                             (IF c.fn = "open" /\ "open" \in hooks THEN {n} ELSE {})
    <2>1. CASE c.fn = "open" /\ "open" \in hooks
      <3>1. Keep("path", n)
        BY <1>4, <2>1 DEF OnEnterOpen, n
      <3>2. PICK m \in Message : m.kind = "path" /\ m.id = n /\ msgs' = Append(msgs, m)
        BY <1>0, <1>1, <3>1, Keeping DEF TypeOK
      <3>3. msgs \in Seq(Message)
        BY DEF TypeOK
      <3>4. /\ msgs' \in Seq(Message)
            /\ \A kind : /\ Of(kind)' = Of(kind) \cup (IF m.kind = kind THEN {Len(msgs) + 1} ELSE {})
                         /\ Ids(kind)' = Ids(kind) \cup (IF m.kind = kind THEN {m.id} ELSE {})
            /\ \A i \in 1..Len(msgs) : msgs'[i] = msgs[i]
        BY <3>2, <3>3, Kept
      <3>. QED  BY <2>1, <3>2, <3>4
    <2>2. CASE ~(c.fn = "open" /\ "open" \in hooks)
      <3>1. msgs' = msgs
        BY <1>4, <1>5, <2>2 DEF OnEnterStat
      <3>. QED  BY <2>2, <3>1 DEF TypeOK, Of, Ids
    <2>. QED  BY <2>1, <2>2
  <1>11. \A i \in Of("size") : i \in 1..Len(msgs)
    BY DEF Of
  <1>12. TypeOK'
    <2>1. filled' \subseteq 1..Len(calls')
      BY <1>0, <1>1, <1>4 DEF TypeOK, n
    <2>2. statbuf' \in {NoBuf} \cup Watched("stat64")'
      BY <1>3, <1>9 DEF TypeOK
    <2>3. ran' \in BOOLEAN
      BY <1>8 DEF TypeOK
    <2>. QED  BY <1>0, <1>1, <1>2, <1>4, <1>10, <2>1, <2>2, <2>3 DEF TypeOK, ThreadType, CallType
  <1>13. ControlInv'
    BY <1>4 DEF ControlInv
  <1>14. CallInv'
    <2>1. ASSUME NEW s \in Threads \ {t}
          PROVE  (/\ ~InCall(s) => thread[s].id = 0
                  /\ InCall(s) => /\ thread[s].id \in 1..Len(calls)
                                  /\ calls[thread[s].id].fn = thread[s].fn
                                  /\ calls[thread[s].id].path = thread[s].path
                                  /\ calls[thread[s].id].by = s
                  /\ InCall(s) /\ thread[s].fn = "stat64" =>
                       (thread[s].hooked <=> "stat64" \in hooks))'
      <3>1. thread'[s] = thread[s] /\ (InCall(s)' <=> InCall(s)) /\ hooks' = hooks
        BY <1>2, <1>4, <1>7
      <3>2. \A i \in 1..Len(calls) : i \in 1..Len(calls') /\ calls'[i] = calls[i]
        BY <1>0, <1>1 DEF n
      <3>. QED  BY <3>1, <3>2 DEF CallInv
    <2>2. n \in 1..Len(calls')
      BY <1>0, <1>1 DEF n
    <2>3. InCall(t)' /\ hooks' = hooks
      BY <1>4, <1>7
    <2>. QED  BY <1>1, <1>2, <2>1, <2>2, <2>3 DEF CallInv
  <1>15. SizeInv'
    <2>1. (ran <=> Of("size") # {})'
      BY <1>8, <1>10 DEF SizeInv
    <2>2. (\A i, j \in Of("size") : i = j)'
      BY <1>10 DEF SizeInv
    <2>3. (\A i \in Of("size") : msgs[i].live /\ msgs[i].id \in Watched("stat64"))'
      BY <1>3, <1>10, <1>11 DEF SizeInv
    <2>4. (~ran /\ statbuf # NoBuf =>
             \E s \in Threads : /\ InCall(s) /\ thread[s].id = statbuf
                                /\ thread[s].fn = "stat64" /\ thread[s].hooked)'
      <3>1. CASE statbuf' = statbuf
        <4>. SUFFICES ASSUME ~ran, statbuf # NoBuf
                      PROVE  \E s \in Threads : /\ InCall(s)' /\ thread'[s].id = statbuf
                                                /\ thread'[s].fn = "stat64" /\ thread'[s].hooked
          BY <1>8, <3>1
        <4>1. PICK s \in Threads : /\ InCall(s) /\ thread[s].id = statbuf
                                   /\ thread[s].fn = "stat64" /\ thread[s].hooked
          BY DEF SizeInv
        <4>2. s # t
          BY <1>4, <4>1 DEF InCall
        <4>. QED  BY <1>2, <1>7, <4>1, <4>2
      <3>2. CASE c.fn = "stat64" /\ c.fn \in hooks /\ statbuf' = n
        BY <1>2, <1>7, <3>2
      <3>. QED  BY <1>9, <3>1, <3>2
    <2>. QED  BY <2>1, <2>2, <2>3, <2>4 DEF SizeInv
  <1>16. ASSUME OneThread'
         PROVE  /\ OneThread
                /\ \A s \in Threads : ~InCall(s)
                /\ Returned = 1..Len(calls)
    <2>1. \A i \in 1..Len(calls) : calls[i].by = t
      <3>1. ASSUME NEW i \in 1..Len(calls)
            PROVE  calls[i].by = t
        <4>1. i \in 1..Len(calls') /\ n \in 1..Len(calls')
          BY <1>0, <1>1 DEF n
        <4>2. calls'[i].by = calls'[n].by
          BY <1>16, <4>1 DEF OneThread
        <4>. QED  BY <1>0, <1>1, <4>2
      <3>. QED  BY <3>1
    <2>2. OneThread
      BY <2>1 DEF OneThread
    <2>3. \A s \in Threads : ~InCall(s)
      BY <1>4, <2>1 DEF CallInv, InCall
    <2>4. \A s \in Threads : thread[s].id = 0
      BY <2>3 DEF CallInv
    <2>. QED  BY <2>2, <2>3, <2>4 DEF Returned
  <1>17. SoloInv'
    BY <1>0, <1>1, <1>2, <1>7, <1>16 DEF SoloInv
  <1>18. ASSUME OneThread'
         PROVE  /\ "open" \in hooks <=> "open" \in exports /\ Watched("open") = {}
                /\ Watched("open")' \cap Returned' = Watched("open")
    <2>1. n \notin Returned
      BY <1>0, <1>1, <1>3 DEF n
    <2>. QED  BY <1>3, <1>4, <1>6, <1>16, <1>18, <2>1 DEF OpenInv
  <1>19. OpenInv'
    BY <1>2, <1>4, <1>7, <1>16, <1>18 DEF OpenInv
  <1>20. OpensReportedUntilWatched'
    <2>. SUFFICES ASSUME OneThread'
                  PROVE  /\ Ids("path")' = {i \in 1..n : /\ calls'[i].fn = "open" /\ "open" \in exports
                                                         /\ \A j \in Watched("open")' : i <= j}
                         /\ Ids("fd")' = Ids("path")' \cap Returned'
      BY <1>0, <1>1, <1>4 DEF OpensReportedUntilWatched
    <2>1. /\ Ids("path") = {i \in 1..Len(calls) : /\ calls[i].fn = "open" /\ "open" \in exports
                                                  /\ \A j \in Watched("open") : i <= j}
          /\ Ids("fd") = Ids("path") \cap Returned
      BY <1>16 DEF OpensReportedUntilWatched
    <2>2. n \notin Returned /\ \A i \in 1..Len(calls) : i <= n
      BY <1>0, <1>1, <1>3 DEF n
    <2>3. Ids("fd")' = Ids("path")' \cap Returned'
      BY <1>3, <1>10, <2>1, <2>2
    <2>4. ASSUME NEW i \in 1..Len(calls)
          PROVE  (\A j \in Watched("open")' : i <= j) <=> (\A j \in Watched("open") : i <= j)
      BY <1>3, <2>2
    <2>5. "open" \in hooks /\ c.fn = "open" <=>
            calls'[n].fn = "open" /\ "open" \in exports /\ \A j \in Watched("open")' : n <= j
      <3>1. CASE "open" \in hooks
        BY <1>0, <1>1, <1>3, <1>18, <3>1
      <3>2. CASE "open" \notin exports
        BY <1>18, <3>2
      <3>3. CASE "open" \notin hooks /\ "open" \in exports
        <4>1. PICK j \in Watched("open") : j \in 1..Len(calls)
          BY <1>6, <1>18, <3>3
        <4>2. j \in Watched("open")' /\ ~(n <= j)
          BY <1>0, <1>1, <1>3, <4>1 DEF n
        <4>. QED  BY <3>3, <4>2
      <3>. QED  BY <3>1, <3>2, <3>3
    <2>6. \A i : i \in 1..n <=> i \in 1..Len(calls) \/ i = n
      BY <1>0, <1>1 DEF n
    <2>7. n \notin 1..Len(calls)
      BY <1>0, <1>1 DEF n
    <2>8. Ids("path")' = {i \in 1..n : /\ calls'[i].fn = "open" /\ "open" \in exports
                                       /\ \A j \in Watched("open")' : i <= j}
      BY <1>0, <1>1, <1>10, <2>1, <2>4, <2>5, <2>6, <2>7
    <2>. QED  BY <2>3, <2>8
  <1>21. StatInv'
    <2>. SUFFICES ASSUME OneThread', "stat64" \in hooks
                  PROVE  /\ ran <=> Done' # {}
                         /\ statbuf' = NoBuf <=> Watched("stat64")' = {}
                         /\ (\A i \in Of("size") : /\ msgs[i].id \in Done
                                                   /\ \A j \in Done : msgs[i].id <= j
                                                   /\ msgs[i].filled <=> msgs[i].id \in filled)'
      BY <1>4, <1>8 DEF StatInv
    <2>1. n \notin Returned
      BY <1>0, <1>1, <1>3 DEF n
    <2>2. Done' = Done
      BY <1>3, <2>1 DEF Done
    <2>3. /\ ran <=> Done # {}
          /\ statbuf = NoBuf <=> Watched("stat64") = {}
          /\ \A i \in Of("size") : /\ msgs[i].id \in Done
                                   /\ \A j \in Done : msgs[i].id <= j
                                   /\ msgs[i].filled <=> msgs[i].id \in filled
      BY <1>16 DEF StatInv
    <2>4. statbuf' = NoBuf <=> Watched("stat64")' = {}
      <3>1. n # NoBuf
        BY <1>0 DEF NoBuf, n
      <3>2. CASE c.fn = "stat64" /\ c.path = "watched"
        BY <1>3, <1>9, <3>1, <3>2
      <3>3. CASE ~(c.fn = "stat64" /\ c.path = "watched")
        BY <1>3, <1>9, <2>3, <3>3
      <3>. QED  BY <3>2, <3>3
    <2>. QED  BY <1>4, <1>10, <1>11, <2>2, <2>3, <2>4
  <1>. QED  BY <1>12, <1>13, <1>14, <1>15, <1>17, <1>19, <1>20, <1>21

(* A call returns: the callback of stat64() reads a size at most once, and *)
(* that of open() removes its listener at the first watched call.          *)
LEMMA Leaving ==
    ASSUME HooksInv, NEW t \in Threads, Leave(t)
    PROVE  HooksInv'
  <1>. USE DEF HooksInv
  <1>. DEFINE id == thread[t].id
  <1>1. /\ thread' \in [Threads -> ThreadType]
        /\ \A s \in Threads \ {t} : thread'[s] = thread[s]
        /\ thread'[t].pc = "idle" /\ thread'[t].id = 0
        /\ Returned' = Returned \cup {id}
        /\ id \notin Returned
        /\ Returned \subseteq 1..Len(calls)
        /\ id \in 1..Len(calls)
    BY Left
  <1>2. UNCHANGED <<control, child, exports, program, calls, filled>> /\ thread[t].pc = "left"
    BY DEF Leave
  <1>3. thread \in [Threads -> ThreadType] /\ Len(calls) \in Nat /\ id \in Nat /\ id # 0
    BY <1>1 DEF TypeOK, ThreadType
  <1>4. /\ InCall(t) /\ ~InCall(t)'
        /\ \A s \in Threads \ {t} : InCall(s)' <=> InCall(s)
    BY <1>1, <1>2 DEF InCall
  <1>5. /\ calls[id].fn = thread[t].fn /\ calls[id].path = thread[t].path /\ calls[id].by = t
        /\ thread[t].fn = "stat64" => (thread[t].hooked <=> "stat64" \in hooks)
        /\ thread[t].fn \in {"open", "stat64"} /\ thread[t].path \in {"watched", "other"}
    BY <1>3, <1>4 DEF CallInv, ThreadType
  <1>6. /\ \A fn : Watched(fn)' = Watched(fn)
        /\ \A fn : id \in Watched(fn) <=> thread[t].fn = fn /\ thread[t].path = "watched"
        /\ OneThread' <=> OneThread
    BY <1>1, <1>2, <1>5 DEF Watched, OneThread
  <1>7. child \in {"running", "exited"}
    BY <1>4 DEF ControlInv, TypeOK
  <1>. HIDE DEF id
  <1>8. ("stat64" \in hooks' <=> "stat64" \in hooks) /\ hooks' \subseteq hooks
    BY DEF Leave, OnLeaveStat, OnLeaveOpen, scriptVars
  <1>9. statbuf' = statbuf
    BY DEF Leave, OnLeaveStat, OnLeaveOpen, scriptVars
  (* What is reported: *)
  <1>. DEFINE Reads == thread[t].fn = "stat64" /\ thread[t].hooked /\ ~ran /\ statbuf # NoBuf
              Opens == thread[t].fn = "open" /\ thread[t].hooked /\ Keep("fd", id)
  <1>10. \/ Reads /\ Keep("size", statbuf) /\ ran' /\ ran' \in BOOLEAN /\ hooks' = hooks
         \/ /\ Opens /\ ran' = ran
            /\ hooks' = IF thread[t].path = "watched" THEN hooks \ {"open"} ELSE hooks
         \/ /\ ~Reads /\ UNCHANGED <<ran, msgs, hooks>>
            /\ thread[t].fn = "open" => (thread[t].hooked => "open" \notin hooks)
    BY <1>5 DEF Leave, OnLeaveStat, OnLeaveOpen, scriptVars, id
  <1>11. msgs \in Seq(Message) /\ statbuf \in Nat /\ ran \in BOOLEAN
    BY DEF TypeOK, Watched, NoBuf
  <1>12. \A kind : Of(kind) \subseteq 1..Len(msgs)
    BY DEF Of
  <1>. HIDE DEF Reads, Opens
  <1>13. /\ msgs' \in Seq(Message) /\ ran' \in BOOLEAN
         /\ \A i \in 1..Len(msgs) : msgs'[i] = msgs[i]
         /\ Ids("path")' = Ids("path")
         /\ \/ /\ Reads /\ ran' /\ hooks' = hooks
               /\ Of("size")' = Of("size") \cup {Len(msgs) + 1} /\ Ids("fd")' = Ids("fd")
               /\ msgs'[Len(msgs) + 1].id = statbuf
               /\ msgs'[Len(msgs) + 1].live <=> \E s \in Threads : InCall(s) /\ thread[s].id = statbuf
               /\ msgs'[Len(msgs) + 1].filled <=> statbuf \in filled
            \/ /\ Opens /\ ran' = ran
               /\ hooks' = IF thread[t].path = "watched" THEN hooks \ {"open"} ELSE hooks
               /\ Of("size")' = Of("size") /\ Ids("fd")' = Ids("fd") \cup {id}
            \/ /\ ~Reads /\ UNCHANGED <<ran, hooks>>
               /\ thread[t].fn = "open" => (thread[t].hooked => "open" \notin hooks)
               /\ Of("size")' = Of("size") /\ Ids("fd")' = Ids("fd")
    <2>1. CASE Reads /\ Keep("size", statbuf) /\ ran' /\ ran' \in BOOLEAN /\ hooks' = hooks
      <3>1. PICK m \in Message :
              /\ m.kind = "size" /\ m.id = statbuf
              /\ m.live <=> \E s \in Threads : thread[s].pc # "idle" /\ thread[s].id = statbuf
              /\ m.filled <=> statbuf \in filled
              /\ msgs' = Append(msgs, m)
        BY <1>11, <2>1, Keeping
      <3>2. /\ msgs' \in Seq(Message)
            /\ \A kind : /\ Of(kind)' = Of(kind) \cup (IF m.kind = kind THEN {Len(msgs) + 1} ELSE {})
                         /\ Ids(kind)' = Ids(kind) \cup (IF m.kind = kind THEN {m.id} ELSE {})
            /\ \A i \in 1..Len(msgs) : msgs'[i] = msgs[i]
            /\ msgs'[Len(msgs) + 1] = m
        BY <1>11, <3>1, Kept
      <3>3. /\ Of("size")' = Of("size") \cup {Len(msgs) + 1}
            /\ Ids("fd")' = Ids("fd") /\ Ids("path")' = Ids("path")
        BY <3>1, <3>2
      <3>4. m.live <=> \E s \in Threads : InCall(s) /\ thread[s].id = statbuf
        BY <3>1 DEF InCall
      <3>. QED  BY <2>1, <3>1, <3>2, <3>3, <3>4
    <2>2. CASE /\ Opens /\ ran' = ran
               /\ hooks' = IF thread[t].path = "watched" THEN hooks \ {"open"} ELSE hooks
      <3>1. PICK m \in Message : m.kind = "fd" /\ m.id = id /\ msgs' = Append(msgs, m)
        BY <1>3, <1>11, <2>2, Keeping DEF Opens
      <3>2. /\ msgs' \in Seq(Message)
            /\ \A kind : /\ Of(kind)' = Of(kind) \cup (IF m.kind = kind THEN {Len(msgs) + 1} ELSE {})
                         /\ Ids(kind)' = Ids(kind) \cup (IF m.kind = kind THEN {m.id} ELSE {})
            /\ \A i \in 1..Len(msgs) : msgs'[i] = msgs[i]
        BY <1>11, <3>1, Kept
      <3>3. Of("size")' = Of("size") /\ Ids("fd")' = Ids("fd") \cup {id} /\ Ids("path")' = Ids("path")
        BY <3>1, <3>2
      <3>4. ran' \in BOOLEAN
        BY <1>11, <2>2
      <3>. QED  BY <2>2, <3>2, <3>3, <3>4
    <2>3. CASE /\ ~Reads /\ UNCHANGED <<ran, msgs, hooks>>
               /\ thread[t].fn = "open" => (thread[t].hooked => "open" \notin hooks)
      <3>1. \A kind : Of(kind)' = Of(kind) /\ Ids(kind)' = Ids(kind)
        BY <2>3 DEF Of, Ids
      <3>2. ran' \in BOOLEAN
        BY <1>11, <2>3
      <3>. QED  BY <1>11, <2>3, <3>1, <3>2
    <2>. QED  BY <1>10, <2>1, <2>2, <2>3
  <1>14. TypeOK'
    <2>1. statbuf' \in {NoBuf} \cup Watched("stat64")'
      BY <1>6, <1>9 DEF TypeOK
    <2>. QED  BY <1>1, <1>2, <1>8, <1>13, <2>1 DEF TypeOK, ThreadType
  <1>15. ControlInv'
    BY <1>2, <1>7 DEF ControlInv
  <1>16. CallInv'
    BY <1>1, <1>2, <1>4, <1>8 DEF CallInv
  <1>17. SoloInv'
    BY <1>1, <1>2, <1>4, <1>6 DEF SoloInv
  (* A size is read from the buffer of the call that has noted it. *)
  <1>18. ~ran /\ statbuf # NoBuf => /\ statbuf \in Watched("stat64")
                                    /\ Of("size") = {}
                                    /\ \E s \in Threads : /\ InCall(s) /\ thread[s].id = statbuf
                                                          /\ thread[s].fn = "stat64"
                                                          /\ thread[s].hooked
    BY DEF TypeOK, SizeInv
  <1>19. SizeInv'
    <2>1. CASE /\ Reads /\ ran'
               /\ Of("size")' = Of("size") \cup {Len(msgs) + 1}
               /\ msgs'[Len(msgs) + 1].id = statbuf
               /\ msgs'[Len(msgs) + 1].live <=> \E s \in Threads : InCall(s) /\ thread[s].id = statbuf
      <3>1. Of("size")' = {Len(msgs) + 1}
        BY <1>18, <2>1 DEF Reads
      <3>2. msgs'[Len(msgs) + 1].live /\ msgs'[Len(msgs) + 1].id \in Watched("stat64")
        BY <1>18, <2>1 DEF Reads
      <3>. QED  BY <1>6, <2>1, <3>1, <3>2 DEF SizeInv
    <2>2. CASE (Opens \/ ~Reads) /\ ran' = ran /\ Of("size")' = Of("size")
      <3>1. (ran' <=> Of("size")' # {}) /\ (\A i, j \in Of("size")' : i = j)
        BY <2>2 DEF SizeInv
      <3>2. (\A i \in Of("size") : msgs[i].live /\ msgs[i].id \in Watched("stat64"))'
        BY <1>6, <1>12, <1>13, <2>2 DEF SizeInv
      <3>3. (~ran /\ statbuf # NoBuf =>
               \E s \in Threads : /\ InCall(s) /\ thread[s].id = statbuf
                                  /\ thread[s].fn = "stat64" /\ thread[s].hooked)'
        <4>. SUFFICES ASSUME ~ran, statbuf # NoBuf
                      PROVE  \E s \in Threads : /\ InCall(s)' /\ thread'[s].id = statbuf
                                                /\ thread'[s].fn = "stat64" /\ thread'[s].hooked
          BY <1>9, <2>2
        <4>1. PICK s \in Threads : /\ InCall(s) /\ thread[s].id = statbuf
                                   /\ thread[s].fn = "stat64" /\ thread[s].hooked
          BY <1>18
        <4>2. s # t
          BY <2>2, <4>1 DEF Reads, Opens
        <4>. QED  BY <1>1, <1>4, <4>1, <4>2
      <3>. QED  BY <3>1, <3>2, <3>3 DEF SizeInv
    <2>. QED  BY <1>13, <2>1, <2>2
  (* With one thread, this call is the latest and all others have returned. *)
  <1>20. ASSUME OneThread
         PROVE  /\ id = Len(calls)
                /\ \A s \in Threads : InCall(s) => s = t
                /\ \A i \in 1..Len(calls) : i \in Returned \/ i = id
                /\ \A i \in 1..Len(calls) : i \in Returned' /\ i <= id
    <2>1. id = Len(calls)
      BY <1>4, <1>20 DEF SoloInv, id
    <2>2. \A s \in Threads : InCall(s) => s = t
      BY <1>4, <1>20, Alone
    <2>3. \A s \in Threads \ {t} : thread[s].id = 0
      BY <2>2 DEF CallInv
    <2>4. \A i \in 1..Len(calls) : i \in Returned \/ i = id
      BY <2>3 DEF Returned, id
    <2>. QED  BY <1>1, <1>3, <2>1, <2>2, <2>4
  <1>21. OpenInv'
    <2>. SUFFICES ASSUME OneThread
                  PROVE  "open" \in hooks' <=> "open" \in exports /\ Watched("open")' \cap Returned' = {}
      BY <1>2, <1>4, <1>6, <1>20 DEF OpenInv
    <2>1. /\ "open" \in hooks <=> "open" \in exports /\ Watched("open") \cap Returned = {}
          /\ thread[t].fn = "open" => (thread[t].hooked <=> "open" \in hooks)
      BY <1>4, <1>7 DEF OpenInv
    <2>2. CASE thread[t].fn = "open" /\ thread[t].path = "watched"
      <3>1. id \in Watched("open")' \cap Returned'
        BY <1>1, <1>6, <2>2
      <3>2. "open" \notin hooks'
        BY <1>13, <2>1, <2>2 DEF Reads, Opens
      <3>. QED  BY <3>1, <3>2
    <2>3. CASE ~(thread[t].fn = "open" /\ thread[t].path = "watched")
      <3>1. "open" \in hooks' <=> "open" \in hooks
        BY <1>13, <2>3 DEF Opens
      <3>2. Watched("open")' \cap Returned' = Watched("open") \cap Returned
        BY <1>1, <1>6, <2>3
      <3>. QED  BY <2>1, <3>1, <3>2
    <2>. QED  BY <2>2, <2>3
  <1>22. OpensReportedUntilWatched'
    <2>. SUFFICES ASSUME OneThread
                  PROVE  /\ Ids("path") = {i \in 1..Len(calls) : /\ calls[i].fn = "open" /\ "open" \in exports
                                                                 /\ \A j \in Watched("open") : i <= j}
                         /\ Ids("fd")' = Ids("path") \cap Returned'
      BY <1>2, <1>6, <1>13 DEF OpensReportedUntilWatched
    <2>1. /\ Ids("path") = {i \in 1..Len(calls) : /\ calls[i].fn = "open" /\ "open" \in exports
                                                  /\ \A j \in Watched("open") : i <= j}
          /\ Ids("fd") = Ids("path") \cap Returned
      BY DEF OpensReportedUntilWatched
    <2>2. /\ "open" \in hooks <=> "open" \in exports /\ Watched("open") \cap Returned = {}
          /\ thread[t].fn = "open" => (thread[t].hooked <=> "open" \in hooks)
      BY <1>4, <1>7 DEF OpenInv
    <2>3. CASE thread[t].fn = "open" /\ "open" \in hooks
      <3>1. \A j \in Watched("open") : j = id
        BY <1>20, <2>2, <2>3 DEF Watched
      <3>2. id \in Ids("path")
        BY <1>1, <1>3, <1>5, <2>1, <2>2, <2>3, <3>1
      <3>3. Ids("fd")' = Ids("fd") \cup {id}
        BY <1>13, <2>2, <2>3 DEF Reads
      <3>. QED  BY <1>1, <2>1, <3>2, <3>3
    <2>4. CASE ~(thread[t].fn = "open" /\ "open" \in hooks)
      <3>1. Ids("fd")' = Ids("fd")
        BY <1>13, <2>2, <2>4 DEF Opens
      <3>2. id \notin Ids("path")
        <4>1. CASE thread[t].fn # "open"
          BY <1>5, <2>1, <4>1
        <4>2. CASE "open" \notin exports
          BY <2>1, <4>2
        <4>3. CASE "open" \notin hooks /\ "open" \in exports
          <5>1. PICK j \in Watched("open") : j \in Returned
            BY <2>2, <4>3
          <5>2. j \in 1..Len(calls) /\ j # id
            BY <1>1, <5>1
          <5>3. ~(id <= j)
            BY <1>3, <1>20, <5>2
          <5>. QED  BY <2>1, <5>1, <5>3
        <4>. QED  BY <2>4, <4>1, <4>2, <4>3
      <3>. QED  BY <1>1, <2>1, <3>1, <3>2
    <2>. QED  BY <2>1, <2>3, <2>4
  <1>23. StatInv'
    <2>. SUFFICES ASSUME OneThread, "stat64" \in hooks
                  PROVE  /\ ran' <=> Done' # {}
                         /\ statbuf = NoBuf <=> Watched("stat64") = {}
                         /\ (\A i \in Of("size") : /\ msgs[i].id \in Done
                                                   /\ \A j \in Done : msgs[i].id <= j
                                                   /\ msgs[i].filled <=> msgs[i].id \in filled)'
      BY <1>6, <1>8, <1>9 DEF StatInv
    <2>1. /\ ran <=> Done # {}
          /\ statbuf = NoBuf <=> Watched("stat64") = {}
          /\ \A i \in Of("size") : /\ msgs[i].id \in Done
                                   /\ \A j \in Done : msgs[i].id <= j
                                   /\ msgs[i].filled <=> msgs[i].id \in filled
      BY DEF StatInv
    <2>2. thread[t].fn = "stat64" => thread[t].hooked
      BY <1>5
    <2>3. Done' = Done \cup (IF thread[t].fn = "stat64" /\ thread[t].path = "watched" THEN {id} ELSE {})
      BY <1>1, <1>6 DEF Done
    <2>4. Done \subseteq 1..Len(calls)
      BY <1>1 DEF Done
    <2>5. CASE Reads
      <3>1. statbuf = id /\ thread[t].path = "watched" /\ thread[t].fn = "stat64"
        BY <1>6, <1>18, <1>20, <2>5 DEF Reads, id
      <3>2. Done' = {id} /\ ran'
        BY <1>13, <2>1, <2>3, <2>5, <3>1 DEF Reads, Opens
      <3>3. /\ Of("size")' = {Len(msgs) + 1}
            /\ msgs'[Len(msgs) + 1].id = id
            /\ msgs'[Len(msgs) + 1].filled <=> id \in filled
        BY <1>13, <1>18, <2>5, <3>1 DEF Reads, Opens
      <3>. QED  BY <1>2, <1>3, <2>1, <3>2, <3>3
    <2>6. CASE ~Reads
      <3>1. ran' = ran /\ Of("size")' = Of("size")
        BY <1>13, <2>6
      <3>2. Done' # {} <=> Done # {}
        <4>1. CASE thread[t].fn = "stat64" /\ thread[t].path = "watched"
          BY <1>6, <2>1, <2>2, <2>3, <2>6, <4>1 DEF Reads
        <4>. QED  BY <2>3, <4>1
      <3>3. ASSUME NEW i \in Of("size")
            PROVE  /\ msgs[i].id \in Done' /\ msgs'[i] = msgs[i]
                   /\ \A j \in Done' : msgs[i].id <= j
                   /\ msgs[i].filled <=> msgs[i].id \in filled
        <4>1. msgs[i].id \in Done /\ msgs[i].id <= id
          BY <1>20, <2>1, <2>4
        <4>. QED  BY <1>12, <1>13, <2>1, <2>3, <4>1
      <3>. QED  BY <1>2, <2>1, <3>1, <3>2, <3>3
    <2>. QED  BY <2>5, <2>6
  <1>. QED  BY <1>14, <1>15, <1>16, <1>17, <1>19, <1>21, <1>22, <1>23

-----------------------------------------------------------------------------
(***************************************************************************)
(* The invariant holds in every reachable state, for any number of threads *)
(* and any programs: the callbacks' variables agree with the calls the     *)
(* program has made and those that have returned.                          *)
(***************************************************************************)
THEOREM Hooks ==
    Spec => []HooksInv
  <1>1. HooksInv /\ [Next]_vars => HooksInv'
    BY Controlling, Entering, Running, Leaving DEF Next, Run
  <1>. QED  BY Initially, <1>1, PTL DEF Spec

(***************************************************************************)
(* Types, and: statbuf is ptr(0) or the buffer of a watched call.          *)
(***************************************************************************)
THEOREM TypeCorrect ==
    Spec => []TypeOK
  <1>1. HooksInv => TypeOK
    BY DEF HooksInv
  <1>. QED  BY <1>1, Hooks, PTL

(***************************************************************************)
(* Whatever the threads do, onLeave of stat64 reads at most one size, from *)
(* the buffer of a watched call still in progress: the script's shared,    *)
(* never reset statbuf is not read once its buffer is gone.                *)
(***************************************************************************)
THEOREM LiveBuffer ==
    Spec => []SizeIsReadFromALiveBuffer
  <1>1. ASSUME HooksInv PROVE SizeIsReadFromALiveBuffer
    <2>1. Cardinality(Of("size")) <= 1
      <3>1. CASE Of("size") = {}
        BY <3>1, FS_EmptySet
      <3>2. CASE Of("size") # {}
        <4>1. PICK i \in Of("size") : Of("size") = {i}
          BY <1>1, <3>2 DEF HooksInv, SizeInv
        <4>. QED  BY <4>1, FS_Singleton
      <3>. QED  BY <3>1, <3>2
    <2>. QED  BY <1>1, <2>1 DEF HooksInv, SizeInv, SizeIsReadFromALiveBuffer
  <1>. QED  BY <1>1, Hooks, PTL

(***************************************************************************)
(* With one thread, the size reported is that of the first watched         *)
(* stat64(), as soon as it has returned and read after it filled its       *)
(* buffer, whichever calls come before it.                                 *)
(***************************************************************************)
THEOREM FirstSize ==
    Spec => []FirstWatchedSizeIsReported
  <1>1. ASSUME HooksInv PROVE FirstWatchedSizeIsReported
    <2>. SUFFICES ASSUME OneThread, "stat64" \in hooks
                  PROVE  /\ Ids("size") = IF Done = {} THEN {} ELSE {Min(Done)}
                         /\ \A i \in Of("size") : msgs[i].filled = (msgs[i].id \in filled)
      BY DEF FirstWatchedSizeIsReported, Done
    <2>1. /\ ran <=> Done # {}
          /\ \A i \in Of("size") : /\ msgs[i].id \in Done
                                   /\ \A j \in Done : msgs[i].id <= j
                                   /\ msgs[i].filled <=> msgs[i].id \in filled
          /\ ran <=> Of("size") # {}
          /\ \A i, j \in Of("size") : i = j
      BY <1>1 DEF HooksInv, StatInv, SizeInv
    <2>2. ASSUME NEW i \in Of("size")
          PROVE  msgs[i].filled = (msgs[i].id \in filled)
      <3>1. msgs[i] \in Message
        BY <1>1 DEF HooksInv, TypeOK, Of
      <3>2. msgs[i].filled \in BOOLEAN
        BY <3>1, Zenon DEF Message
      <3>. QED  BY <2>1, <3>2
    <2>3. Done = {} => Ids("size") = {}
      BY <2>1 DEF Ids
    <2>4. ASSUME Done # {} PROVE Ids("size") = {Min(Done)}
      <3>1. PICK i \in Of("size") : Of("size") = {i}
        BY <2>1, <2>4
      <3>2. Ids("size") = {msgs[i].id}
        BY <3>1 DEF Ids
      <3>3. Done \subseteq Nat
        BY <1>1 DEF HooksInv, TypeOK, Done, Watched
      <3>4. Min(Done) = msgs[i].id
        BY <2>1, <3>3, Minimum
      <3>. QED  BY <3>2, <3>4
    <2>. QED  BY <2>2, <2>3, <2>4
  <1>. QED  BY <1>1, Hooks, PTL

(***************************************************************************)
(* With one thread, if there is an open() to hook, each call up to the     *)
(* first watched one is reported, entering and returning, and none after   *)
(* it: the listener detaches itself in time and not earlier.               *)
(***************************************************************************)
THEOREM OpensReported ==
    Spec => []OpensReportedUntilWatched
  <1>1. HooksInv => OpensReportedUntilWatched
    BY DEF HooksInv
  <1>. QED  BY <1>1, Hooks, PTL
=============================================================================
