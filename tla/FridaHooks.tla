------------------------------ MODULE FridaHooks ------------------------------
(***************************************************************************)
(* The Frida example: src/frida_control_script.py starts src/c/local.c     *)
(* suspended, loads src/frida_instrumentation_script.js into it (as the    *)
(* frida command does with src/frida.js) and resumes it.  The script hooks *)
(* open() and stat64(): callbacks run before and after each call, one at a *)
(* time, and share the script's variables statbuf, ran and openListener.   *)
(*                                                                         *)
(* Calls are numbered as they are entered; the number of a stat64() also   *)
(* stands for the buffer it is given.                                      *)
(***************************************************************************)
EXTENDS Integers, Sequences, FiniteSets, FiniteSetsExt

CONSTANTS
    Threads,   \* threads of the program
    Programs   \* per thread, the calls it makes: functions from Threads to Seq(Call)

Call  == [fn : {"open", "stat64"}, path : {"watched", "other"}]   \* test_file.txt or not
NoBuf == 0     \* ptr(0)

(* The calls of local.c that the hooks see: stat and open of test_file.txt *)
(* and, once it is renamed, a stat of each file of the directory.          *)
Local == <<[fn |-> "stat64", path |-> "watched"], [fn |-> "open", path |-> "watched"],
           [fn |-> "stat64", path |-> "other"], [fn |-> "stat64", path |-> "other"]>>

ASSUME FridaHooksAssumption == Programs \subseteq [Threads -> Seq(Call)]

VARIABLES
    control,   \* control point of frida_control_script.py
    child,     \* the program's process
    exports,   \* what the script finds to hook on this platform
    hooks,     \* the functions hooked
    statbuf,   \* variables of the script: the buffer it has noted,
    ran,       \*   and whether onLeave of stat64 has run to its end
    program,   \* per thread, the calls it has still to make
    thread,    \* per thread, its call in progress
    calls,     \* history: the calls entered so far, and by which thread
    filled,    \* buffers that stat64() has filled
    msgs       \* what the control script has received

vars == <<control, child, exports, hooks, statbuf, ran, program, thread, calls, filled, msgs>>

Idle == [pc |-> "idle", fn |-> "open", path |-> "other", id |-> 0, hooked |-> FALSE]

(* The messages kept: an open() seen entering, an open() seen returning,   *)
(* and a size read from a buffer, with how the buffer was then.  The other *)
(* messages (the path of a watched stat64(), its return value, that the    *)
(* hook is removed) are left out: no property is about them.               *)
Message == [kind : {"path", "fd", "size"}, id : Nat, live : BOOLEAN, filled : BOOLEAN]

(* The calls of fn for test_file.txt.                                     *)
Watched(fn) == {i \in 1..Len(calls) : calls[i].fn = fn /\ calls[i].path = "watched"}

(* Types; statbuf is ptr(0) or the buffer of a call for the watched file.  *)
TypeOK ==
    /\ control \in {"spawn", "attach", "load", "resume", "wait", "printed"}
    /\ child \in {"none", "suspended", "running", "exited"}
    /\ exports \subseteq {"open", "stat64"} /\ hooks \subseteq exports
    /\ statbuf \in {NoBuf} \cup Watched("stat64") /\ ran \in BOOLEAN
    /\ program \in [Threads -> Seq(Call)]
    /\ thread \in [Threads -> [pc : {"idle", "entered", "left"}, fn : {"open", "stat64"},
                               path : {"watched", "other"}, id : Nat, hooked : BOOLEAN]]
    /\ calls \in Seq([fn : {"open", "stat64"}, path : {"watched", "other"}, by : Threads])
    /\ filled \subseteq 1..Len(calls)
    /\ msgs \in Seq(Message)

(* A C library may lack stat64; on an unsupported platform the script      *)
(* hooks nothing.                                                          *)
Platforms == {{"open", "stat64"}, {"open"}, {}}

Init ==
    /\ exports \in Platforms
    /\ control = "spawn" /\ child = "none" /\ hooks = {}
    /\ statbuf = NoBuf /\ ran = FALSE
    /\ program \in Programs
    /\ thread = [t \in Threads |-> Idle]
    /\ calls = <<>> /\ filled = {} /\ msgs = <<>>

scriptVars  == <<hooks, statbuf, ran, msgs>>
programVars == <<exports, program, thread, calls, filled>>

-----------------------------------------------------------------------------
(* frida_control_script.py. *)

Step(from, to) == control = from /\ control' = to

Spawn ==
    /\ Step("spawn", "attach") /\ child' = "suspended"
    /\ UNCHANGED <<scriptVars, programVars>>

Attach ==
    /\ Step("attach", "load")
    /\ UNCHANGED <<child, scriptVars, programVars>>

(* script.load(): the script hooks open, then stat64.  It throws before    *)
(* the first on an unsupported platform, and before the second if there is *)
(* no stat64: an error message, which has no payload and is not kept.      *)
LoadScript ==
    /\ Step("load", "resume")
    /\ hooks' = exports
    /\ UNCHANGED <<child, statbuf, ran, msgs, programVars>>

(* Mutant of Resume: the program is never resumed.                         *)
ResumeForgotten ==
    /\ Step("resume", "wait")
    /\ UNCHANGED <<child, scriptVars, programVars>>

Resume ==
    /\ Step("resume", "wait") /\ child' = "running"
    /\ UNCHANGED <<scriptVars, programVars>>

(* while not session.is_detached, then the messages are printed.           *)
PrintMessages ==
    /\ Step("wait", "printed") /\ child = "exited"
    /\ UNCHANGED <<child, scriptVars, programVars>>

-----------------------------------------------------------------------------
(* The program, and the callbacks of the script around its calls. *)

Keep(kind, id) ==
    msgs' = Append(msgs, [kind |-> kind, id |-> id,
                          live |-> \E t \in Threads : thread[t].pc # "idle" /\ thread[t].id = id,
                          filled |-> id \in filled])

(* Mutant of OnEnterStat: the buffer is noted whatever the path.           *)
OnEnterStatAny(path) ==
    statbuf' = Len(calls) + 1 /\ UNCHANGED <<ran, msgs>>

(* onEnter of stat64 notes the buffer of the watched file's call, onEnter  *)
(* of open reports the path; this.removeHook is whether it is watched.     *)
OnEnterStat(path) ==
    /\ statbuf' = IF path = "watched" THEN Len(calls) + 1 ELSE statbuf
    /\ UNCHANGED <<ran, msgs>>

OnEnterOpen == Keep("path", Len(calls) + 1) /\ UNCHANGED <<statbuf, ran>>

Enter(t) ==
    /\ child = "running" /\ thread[t].pc = "idle" /\ program[t] # <<>>
    /\ LET c == Head(program[t]) IN
         /\ thread' = [thread EXCEPT ![t] = [pc |-> "entered", fn |-> c.fn, path |-> c.path,
                                             id |-> Len(calls) + 1, hooked |-> c.fn \in hooks]]
         /\ IF c.fn \notin hooks THEN UNCHANGED <<statbuf, ran, msgs>>
            ELSE IF c.fn = "open" THEN OnEnterOpen ELSE OnEnterStat(c.path)
    /\ program' = [program EXCEPT ![t] = Tail(@)]
    /\ calls' = Append(calls, [fn |-> Head(program[t]).fn, path |-> Head(program[t]).path, by |-> t])
    /\ UNCHANGED <<control, child, exports, hooks, filled>>

(* The function itself: a stat64() that succeeds fills its buffer.         *)
Body(t) ==
    /\ thread[t].pc = "entered"
    /\ thread' = [thread EXCEPT ![t].pc = "left"]
    /\ \/ thread[t].fn = "stat64" /\ filled' = filled \cup {thread[t].id}
       \/ UNCHANGED filled
    /\ UNCHANGED <<control, child, exports, scriptVars, program, calls>>

(* Mutant of OnLeaveStat: ran is not set.                                  *)
OnLeaveStatAgain ==
    /\ IF statbuf # NoBuf THEN Keep("size", statbuf) ELSE UNCHANGED msgs
    /\ UNCHANGED <<hooks, statbuf, ran>>

(* Mutant of OnLeaveStat: ran is set although the read has thrown.         *)
OnLeaveStatGivesUp ==
    /\ IF ~ran /\ statbuf # NoBuf THEN Keep("size", statbuf) ELSE UNCHANGED msgs
    /\ ran' = TRUE
    /\ UNCHANGED <<hooks, statbuf>>

(* onLeave of stat64, whatever the path: unless it has run before, it      *)
(* reads the size from the buffer noted.  Without one the read throws: an  *)
(* error message, and ran is not set.                                      *)
OnLeaveStat ==
    /\ \/ ran /\ UNCHANGED <<ran, msgs>>
       \/ ~ran /\ statbuf # NoBuf /\ Keep("size", statbuf) /\ ran' = TRUE
       \/ ~ran /\ statbuf = NoBuf /\ UNCHANGED <<ran, msgs>>
    /\ UNCHANGED <<hooks, statbuf>>

(* Mutant of OnLeaveOpen: the hook is not removed.                         *)
OnLeaveOpenStays(t) ==
    /\ Keep("fd", thread[t].id)
    /\ UNCHANGED <<hooks, statbuf, ran>>

(* onLeave of open reports the descriptor and, for the watched file,       *)
(* detaches the listener.                                                  *)
OnLeaveOpen(t) ==
    /\ Keep("fd", thread[t].id)
    /\ hooks' = IF thread[t].path = "watched" THEN hooks \ {"open"} ELSE hooks
    /\ UNCHANGED <<statbuf, ran>>

(* A callback that has been detached meanwhile may run or not.             *)
Leave(t) ==
    /\ thread[t].pc = "left"
    /\ thread' = [thread EXCEPT ![t] = Idle]
    /\ \/ thread[t].hooked /\ thread[t].fn = "stat64" /\ OnLeaveStat
       \/ thread[t].hooked /\ thread[t].fn = "open" /\ OnLeaveOpen(t)
       \/ (thread[t].hooked => thread[t].fn \notin hooks) /\ UNCHANGED scriptVars
    /\ UNCHANGED <<control, child, exports, program, calls, filled>>

(* The program ends, and Frida's session with it.                          *)
Exit ==
    /\ child = "running"
    /\ \A t \in Threads : thread[t].pc = "idle" /\ program[t] = <<>>
    /\ child' = "exited"
    /\ UNCHANGED <<control, scriptVars, programVars>>

Control == Spawn \/ Attach \/ LoadScript \/ Resume \/ PrintMessages
Run(t)  == Enter(t) \/ Body(t) \/ Leave(t)

Next == Control \/ (\E t \in Threads : Run(t)) \/ Exit

(* Fairness: the script and the threads of the program are scheduled.      *)
Spec == Init /\ [][Next]_vars

FairSpec == Spec /\ WF_vars(Control) /\ WF_vars(Exit) /\ \A t \in Threads : WF_vars(Run(t))

-----------------------------------------------------------------------------
Of(kind)    == {i \in 1..Len(msgs) : msgs[i].kind = kind}
Ids(kind)   == {msgs[i].id : i \in Of(kind)}
Returned    == {i \in 1..Len(calls) : \A t \in Threads : thread[t].id # i}
OneThread   == \A i, j \in 1..Len(calls) : calls[i].by = calls[j].by

(***************************************************************************)
(* Whatever the threads and the order of their calls, onLeave of stat64    *)
(* reports a size at most once, and reads it from the buffer of a watched  *)
(* call that has not returned to the program: although statbuf is shared   *)
(* and never reset, it is not used once its buffer is gone.                *)
(***************************************************************************)
SizeIsReadFromALiveBuffer ==
    /\ Cardinality(Of("size")) <= 1
    /\ \A i \in Of("size") : msgs[i].live /\ msgs[i].id \in Watched("stat64")

(***************************************************************************)
(* With one thread, whichever calls come first: as soon as a stat64() of   *)
(* the watched file has returned, the size of the first of them has been   *)
(* reported, read after the call has filled its buffer.  The calls before  *)
(* it, for which onLeave throws, do not use up the report.                 *)
(***************************************************************************)
FirstWatchedSizeIsReported ==
    OneThread /\ "stat64" \in hooks =>
        LET done == Watched("stat64") \cap Returned IN
          /\ Ids("size") = IF done = {} THEN {} ELSE {Min(done)}
          /\ \A i \in Of("size") : msgs[i].filled = (msgs[i].id \in filled)

(***************************************************************************)
(* With one thread, the script reports each open() up to and including the *)
(* first of the watched file, when it is entered and when it returns, and  *)
(* none after it: the listener detaches itself in time and not earlier.    *)
(* Where there is nothing to hook it reports none.                         *)
(***************************************************************************)
OpensReportedUntilWatched ==
    OneThread =>
        /\ Ids("path") = {i \in 1..Len(calls) : /\ calls[i].fn = "open" /\ "open" \in exports
                                                /\ \A j \in Watched("open") : i <= j}
        /\ Ids("fd") = Ids("path") \cap Returned

(***************************************************************************)
(* The control script resumes the program it has spawned, the program runs *)
(* to its end under the hooks, and the script leaves its loop and prints.  *)
(***************************************************************************)
MessagesArePrinted == <>(control = "printed")

=============================================================================
