----------------------------- MODULE Submission -----------------------------
(***************************************************************************)
(* runPython: a child with a pipe for its stdout and one for its stderr.   *)
(* The parent reads the first to its end, then the second, then waits for  *)
(* the child.  Output is counted in chunks; a pipe holds so many of them,  *)
(* and a write to a full one blocks.                                       *)
(***************************************************************************)
EXTENDS Integers, Sequences

CONSTANTS
  Capacity,  \* chunks a pipe holds
  Running    \* the status of a child that has not ended

ASSUME CapacityAssumption == Capacity \in Nat \ {0}

Codes == -1 .. 255  \* an exit code, or -1 after a signal

ASSUME RunningAssumption == Running \notin Codes

Streams == {"out", "err"}

VARIABLES
  child,   \* "none", "forked", "running" or "ended"
  script,  \* the streams of the chunks it has yet to write, in order
  pipe,    \* chunks in each pipe
  text,    \* chunks the parent has of each stream
  parent,  \* "idle", "out" or "err" (the stream it slurps), "wait", "done"
  status   \* of the child: one of Codes, or Running

submissionVars == <<child, script, pipe, text, parent, status>>

Empty == [s \in Streams |-> 0]

SubmissionInit ==
  /\ child = "none" /\ script = << >>
  /\ pipe = Empty /\ text = Empty
  /\ parent = "idle" /\ status = Running

(* A slip: the parent waits for the child before it reads.                 *)
SpawnAndWait ==
  /\ parent = "idle"
  /\ child' = "forked" /\ parent' = "wait"
  /\ UNCHANGED <<script, pipe, text, status>>

Spawn ==
  /\ parent = "idle"
  /\ child' = "forked" /\ parent' = "out"
  /\ UNCHANGED <<script, pipe, text, status>>

(* pipe or fork failed.                                                    *)
SpawnFails ==
  /\ parent = "idle"
  /\ parent' = "done"
  /\ UNCHANGED <<child, script, pipe, text, status>>

(* exec: from here on the child is a program that writes what it will.     *)
ChildStarts(toWrite) ==
  /\ child = "forked"
  /\ child' = "running" /\ script' = toWrite
  /\ UNCHANGED <<pipe, text, parent, status>>

ChildWrites ==
  /\ child = "running" /\ script # << >>
  /\ pipe[Head(script)] < Capacity
  /\ pipe' = [pipe EXCEPT ![Head(script)] = @ + 1]
  /\ script' = Tail(script)
  /\ UNCHANGED <<child, text, parent, status>>

ChildEnds(code) ==
  /\ child = "running" /\ script = << >>
  /\ child' = "ended" /\ status' = code
  /\ UNCHANGED <<script, pipe, text, parent>>

ChildKilled ==
  /\ child \in {"forked", "running"}
  /\ child' = "ended" /\ status' = -1
  /\ UNCHANGED <<script, pipe, text, parent>>

(* slurpFd: a read takes some of what there is.                            *)
Slurp(s) ==
  /\ parent = s
  /\ \E n \in 1 .. pipe[s] :
       /\ pipe' = [pipe EXCEPT ![s] = @ - n]
       /\ text' = [text EXCEPT ![s] = @ + n]
  /\ UNCHANGED <<child, script, parent, status>>

(* A slip: an empty pipe is taken for the end of the stream.               *)
StopWhenEmpty(s) ==
  /\ parent = s /\ pipe[s] = 0
  /\ parent' = IF s = "out" THEN "err" ELSE "wait"
  /\ UNCHANGED <<child, script, pipe, text, status>>

(* A stream is at its end when nothing is left of it and the child is gone. *)
EndOfStream(s) ==
  /\ parent = s /\ pipe[s] = 0 /\ child = "ended"
  /\ parent' = IF s = "out" THEN "err" ELSE "wait"
  /\ UNCHANGED <<child, script, pipe, text, status>>

Wait ==
  /\ parent = "wait" /\ child = "ended"
  /\ parent' = "done"
  /\ UNCHANGED <<child, script, pipe, text, status>>

ParentReads == Wait \/ \E s \in Streams : Slurp(s) \/ EndOfStream(s)

SubmissionNext ==
  \/ Spawn \/ SpawnFails
  \/ \E toWrite \in Seq(Streams) : ChildStarts(toWrite)
  \/ ChildWrites \/ ChildKilled
  \/ \E code \in 0 .. 255 : ChildEnds(code)
  \/ ParentReads

SubmissionSpec == SubmissionInit /\ [][SubmissionNext]_submissionVars
-----------------------------------------------------------------------------
SubmissionTypeOK ==
  /\ child \in {"none", "forked", "running", "ended"}
  /\ script \in Seq(Streams)
  /\ pipe \in [Streams -> 0 .. Capacity]
  /\ text \in [Streams -> Nat]
  /\ parent \in {"idle", "out", "err", "wait", "done"}
  /\ status \in Codes \cup {Running}

(* runPython is a capture of its child: what it returns is all the child   *)
(* wrote to each stream, and how it ended; and it returns only then.       *)
Wrote == [s \in Streams |-> text[s] + pipe[s]]

Returned == IF parent = "done" /\ child # "none"
            THEN {[text |-> text, code |-> status]} ELSE {}

Cap == INSTANCE Capture WITH
         wrote <- Wrote, ended <- status, captured <- Returned

CapturesAll == Cap!CaptureSpec
=============================================================================
