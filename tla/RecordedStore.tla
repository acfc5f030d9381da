---------------------------- MODULE RecordedStore ----------------------------
(***************************************************************************)
(* recorded.jsonl (main/recorded-store.ts): the app and a CLI proxy append *)
(* to one file.  Each process keeps a count of its own, so that it need    *)
(* not read the file at every append, and trims the file when that count   *)
(* exceeds twice the cap.  The calls are synchronous, hence atomic within  *)
(* their process, but the file operations of the other fall in between.    *)
(***************************************************************************)
EXTENDS Integers

CONSTANTS
  RECORDED_CAP,  \* lines a trim keeps
  Found,         \* lines in the file when the first process comes up
  MaxLines,      \* bound: no line is appended past it
  Uncounted      \* a process that has not appended since it came up

Processes == {"app", "cli"}

ASSUME StoreAssumption ==
  RECORDED_CAP \in Nat \ {0} /\ Found \in Nat /\ MaxLines \in Nat /\ Uncounted \notin Nat

VARIABLES
  recorded,   \* lines in the file
  counts,     \* [Processes -> Nat or Uncounted] recordedCounts
  at,         \* [Processes -> ...] the step of appendRecorded a process is at
  count,      \* [Processes -> Nat] the local variable
  kept,       \* [Processes -> Nat] lines a trim has read
  share,      \* history: counts, and its last value for a process that went away
  mishap      \* history: a trim failed, or a process died in the middle of a call

storeVars == <<recorded, counts, at, count, kept, share, mishap>>

StoreInit ==
  /\ recorded = Found
  /\ counts = [p \in Processes |-> Uncounted]
  /\ at = [p \in Processes |-> "idle"]
  /\ count = [p \in Processes |-> 0]
  /\ kept = [p \in Processes |-> 0]
  /\ share = [p \in Processes |-> 0]
  /\ mishap = FALSE

-----------------------------------------------------------------------------
\* The cached count, or the lines there are.
Count(p) ==
  /\ at[p] = "idle"
  /\ count' = [count EXCEPT ![p] = IF counts[p] = Uncounted THEN recorded ELSE counts[p]]
  /\ at' = [at EXCEPT ![p] = "append"]
  /\ UNCHANGED <<recorded, counts, kept, share, mishap>>

\* Variant: the count that is cached is the one before the append.
AddLineForgets(p) ==
  /\ at[p] = "append" /\ recorded < MaxLines
  /\ recorded' = recorded + 1
  /\ count' = [count EXCEPT ![p] = @ + 1]
  /\ share' = [share EXCEPT ![p] = count[p] + 1]
  /\ IF count[p] + 1 > 2 * RECORDED_CAP
       THEN at' = [at EXCEPT ![p] = "trim"] /\ UNCHANGED counts
       ELSE at' = [at EXCEPT ![p] = "idle"] /\ counts' = [counts EXCEPT ![p] = count[p]]
  /\ UNCHANGED <<kept, mishap>>

\* The line is appended; the new count is cached unless it exceeds twice the cap.
AddLine(p) ==
  /\ at[p] = "append" /\ recorded < MaxLines
  /\ recorded' = recorded + 1
  /\ count' = [count EXCEPT ![p] = @ + 1]
  /\ share' = [share EXCEPT ![p] = count[p] + 1]
  /\ IF count[p] + 1 > 2 * RECORDED_CAP
       THEN at' = [at EXCEPT ![p] = "trim"] /\ UNCHANGED counts
       ELSE at' = [at EXCEPT ![p] = "idle"] /\ counts' = [counts EXCEPT ![p] = count[p] + 1]
  /\ UNCHANGED <<kept, mishap>>

\* An append that throws is swallowed, and the cached count stays what it was.
AppendFails(p) ==
  /\ at[p] = "append"
  /\ at' = [at EXCEPT ![p] = "idle"]
  /\ UNCHANGED <<recorded, counts, count, kept, share, mishap>>

\* The trim reads the newest lines...
ReadNewest(p) ==
  /\ at[p] = "trim"
  /\ kept' = [kept EXCEPT ![p] = IF recorded < RECORDED_CAP THEN recorded ELSE RECORDED_CAP]
  /\ at' = [at EXCEPT ![p] = "write"]
  /\ UNCHANGED <<recorded, counts, count, share, mishap>>

\* ... and writes them back: what the other process appended meanwhile is lost.
WriteBack(p) ==
  /\ at[p] = "write"
  /\ recorded' = kept[p]
  /\ count' = [count EXCEPT ![p] = kept[p]]
  /\ counts' = [counts EXCEPT ![p] = kept[p]]
  /\ share' = [share EXCEPT ![p] = kept[p]]
  /\ at' = [at EXCEPT ![p] = "idle"]
  /\ UNCHANGED <<kept, mishap>>

TrimFails(p) ==
  /\ at[p] \in {"trim", "write"}
  /\ at' = [at EXCEPT ![p] = "idle"]
  /\ mishap' = TRUE
  /\ UNCHANGED <<recorded, counts, count, kept, share>>

\* A process ends, or dies in the middle of a call, and comes up again.
Restart(p) ==
  /\ at[p] # "idle" \/ counts[p] # Uncounted
  /\ counts' = [counts EXCEPT ![p] = Uncounted]
  /\ at' = [at EXCEPT ![p] = "idle"]
  /\ mishap' = (mishap \/ at[p] \in {"trim", "write"})
  /\ UNCHANGED <<recorded, count, kept, share>>

\* IPC.recordedClear: the file goes, and the counts stay.
RecordedClear ==
  /\ recorded > 0
  /\ recorded' = 0
  /\ UNCHANGED <<counts, at, count, kept, share, mishap>>

StoreStep(p) ==
  \/ Count(p) \/ AddLine(p) \/ AppendFails(p)
  \/ ReadNewest(p) \/ WriteBack(p) \/ TrimFails(p) \/ Restart(p)

StoreNext == (\E p \in Processes : StoreStep(p)) \/ RecordedClear

StoreSpec == StoreInit /\ [][StoreNext]_storeVars

-----------------------------------------------------------------------------
\* However the two processes interleave, come and go, and count lines that the
\* other has trimmed or History cleared, the file stays within what was found
\* plus twice the cap for each of them.
StoreStaysBounded ==
  ~mishap /\ (\A p \in Processes : at[p] \in {"idle", "append"})
    => recorded <= Found + 4 * RECORDED_CAP
=============================================================================
