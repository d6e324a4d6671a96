----------------------------- MODULE Truncate -----------------------------
(* truncate of ind_trnc.c: the host's files can only be copied, so the     *)
(* first length bytes go to a temporary file that then takes the name of   *)
(* the original.  Every call to the host may fail and several threads may  *)
(* be in truncate at once.  The host's directory and open files are        *)
(* modelled from the calls ind_io.c, ind_stat.c and ind_renm.c pass on.    *)
EXTENDS Integers, Sequences, SequencesExt

CONSTANTS
  Threads,      \* the callers
  Path,         \* the file each of them truncates; the names tmpnam makes are
                \* 1, 2, ..., and the callers' files have no such number
  Lengths,      \* the lengths they may ask for
  Bytes,        \* the content of the files at the start, by name
  LBUFSIZ,      \* the bytes a read may return
  MaxFaults     \* how many calls to the host may fail

VARIABLES
  dir,          \* which inode each name stands for
  data,         \* the content of each inode, by number
  frame,        \* the activation of truncate in each thread
  faults        \* how many calls have failed

vars == <<dir, data, frame, faults>>

Frame == [pc |-> "tmpnam", length |-> 0, tmp |-> 0, inf |-> 0, pos |-> 0,
          of |-> 0, put |-> 0, count |-> 0, buf |-> <<>>, ret |-> 0, asked |-> 0]

\* Open files keep their inode when the name goes away.
Set(f, k, v) == [x \in DOMAIN f \cup {k} |-> IF x = k THEN v ELSE f[x]]
Without(f, k) == [x \in DOMAIN f \ {k} |-> f[x]]
Exists(name) == name \in DOMAIN dir
Content(name) == data[dir[name]]
\* Bytes written at an offset; a file that was emptied meanwhile gets a hole.
Overlay(old, at, new) ==
  [k \in 1..Max({Len(old), at + Len(new)}) |->
     CASE k \in at+1..at+Len(new) -> new[k - at]
       [] k \notin at+1..at+Len(new) /\ k <= Len(old) -> old[k]
       [] OTHER -> 0]

Init ==
  /\ dir = [name \in DOMAIN Bytes |-> name]
  /\ data = Bytes
  /\ frame \in [Threads -> {[Frame EXCEPT !.length = l, !.asked = l] : l \in Lengths}]
  /\ faults = 0

\* One step of thread t: it is at pc and sets the members of its activation.
At(t, pc) == frame[t].pc = pc
Update(f, g) == [x \in DOMAIN f |-> IF x \in DOMAIN g THEN g[x] ELSE f[x]]
Go(t, g) == frame' = [frame EXCEPT ![t] = Update(frame[t], g)]
Return(t, value) == Go(t, [pc |-> "done", ret |-> value])
Fault == faults < MaxFaults /\ faults' = faults + 1
NoFault == UNCHANGED faults
NoChange == UNCHANGED <<dir, data>>

NewInode == 1 + Max(DOMAIN data)

\* creat empties the inode of the name or makes a new one.
Creat(name) ==
  IF Exists(name)
  THEN data' = [data EXCEPT ![dir[name]] = <<>>] /\ UNCHANGED dir
  ELSE data' = Set(data, NewInode, <<>>) /\ dir' = Set(dir, name, NewInode)
Created(name) == IF Exists(name) THEN dir[name] ELSE NewInode
Rename(old, new) == dir' = Without(Set(dir, new, dir[old]), old) /\ UNCHANGED data

\* tmpnam tries the same numbers in the same order in every thread until stat
\* says -1, for whatever reason.
Tmpnam(t) ==
  /\ At(t, "tmpnam")
  /\ LET name == frame[t].tmp + 1 IN
       /\ \/ ~Exists(name) /\ NoFault /\ Go(t, [tmp |-> name, pc |-> "open"])
          \/ Exists(name)  /\ NoFault /\ Go(t, [tmp |-> name])
          \/ Exists(name)  /\ Fault   /\ Go(t, [tmp |-> name, pc |-> "open"])
  /\ NoChange

Empty(t) ==
  /\ At(t, "open") /\ frame[t].length = 0
  /\ \/ NoFault /\ Creat(Path[t]) /\ Return(t, 0)
     \/ Fault /\ NoChange /\ Return(t, -1)

\* The original, or the temporary file in the copy back, is opened for reading.
Open(t, pc, name, next) ==
  /\ At(t, pc) /\ NoChange
  /\ \/ NoFault /\ Exists(name) /\ Go(t, [inf |-> dir[name], pos |-> 0, pc |-> next])
     \/ NoFault /\ ~Exists(name) /\ Return(t, -1)
     \/ Fault /\ Return(t, -1)
OpenForWriting(t, pc, name, next) ==
  /\ At(t, pc)
  /\ \/ NoFault /\ Creat(name) /\ Go(t, [of |-> Created(name), put |-> 0, pc |-> next])
     \/ Fault /\ NoChange /\ Return(t, -1)

OpenPath(t) == frame[t].length > 0 /\ Open(t, "open", Path[t], "creat")
CreatTmp(t) == OpenForWriting(t, "creat", frame[t].tmp, "read")
OpenTmp(t) == Open(t, "reopen", frame[t].tmp, "recreat")
CreatPath(t) == OpenForWriting(t, "recreat", Path[t], "readback")

\* read into the buffer; end of file and failure both end the loop.
Read(t, pc, write, end, most) ==
  /\ At(t, pc) /\ NoChange
  /\ LET f == frame[t]
         n == Min({LBUFSIZ, Len(data[f.inf]) - f.pos})
     IN \/ /\ n > 0 /\ NoFault
           /\ Go(t, [buf |-> SubSeq(data[f.inf], f.pos + 1, f.pos + Min({n, most})),
                     pos |-> f.pos + n, count |-> Min({n, most}), pc |-> write])
        \/ n <= 0 /\ NoFault /\ Go(t, [count |-> 0, pc |-> end])
        \/ Fault /\ Go(t, [count |-> -1, pc |-> end])
\* A mutant of Write: the result of write is not looked at.
WriteUnchecked(t, pc, read, end, left) ==
  /\ At(t, pc) /\ UNCHANGED dir
  /\ LET f == frame[t]
     IN \E k \in 0..f.count :
          /\ data' = [data EXCEPT ![f.of] = Overlay(@, f.put, SubSeq(f.buf, 1, k))]
          /\ k < f.count => Fault
          /\ k = f.count => NoFault
          /\ Go(t, [put |-> f.put + k, length |-> left, pc |-> read])

\* write may take part of the buffer only: then the loop ends with count -1.
Write(t, pc, read, end, left) ==
  /\ At(t, pc) /\ UNCHANGED dir
  /\ LET f == frame[t]
         Put(k) == data' = [data EXCEPT ![f.of] = Overlay(@, f.put, SubSeq(f.buf, 1, k))]
     IN \/ /\ NoFault /\ Put(f.count)
           /\ Go(t, [put |-> f.put + f.count, length |-> left, pc |-> read])
        \/ Fault /\ (\E k \in 0..f.count-1 : Put(k)) /\ Go(t, [count |-> -1, pc |-> end])
ReadOut(t) == frame[t].length > 0 /\ Read(t, "read", "write", "copied", frame[t].length)
OutFull(t) == At(t, "read") /\ frame[t].length = 0 /\ Go(t, [pc |-> "copied"]) /\ NoFault /\ NoChange
WriteOut(t) == Write(t, "write", "read", "copied", frame[t].length - frame[t].count)
ReadBack(t) == Read(t, "readback", "writeback", "unlinktmp", LBUFSIZ)
WriteBack(t) == Write(t, "writeback", "readback", "unlinktmp", frame[t].length)

\* A mutant of Complete: any copy that met no failure.
CompleteOrNot(t) == frame[t].count >= 0

\* Only a complete copy may take the place of the original.
Complete(t) == frame[t].length = 0 /\ frame[t].count >= 0
Copied(t) ==
  /\ At(t, "copied") /\ NoFault /\ NoChange
  /\ Go(t, [pc |-> IF Complete(t) THEN "rename" ELSE "unlinktmp"])

RenameTmp(t, pc, next) ==
  /\ At(t, pc)
  /\ \/ NoFault /\ Exists(frame[t].tmp) /\ Rename(frame[t].tmp, Path[t]) /\ Return(t, 0)
     \/ NoFault /\ ~Exists(frame[t].tmp) /\ NoChange /\ Go(t, [pc |-> next])
     \/ Fault /\ NoChange /\ Go(t, [pc |-> next])
FirstRename(t) == RenameTmp(t, "rename", "unlink")
SecondRename(t) == RenameTmp(t, "rename2", "reopen")

\* The result of unlink is not looked at.
Unlink(name) ==
  /\ UNCHANGED data
  /\ \/ NoFault /\ dir' = Without(dir, name)
     \/ Fault /\ UNCHANGED dir
UnlinkPath(t) == At(t, "unlink") /\ Unlink(Path[t]) /\ Go(t, [pc |-> "rename2"])
UnlinkTmp(t) == At(t, "unlinktmp") /\ Unlink(frame[t].tmp) /\ Return(t, frame[t].count)

Step(t) ==
  \/ Tmpnam(t) \/ Empty(t) \/ OpenPath(t) \/ CreatTmp(t) \/ ReadOut(t) \/ OutFull(t)
  \/ WriteOut(t) \/ Copied(t) \/ FirstRename(t) \/ UnlinkPath(t) \/ SecondRename(t)
  \/ OpenTmp(t) \/ CreatPath(t) \/ ReadBack(t) \/ WriteBack(t) \/ UnlinkTmp(t)

Next == \E t \in Threads : Step(t)

Spec == Init /\ [][Next]_vars

(* ------------------------------ properties ------------------------------ *)

\* What a call is asked to leave behind: the first bytes of the original.
Wanted(t) == SubSeq(Bytes[Path[t]], 1, Min({frame[t].asked, Len(Bytes[Path[t]])}))

\* A call that returns 0 (ind_trnc.c:116 "Return 0 if the named file is truncated
\* or was previously less than length bytes") has left exactly the first length
\* bytes of the file under its name, whichever host calls failed on the way.
TruncateExact ==
  \A t \in Threads :
    At(t, "done") /\ frame[t].ret = 0 => Exists(Path[t]) /\ Content(Path[t]) = Wanted(t)

\* The wanted bytes survive every failure, and a crash at any point: they start
\* the file or fill the temporary one, until the copy back itself has failed
\* (ind_trnc.c:213 to 229 then unlinks the only good copy).
CopyBackFailed(t) == frame[t].pc \in {"unlinktmp", "done"} /\ frame[t].count = -1 /\ frame[t].length = 0
BytesKept ==
  \A t \in Threads :
    \/ CopyBackFailed(t)
    \/ \E name \in {Path[t], frame[t].tmp} \cap DOMAIN dir : IsPrefix(Wanted(t), Content(name))
===========================================================================
