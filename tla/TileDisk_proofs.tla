--------------------------- MODULE TileDisk_proofs ---------------------------
(***************************************************************************)
(* Theorems about TileDisk, for any number of processes and inodes, any    *)
(* tiles of any length, with crashes and I/O errors or without.  No        *)
(* property is inductive.  What happens to a .tmp file before its rename   *)
(* has to be said too, and how a file comes to hold what no process wrote: *)
(*                                                                         *)
(*   Overtaken  a put that still writes is overtaken like one that is      *)
(*              about to rename                                            *)
(*   Fronts     a file is as long as the tile at its front, or longer      *)
(*   Sharing    a file with two handles, or written since a handle on it   *)
(*              was opened, is shared, and so is one that is longer than   *)
(*              the tile at its front                                      *)
(*   TornHeld   nobody has written the .tmp file under the same condition  *)
(*              as the published one, since a rename makes the one the     *)
(*              other                                                      *)
(***************************************************************************)
EXTENDS TileDisk, TLAPS

Overtaken ==
  \A p \in Procs : pc[p] \in {"write", "rename"} /\ tmp = None => file # None

Fronts ==
  \A i \in Inodes :
    /\ content[i][1] = None => content[i][2] = 0
    /\ content[i][1] # None => Length[content[i][1]] <= content[i][2]

Sharing ==
  /\ \A p, q \in Procs :
       p # q /\ handle[p] = handle[q] /\ handle[p] # None => handle[p] \in shared
  /\ \A p \in Procs :
       handle[p] # None /\ content[handle[p]][1] # None => handle[p] \in shared
  /\ \A i \in Inodes :
       content[i][1] # None /\ content[i][2] # Length[content[i][1]] => i \in shared

TornHeld ==
  ~ spoiled =>
    \A i \in {tmp, file} \ {None} : content[i][1] = None => \E p \in Procs : handle[p] = i

IInv == TypeOK /\ Overtaken /\ Fronts /\ Sharing /\ TornHeld

\* The empty cache directory satisfies every part of the invariant.
LEMMA InitInv == Init => IInv
<1> SUFFICES ASSUME Init PROVE IInv
  OBVIOUS
<1>1. Empty \in Contents /\ Empty[1] = None /\ Empty[2] = 0
  BY DEF Empty, Contents
<1>2. TypeOK
  BY <1>1, DiskAssumption DEF Init, TypeOK
<1>3. Overtaken /\ Fronts /\ Sharing /\ TornHeld
  BY <1>1 DEF Init, Overtaken, Fronts, Sharing, TornHeld
<1> QED BY <1>2, <1>3 DEF IInv

\* open(.., "wb") truncates, and whoever else has the file open shares it.
LEMMA OpenStep ==
  ASSUME IInv, NEW p \in Procs, Open(p)
  PROVE  IInv'
<1> USE DiskAssumption
<1>1. PICK i \in Inodes :
        /\ tmp' = i
        /\ content' = [content EXCEPT ![i] = Empty]
        /\ handle' = [handle EXCEPT ![p] = i]
        /\ shared' = IF \E q \in Procs : handle[q] = i THEN shared \cup {i} ELSE shared \ {i}
  BY DEF Open
<1>2. /\ pc[p] = "open" /\ handle[p] = None
      /\ pc' = [pc EXCEPT ![p] = "write"]
      /\ UNCHANGED <<file, mem, spoiled>>
  BY DEF Open, Goto, IInv, TypeOK
<1>3. Empty \in Contents /\ Empty[1] = None /\ Empty[2] = 0
  BY DEF Empty, Contents
<1>4. TypeOK'
  BY <1>1, <1>2, <1>3 DEF IInv, TypeOK
<1>5. content'[i] = Empty /\ handle'[p] = i
      /\ (\A j \in Inodes \ {i} : content'[j] = content[j] /\ (j \in shared' <=> j \in shared))
      /\ (\A q \in Procs \ {p} : handle'[q] = handle[q])
  BY <1>1 DEF IInv, TypeOK
<1>6. Overtaken'
  BY <1>1, <1>2 DEF IInv, Overtaken
<1>7. Fronts'
  BY <1>3, <1>5 DEF IInv, Fronts
<1>8. Sharing'
  <2>1. ASSUME NEW q \in Procs, NEW r \in Procs, q # r, handle'[q] = handle'[r], handle'[q] # None
        PROVE  handle'[q] \in shared'
    BY <1>1, <1>2, <1>5, <2>1 DEF IInv, TypeOK, Sharing
  <2>2. ASSUME NEW q \in Procs, handle'[q] # None, content'[handle'[q]][1] # None
        PROVE  handle'[q] \in shared'
    BY <1>3, <1>5, <2>2 DEF IInv, TypeOK, Sharing
  <2>3. ASSUME NEW j \in Inodes, content'[j][1] # None, content'[j][2] # Length[content'[j][1]]
        PROVE  j \in shared'
    BY <1>3, <1>5, <2>3 DEF IInv, Sharing
  <2> QED BY <2>1, <2>2, <2>3 DEF Sharing
<1>9. TornHeld'
  BY <1>1, <1>2, <1>5 DEF IInv, TypeOK, TornHeld
<1> QED BY <1>4, <1>6, <1>7, <1>8, <1>9 DEF IInv

\* write() leaves the tile whole unless a longer one was there, and that one can
\* only have been written by somebody else who had the file open.
LEMMA WriteStep ==
  ASSUME IInv, NEW p \in Procs, Write(p)
  PROVE  IInv'
<1> USE DiskAssumption
<1> DEFINE h == handle[p]
           old == content[handle[p]]
<1>1. /\ pc[p] = "write" /\ h \in Inodes
      /\ content' = [content EXCEPT ![h] = Over(mem[p], old)]
      /\ handle' = [handle EXCEPT ![p] = None]
      /\ pc' = [pc EXCEPT ![p] = "rename"]
      /\ UNCHANGED <<tmp, file, mem, spoiled, shared>>
  BY DEF Write, Goto, IInv, TypeOK, historyVars
<1>2. PICK tile \in Tiles : mem[p] = Bytes(tile)
  BY <1>1 DEF IInv, TypeOK, Whole
<1>3. /\ old \in Contents /\ old[2] \in Nat /\ Length[tile] \in Nat \ {0} /\ tile # None
      /\ old[1] = None => old[2] = 0
  BY <1>1 DEF IInv, TypeOK, Fronts, Contents
<1>4. /\ content'[h] \in Contents
      /\ content'[h][1] = tile /\ Length[tile] <= content'[h][2]
      /\ content'[h][2] # Length[tile] => old[1] # None
  <2>1. Over(mem[p], old) = <<tile, IF Length[tile] < old[2] THEN old[2] ELSE Length[tile]>>
    BY <1>2 DEF Over, Bytes
  <2>2. content'[h] = Over(mem[p], old)
    BY <1>1 DEF IInv, TypeOK
  <2> QED BY <1>3, <2>1, <2>2 DEF Contents
<1>5. (\A j \in Inodes \ {h} : content'[j] = content[j])
      /\ handle'[p] = None
      /\ (\A q \in Procs \ {p} : handle'[q] = handle[q])
  BY <1>1 DEF IInv, TypeOK
<1> HIDE DEF h, old
<1>6. TypeOK'
  <2>1. content' \in [Inodes -> Contents]
    BY <1>1, <1>4 DEF IInv, TypeOK
  <2> QED BY <1>1, <2>1 DEF IInv, TypeOK
<1>7. Overtaken'
  BY <1>1 DEF IInv, TypeOK, Overtaken
<1>8. Fronts'
  BY <1>3, <1>4, <1>5 DEF IInv, Fronts
<1>9. Sharing'
  <2>1. ASSUME NEW q \in Procs, NEW r \in Procs, q # r, handle'[q] = handle'[r], handle'[q] # None
        PROVE  handle'[q] \in shared'
    BY <1>1, <1>5, <2>1 DEF IInv, Sharing
  <2>2. ASSUME NEW q \in Procs, handle'[q] # None, content'[handle'[q]][1] # None
        PROVE  handle'[q] \in shared'
    <3>1. q # p /\ handle'[q] = handle[q] /\ handle[q] \in Inodes
      BY <1>5, <2>2 DEF IInv, TypeOK
    <3>2. CASE handle[q] = h
      BY <1>1, <3>1, <3>2 DEF h, IInv, Sharing
    <3>3. CASE handle[q] # h
      BY <1>1, <1>5, <2>2, <3>1, <3>3 DEF IInv, Sharing
    <3> QED BY <3>2, <3>3
  <2>3. ASSUME NEW j \in Inodes, content'[j][1] # None, content'[j][2] # Length[content'[j][1]]
        PROVE  j \in shared'
    <3>1. CASE j = h
      BY <1>1, <1>4, <2>3, <3>1 DEF h, old, IInv, Sharing
    <3>2. CASE j # h
      BY <1>1, <1>5, <2>3, <3>2 DEF IInv, Sharing
    <3> QED BY <3>1, <3>2
  <2> QED BY <2>1, <2>2, <2>3 DEF Sharing
<1>10. TornHeld'
  <2> SUFFICES ASSUME ~ spoiled, NEW i \in {tmp, file} \ {None}, content'[i][1] = None
               PROVE  \E q \in Procs : handle'[q] = i
    BY <1>1 DEF TornHeld
  <2>1. i \in Inodes \ {h}
    BY <1>3, <1>4 DEF IInv, TypeOK
  <2>2. PICK q \in Procs : handle[q] = i
    BY <1>5, <2>1 DEF IInv, TornHeld
  <2> QED BY <1>5, <2>1, <2>2 DEF h
<1> QED BY <1>6, <1>7, <1>8, <1>9, <1>10 DEF IInv

\* Every step keeps every part of the invariant.
LEMMA NextInv == IInv /\ [Next]_vars => IInv'
<1> SUFFICES ASSUME IInv, [Next]_vars PROVE IInv'
  OBVIOUS
<1> USE DiskAssumption
    DEF IInv, TypeOK, Overtaken, Fronts, Sharing, TornHeld, Goto, diskVars, historyVars
<1>1. CASE UNCHANGED vars
  BY <1>1 DEF vars
<1>2. ASSUME NEW p \in Procs,
             MemMiss(p) \/ ReadFile(p) \/ NoFile(p) \/ GetRaises(p) \/ Evict(p)
      PROVE  IInv'
  BY <1>2 DEF MemMiss, ReadFile, NoFile, GetRaises, Evict
<1>3. ASSUME NEW p \in Procs, PutMem(p) PROVE IInv'
  <2>1. PICK tile \in Tiles : mem' = [mem EXCEPT ![p] = Bytes(tile)]
    BY <1>3 DEF PutMem
  <2>2. Bytes(tile) \in Tiles \X Nat /\ Bytes(tile) \in Contents /\ Whole(Bytes(tile))
    BY DEF Bytes, Contents, Whole
  <2>3. Bytes(tile) # None
    BY <2>2
  <2> QED BY <1>3, <2>1, <2>2, <2>3 DEF PutMem
<1>4. ASSUME NEW p \in Procs, Rename(p) \/ RenameFails(p) PROVE IInv'
  BY <1>4 DEF Rename, RenameFails
<1>5. ASSUME NEW p \in Procs, PutFails(p) \/ Crash(p) PROVE IInv'
  BY <1>5 DEF PutFails, Crash, Abort
<1> QED BY <1>1, <1>2, <1>3, <1>4, <1>5, OpenStep, WriteStep DEF Next, PutStep

\* The inductive invariant holds throughout.
LEMMA Invariance == Spec => []IInv
BY InitInv, NextInv, PTL DEF Spec

\* Every variable keeps its type: a handle is open between open and write.
THEOREM TypeCorrect == Spec => []TypeOK
<1>1. IInv => TypeOK
  BY DEF IInv
<1> QED BY <1>1, Invariance, PTL

\* The rename that fails because its .tmp file has gone may be ignored: the tile
\* is published.
THEOREM OvertakenPutsArePublished == Spec => []OvertakenIsPublished
<1>1. IInv => OvertakenIsPublished
  BY DEF IInv, Overtaken, OvertakenIsPublished
<1> QED BY <1>1, Invariance, PTL

\* Unless a writer gave up, a published file is no whole tile only while somebody
\* has it open for writing, or when a short tile was written over a longer one
\* through a second handle.
THEOREM TornFilesAreBeingWritten == Spec => []TornOnlyInWriting
<1>1. ASSUME IInv, ~ spoiled, file # None, ~ Whole(content[file]),
             \A p \in Procs : handle[p] # file
      PROVE  Mixed(file)
  <2>1. /\ file \in Inodes /\ content[file] \in Contents
        /\ content[file][1] # None
    BY <1>1 DEF IInv, TypeOK, TornHeld
  <2>2. /\ content[file] = <<content[file][1], content[file][2]>>
        /\ content[file][1] \in Tiles /\ content[file][2] \in Nat
    BY <2>1 DEF Contents
  <2>3. content[file][2] # Length[content[file][1]]
    BY <1>1, <2>2 DEF Whole, Bytes
  <2>4. Length[content[file][1]] <= content[file][2] /\ Length[content[file][1]] \in Nat
    BY <1>1, <2>1, <2>2, DiskAssumption DEF IInv, Fronts
  <2> QED BY <1>1, <2>1, <2>2, <2>3, <2>4 DEF IInv, Sharing, Mixed
<1>2. IInv => TornOnlyInWriting
  BY <1>1 DEF TornOnlyInWriting
<1> QED BY <1>2, Invariance, PTL
=============================================================================
