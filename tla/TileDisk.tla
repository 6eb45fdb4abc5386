------------------------------ MODULE TileDisk ------------------------------
(***************************************************************************)
(* One tile of a cache directory that several server processes share, and  *)
(* what TileCache.get and put of each process do to it.  Within a process  *)
(* the coalescer lets one writer per tile in (OneLeaderPerKey of           *)
(* RequestCoalescer_proofs), so a process is one actor here; between       *)
(* processes nothing does, and all of them use the same .tmp name.         *)
(*                                                                         *)
(* What matters then is which file an open handle writes to, so names and  *)
(* files are told apart: tmp and file say which inode a name refers to,    *)
(* content what is in it.  Opening an existing .tmp file truncates it.     *)
(*                                                                         *)
(* The limit of the request and the release are not part of the key, and   *)
(* LIMIT goes without ORDER BY, so processes may compute tiles of unequal  *)
(* length.  A file holds the tile that was written last, from offset 0,    *)
(* and has the length of the longest since it was truncated.               *)
(***************************************************************************)
EXTENDS Integers

CONSTANTS Procs,     \* server processes on one cache directory
          Inodes,    \* names for files; one that nothing refers to is used again
          Tiles,     \* the bytes that a process may compute for the key
          Length,    \* how many they are; an empty layer has a name, too
          Crashes,   \* TRUE: a process may die at any point
          IOFaults,  \* TRUE: any file operation may raise OSError
          None       \* no entry, no inode, no tile

ASSUME DiskAssumption ==
  /\ {Crashes, IOFaults} \subseteq BOOLEAN
  /\ Length \in [Tiles -> Nat \ {0}]
  /\ None \notin Inodes \cup Tiles \cup Tiles \X Nat

VARIABLES tmp,      \* the inode the .tmp name refers to
          file,     \* the inode the published name refers to
          content,  \* of each inode, the tile at its front and its length
          pc,       \* where each process is
          mem,      \* its in-memory entry, like the content of a file
          handle,   \* the inode it has opened for writing
          spoiled,  \* history: whether a writer gave up on a file it had opened
          shared    \* history: inodes opened while another process was at them

diskVars == <<tmp, file, content>>
historyVars == <<spoiled, shared>>
vars == <<diskVars, pc, mem, handle, historyVars>>

Contents == (Tiles \cup {None}) \X Nat
Empty == <<None, 0>>
Bytes(tile) == <<tile, Length[tile]>>
Whole(bytes) == \E tile \in Tiles : bytes = Bytes(tile)

TypeOK ==
  /\ tmp \in Inodes \cup {None}
  /\ file \in Inodes \cup {None}
  /\ content \in [Inodes -> Contents]
  /\ pc \in [Procs -> {"get", "read", "put", "open", "write", "rename"}]
  /\ mem \in [Procs -> Contents \cup {None}]
  /\ \A p \in Procs : pc[p] \in {"open", "write"} => mem[p] # None /\ Whole(mem[p])
  /\ handle \in [Procs -> Inodes \cup {None}]
  /\ \A p \in Procs : handle[p] # None <=> pc[p] = "write"
  /\ spoiled \in BOOLEAN /\ shared \subseteq Inodes

Init ==
  /\ tmp = None /\ file = None
  /\ content = [i \in Inodes |-> Empty]
  /\ pc = [p \in Procs |-> "get"]
  /\ mem = [p \in Procs |-> None]
  /\ handle = [p \in Procs |-> None]
  /\ spoiled = FALSE /\ shared = {}

Goto(p, label) == pc' = [pc EXCEPT ![p] = label]

(***************************************************************************)
(* get; a miss leads to put.                                               *)
(***************************************************************************)
MemMiss(p) ==
  /\ pc[p] = "get" /\ mem[p] = None
  /\ Goto(p, "read")
  /\ UNCHANGED <<diskVars, mem, handle, historyVars>>

ReadFile(p) ==
  /\ pc[p] = "read" /\ file # None
  /\ mem' = [mem EXCEPT ![p] = content[file]]
  /\ Goto(p, "get")
  /\ UNCHANGED <<diskVars, handle, historyVars>>

\* There is no file, or it cannot be read.
NoFile(p) ==
  /\ pc[p] = "read" /\ (file = None \/ IOFaults)
  /\ Goto(p, "put")
  /\ UNCHANGED <<diskVars, mem, handle, historyVars>>

\* path.exists() raises, and the request with it.
GetRaises(p) ==
  /\ IOFaults
  /\ pc[p] = "read"
  /\ Goto(p, "get")
  /\ UNCHANGED <<diskVars, mem, handle, historyVars>>

Evict(p) ==
  /\ pc[p] = "get" /\ mem[p] # None
  /\ mem' = [mem EXCEPT ![p] = None]
  /\ UNCHANGED <<diskVars, pc, handle, historyVars>>

(***************************************************************************)
(* put                                                                     *)
(***************************************************************************)
PutMem(p) ==
  /\ pc[p] = "put"
  /\ \E tile \in Tiles : mem' = [mem EXCEPT ![p] = Bytes(tile)]
  /\ Goto(p, "open")
  /\ UNCHANGED <<diskVars, handle, historyVars>>

Referenced == {tmp, file} \cup {handle[p] : p \in Procs}

\* What open(.., "wb") opens; which of the free inodes is new does not matter.
Opened == IF tmp = None THEN CHOOSE i \in Inodes : i \notin Referenced ELSE tmp

Open(p) ==
  /\ pc[p] = "open"
  /\ \E i \in Inodes \cap {Opened} :
       /\ tmp' = i
       /\ content' = [content EXCEPT ![i] = Empty]
       /\ handle' = [handle EXCEPT ![p] = i]
       /\ shared' = IF \E q \in Procs : handle[q] = i THEN shared \cup {i} ELSE shared \ {i}
  /\ Goto(p, "write")
  /\ UNCHANGED <<file, mem, spoiled>>

\* What a file holds when bytes are written over old ones from the front.
Over(bytes, old) == <<bytes[1], IF bytes[2] < old[2] THEN old[2] ELSE bytes[2]>>

\* Mutant: the error of a failed write is swallowed before the rename.
WriteOrNot(p) ==
  /\ pc[p] = "write"
  /\ \E bytes \in {Over(mem[p], content[handle[p]]), content[handle[p]]} :
       content' = [content EXCEPT ![handle[p]] = bytes]
  /\ handle' = [handle EXCEPT ![p] = None]
  /\ Goto(p, "rename")
  /\ UNCHANGED <<tmp, file, mem, historyVars>>

Write(p) ==
  /\ pc[p] = "write"
  /\ content' = [content EXCEPT ![handle[p]] = Over(mem[p], @)]
  /\ handle' = [handle EXCEPT ![p] = None]
  /\ Goto(p, "rename")
  /\ UNCHANGED <<tmp, file, mem, historyVars>>

Rename(p) ==
  /\ pc[p] = "rename" /\ tmp # None
  /\ file' = tmp
  /\ tmp' = None
  /\ Goto(p, "get")
  /\ UNCHANGED <<content, mem, handle, historyVars>>

\* FileNotFoundError: another process has renamed the .tmp file away.  It is
\* logged and forgotten.
RenameFails(p) ==
  /\ pc[p] = "rename" /\ tmp = None
  /\ Goto(p, "get")
  /\ UNCHANGED <<diskVars, mem, handle, historyVars>>

\* The writer gives up: its handle is closed, whatever it has written.
Abort(p) ==
  /\ Goto(p, "get")
  /\ handle' = [handle EXCEPT ![p] = None]
  /\ spoiled' = (spoiled \/ pc[p] = "write")
  /\ UNCHANGED <<file, content, shared>>

\* Mutant: the except block tidies up by removing the .tmp file.
PutFailsUnlinks(p) ==
  /\ IOFaults
  /\ pc[p] \in {"open", "write", "rename"}
  /\ Abort(p)
  /\ tmp' = None
  /\ UNCHANGED mem

\* The except block logs the error and leaves everything as it is.
PutFails(p) ==
  /\ IOFaults
  /\ pc[p] \in {"open", "write", "rename"}
  /\ Abort(p)
  /\ UNCHANGED <<tmp, mem>>

Crash(p) ==
  /\ Crashes
  /\ Abort(p)
  /\ mem' = [mem EXCEPT ![p] = None]
  /\ UNCHANGED tmp

PutStep(p) ==
  PutMem(p) \/ Open(p) \/ Write(p) \/ Rename(p) \/ RenameFails(p) \/ PutFails(p)

Next ==
  \E p \in Procs :
    \/ MemMiss(p) \/ ReadFile(p) \/ NoFile(p) \/ GetRaises(p) \/ Evict(p)
    \/ PutStep(p) \/ Crash(p)

Spec == Init /\ [][Next]_vars

\* A put that has begun goes on.
FairSpec == Spec /\ \A p \in Procs : WF_vars(PutStep(p))

(***************************************************************************)
(* Properties                                                              *)
(***************************************************************************)
\* A put whose .tmp file has gone was overtaken: the tile is published, by the
\* process that took that file.  This is what makes it safe to log the error
\* of the rename and go on.
OvertakenIsPublished ==
  \A p \in Procs : pc[p] = "rename" /\ tmp = None => file # None

\* A short tile over the end of a longer one, in a file that two processes had
\* open at a time: nothing mends that.
Mixed(i) == i \in shared /\ content[i][1] # None /\ content[i][2] > Length[content[i][1]]

\* As long as no writer died or failed between open and write, a published
\* file is not a whole tile only while a process that opened it under its .tmp
\* name is still to write it, or for the tiles of two writers being mixed in it.
TornOnlyInWriting ==
  ~ spoiled /\ file # None /\ ~ Whole(content[file]) =>
    Mixed(file) \/ \E p \in Procs : handle[p] = file

\* Such a file does not stay torn: it becomes whole or such a mixture, unless
\* the next one takes its place before.
TornFileHeals ==
  \A i \in Inodes : file = i /\ ~ Whole(content[i])
    ~> spoiled \/ file # i \/ Whole(content[i]) \/ Mixed(i)

(***************************************************************************)
(* What the comments claim and the code does not do                        *)
(***************************************************************************)
\* "mapping tile key -> raw MVT bytes", for "a different gvt process hitting
\* the same machine" too: what a process reads from disk is a tile.
ReadsTheTile == \A p \in Procs : mem[p] # None => Whole(mem[p])
=============================================================================
