---------------------------- MODULE KeyringStore ----------------------------
(***************************************************************************)
(* comms/keyring.py: the keyring commands of one machine, each a process   *)
(* that loads mesh-keyring.json, merges its keys in memory and writes the  *)
(* ring back through <ring>.tmp and os.replace.  Nothing locks the ring    *)
(* and every process uses the same .tmp name.  A process may die between   *)
(* any two system calls.                                                   *)
(*                                                                         *)
(* A file is an inode: os.replace moves the name, and a writer that has    *)
(* the inode open goes on writing to it under whatever name it now has.    *)
(***************************************************************************)
EXTENDS KeyringMerge

CONSTANTS
  NoFile,      \* "no file has this name"
  Blank,       \* the content of a file just opened for writing
  Torn,        \* the content of a file that holds pieces of two texts
  Exclusive    \* does the operator run one command at a time?

Inodes == Procs      \* a command creates one file at most

ASSUME StoreAssumption ==
  /\ NoFile \notin Inodes
  /\ Blank \notin Rings /\ Torn \notin Rings
  /\ Exclusive \in BOOLEAN

VARIABLES
  pc,          \* pc[p]: "idle", "merged", "writing", "written", "ok" or "failed"
  ring,        \* ring[p]: the ring p holds in memory
  fd,          \* fd[p]: the inode p has open for writing
  path,        \* the inode named mesh-keyring.json
  tmp,         \* the inode named mesh-keyring.json.tmp
  content      \* content[i]: what inode i holds

vars == <<pc, ring, fd, path, tmp, content>>

\* Types; a command that has opened its file knows its inode.
TypeOK ==
  /\ pc \in [Procs -> {"idle", "merged", "writing", "written", "ok", "failed"}]
  /\ ring \in [Procs -> Rings]
  /\ fd \in [Procs -> Inodes \cup {NoFile}]
  /\ path \in Inodes \cup {NoFile}
  /\ tmp \in Inodes \cup {NoFile}
  /\ content \in [Inodes -> Rings \cup {Blank, Torn}]
  /\ \A p \in Procs : pc[p] \in {"writing", "written"} => fd[p] \in Inodes

Init ==
  /\ pc = [p \in Procs |-> "idle"]
  /\ ring = [p \in Procs |-> NoPins]
  /\ fd = [p \in Procs |-> NoFile]
  /\ path = NoFile
  /\ tmp = NoFile
  /\ content = [i \in Inodes |-> Blank]

Running(p) == pc[p] \in {"merged", "writing", "written"}

\* What load_keyring_strict finds: no file is an empty ring; anything that
\* is not a ring is refused as corrupt.
Stored == IF path = NoFile THEN NoPins ELSE content[path]

-----------------------------------------------------------------------------
(* One command                                                             *)

\* Mutant of Load: the ring is read with load_keyring, for which a corrupt ring is
\* an empty one.
LoadLeniently(p) ==
  LET found == IF Stored \in Rings THEN Stored ELSE NoPins
  IN  /\ pc[p] = "idle"
      /\ Exclusive => \A q \in Procs : ~Running(q)
      /\ ~Refuses(found, p)
      /\ pc' = [pc EXCEPT ![p] = "merged"]
      /\ ring' = [ring EXCEPT ![p] = Merged(found, p)]
      /\ UNCHANGED <<fd, path, tmp, content>>

\* Load the ring strictly and merge; a corrupt ring or a refused conflict
\* ends the command with exit code 2.
Load(p) ==
  /\ pc[p] = "idle"
  /\ Exclusive => \A q \in Procs : ~Running(q)
  /\ \/ /\ Stored \in Rings => Refuses(Stored, p)
        /\ pc' = [pc EXCEPT ![p] = "failed"]
        /\ UNCHANGED ring
     \/ /\ Stored \in Rings
        /\ ~Refuses(Stored, p)
        /\ pc' = [pc EXCEPT ![p] = "merged"]
        /\ ring' = [ring EXCEPT ![p] = Merged(Stored, p)]
  /\ UNCHANGED <<fd, path, tmp, content>>

\* Mutants of Open: _write opens the ring itself, without a .tmp sibling; a .tmp that
\* is left over is not emptied.
OpenInPlace(p) ==
  /\ pc[p] = "merged"
  /\ LET i == IF path = NoFile THEN p ELSE path
     IN  /\ fd' = [fd EXCEPT ![p] = i]
         /\ path' = i
         /\ content' = [content EXCEPT ![i] = Blank]
  /\ pc' = [pc EXCEPT ![p] = "writing"]
  /\ UNCHANGED <<ring, tmp>>
OpenOverLeftover(p) ==
  /\ pc[p] = "merged"
  /\ LET i == IF tmp = NoFile THEN p ELSE tmp
     IN  fd' = [fd EXCEPT ![p] = i] /\ tmp' = i
  /\ pc' = [pc EXCEPT ![p] = "writing"]
  /\ UNCHANGED <<ring, path, content>>

\* _write, open(tmp, "w"): the file of that name is emptied, or a new one made.
Open(p) ==
  /\ pc[p] = "merged"
  /\ LET i == IF tmp = NoFile THEN p ELSE tmp
     IN  /\ fd' = [fd EXCEPT ![p] = i]
         /\ tmp' = i
         /\ content' = [content EXCEPT ![i] = Blank]
  /\ pc' = [pc EXCEPT ![p] = "writing"]
  /\ UNCHANGED <<ring, path>>

\* _write, the text and close(): whole in a file that is still empty; over
\* another command's text, the end of a longer one stays behind it.
Write(p) ==
  /\ pc[p] = "writing"
  /\ \E c \in {ring[p], Torn} :
       /\ content[fd[p]] = Blank => c = ring[p]
       /\ content' = [content EXCEPT ![fd[p]] = c]
  /\ pc' = [pc EXCEPT ![p] = "written"]
  /\ UNCHANGED <<ring, fd, path, tmp>>

\* _write, os.replace(tmp, path): raises if no file has the .tmp name.
Replace(p) ==
  /\ pc[p] = "written"
  /\ \/ /\ tmp # NoFile
        /\ path' = tmp
        /\ tmp' = NoFile
        /\ pc' = [pc EXCEPT ![p] = "ok"]
     \/ /\ tmp = NoFile
        /\ pc' = [pc EXCEPT ![p] = "failed"]
        /\ UNCHANGED <<path, tmp>>
  /\ UNCHANGED <<ring, fd, content>>

\* The process is killed, or the machine goes down.
Die(p) ==
  /\ Running(p)
  /\ pc' = [pc EXCEPT ![p] = "failed"]
  /\ UNCHANGED <<ring, fd, path, tmp, content>>

Next == \E p \in Procs : Load(p) \/ Open(p) \/ Write(p) \/ Replace(p) \/ Die(p)

Spec == Init /\ [][Next]_vars

-----------------------------------------------------------------------------
(* Properties                                                              *)

\* keyring.py 56-60: a crash leaves the prior ring intact; the file named
\* mesh-keyring.json is never half-written.
RingIntact == path # NoFile => content[path] \in Rings

\* keyring.py 10-11: a different key for a known agent is never overwritten
\* silently: the step that replaces it is that of a command given --rotate.
ReplacedByRotation ==
  \A a \in Agents :
    Stored \in Rings /\ Stored' \in Rings /\ Stored[a] # NoKey /\ Stored'[a] # Stored[a]
    => \E p \in Rotating : Wish[p][a] = Stored'[a] /\ pc[p] = "written"
NoSilentOverwrite == [][ReplacedByRotation]_vars

\* sign.py 377-383: a corrupt ring is surfaced, never silently overwritten: once
\* it is corrupt and no command is under way, no later command replaces it.
Corrupt == Stored \notin Rings
CorruptRingSurvives == [](Corrupt /\ (\A p \in Procs : ~Running(p)) => []Corrupt)

\* Each command that reports success took effect at once on the ring of that
\* moment: no pin another command reported is lost, no check was stale.
Atomic == INSTANCE AtomicKeyring WITH pins <- Stored,
                                      done <- {p \in Procs : pc[p] = "ok"}
CommandsAreAtomic == Atomic!Spec
=============================================================================
