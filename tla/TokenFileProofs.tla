-------------------------- MODULE TokenFileProofs --------------------------
(***************************************************************************)
(* Proofs about TokenFile, for any number of processes, writes and         *)
(* seconds: the token file is whole at every moment, it implements the     *)
(* register of AtomicToken, a sweep leaves nothing that is too old, and,   *)
(* if writes do not stall for too long, it takes nothing that is in use.   *)
(***************************************************************************)
EXTENDS TokenFile, TLAPS

----------------------------------------------------------------------------
\* Types

\* What a writer between two writes looks like.
LEMMA RestTypes ==
    /\ Idle \in WriterStates
    /\ \A i \in Inodes : [Idle EXCEPT !.pc = "created", !.inode = i] \in WriterStates
    /\ [Idle EXCEPT !.pc = "returned"] \in WriterStates
<1>1. 0 \in Inodes
  BY BoundsAssumption DEF Inodes
<1>2. Idle \in WriterStates
  BY <1>1 DEF Idle, WriterStates, Ended
<1>3. ASSUME NEW i \in Inodes
      PROVE  [Idle EXCEPT !.pc = "created", !.inode = i] \in WriterStates
  BY <1>2 DEF WriterStates, Trying, Writing
<1>4. [Idle EXCEPT !.pc = "returned"] \in WriterStates
  BY <1>2 DEF WriterStates, Ended
<1> QED
  BY <1>2, <1>3, <1>4

\* The initial state has the types of TypeOK.
LEMMA InitTypes == Init => TypeOK
<1> SUFFICES ASSUME Init PROVE TypeOK
  OBVIOUS
<1>1. 0 \in Inodes /\ 0 \in 0 .. MaxClock /\ 1 \in 1 .. (MaxWrites + 1)
  BY BoundsAssumption DEF Inodes
<1>2. dir \in Directories /\ saved \in Directories
  BY <1>1 DEF Init, Directories
<1>3. content \in [Inodes -> Amounts] /\ mtime \in [Inodes -> Int]
  BY DEF Init, Amounts
<1>4. writer \in [Writers -> WriterStates]
  BY RestTypes DEF Init
<1> QED
  BY <1>1, <1>2, <1>3, <1>4 DEF Init, TypeOK

\* Every step keeps them.
LEMMA StepTypes == TypeOK /\ [Next]_vars => TypeOK'
<1> SUFFICES ASSUME TypeOK, [Next]_vars PROVE TypeOK'
  OBVIOUS
<1>1. ASSUME NEW w \in Writers, Begin(w) PROVE TypeOK'
  <2>1. nextInode \in Inodes /\ nextInode' \in 1 .. (MaxWrites + 1)
    BY <1>1, BoundsAssumption DEF Begin, TypeOK, Inodes
  <2>2. writer' \in [Writers -> WriterStates]
    BY <1>1, <2>1, RestTypes DEF Begin, TypeOK
  <2>3. dir' \in Directories
    BY <1>1, <2>1 DEF Begin, TypeOK, Directories
  <2>4. mtime' \in [Inodes -> Int]
    <3>1. Stamp \in Int
      BY AgeAssumption, BoundsAssumption DEF Stamp, TypeOK
    <3> QED
      BY <1>1, <2>1, <3>1 DEF Begin, TypeOK
  <2> QED
    BY <1>1, <2>1, <2>2, <2>3, <2>4 DEF Begin, TypeOK
<1>2. ASSUME NEW w \in Writers, Dump(w) \/ Flush(w) PROVE TypeOK'
  <2>1. Stamp \in Int
    BY AgeAssumption, BoundsAssumption DEF Stamp, TypeOK
  <2>2. PICK s \in {"dumping", "flushed"}, a \in Amounts :
           /\ content' = [content EXCEPT ![writer[w].inode] = a]
           /\ writer' = [writer EXCEPT ![w].pc = s]
    BY <1>2 DEF Dump, Flush, Fill, Amounts
  <2>3. content' \in [Inodes -> Amounts]
    BY <2>2 DEF TypeOK
  <2>4. writer' \in [Writers -> WriterStates]
    BY <2>2 DEF TypeOK, WriterStates, Trying, Writing
  <2>5. mtime' \in [Inodes -> Int]
    BY <1>2, <2>1 DEF Dump, Flush, Fill, TypeOK
  <2> QED
    BY <1>2, <2>3, <2>4, <2>5 DEF Dump, Flush, Fill, TypeOK
<1>3. ASSUME NEW w \in Writers, Fsync(w) PROVE TypeOK'
  <2>1. writer' \in [Writers -> WriterStates]
    BY <1>3 DEF Fsync, TypeOK, WriterStates, Trying, Writing
  <2>2. synced' \in SUBSET Inodes
    BY <1>3 DEF Fsync, TypeOK, WriterStates
  <2> QED
    BY <1>3, <2>1, <2>2 DEF Fsync, TypeOK
<1>4. ASSUME NEW w \in Writers, Replace(w) PROVE TypeOK'
  <2>1. writer' \in [Writers -> WriterStates]
    BY <1>4 DEF Replace, TypeOK, WriterStates, Trying
  <2>2. dir' \in Directories
    BY <1>4 DEF Replace, TypeOK, WriterStates, Directories
  <2> QED
    BY <1>4, <2>1, <2>2 DEF Replace, TypeOK, fileVars
<1>5. ASSUME NEW w \in Writers, SyncDir(w) \/ SkipSync(w) PROVE TypeOK'
  <2>1. \/ writer' = [writer EXCEPT ![w] =
                        [@ EXCEPT !.pc = "listing", !.kept = TRUE]]
        \/ writer' = [writer EXCEPT ![w].pc = "listing"]
    BY <1>5 DEF SyncDir, SkipSync
  <2>2. [writer[w] EXCEPT !.pc = "listing", !.kept = TRUE] \in WriterStates
    BY DEF TypeOK, WriterStates, Sweeping
  <2>3. [writer[w] EXCEPT !.pc = "listing"] \in WriterStates
    BY DEF TypeOK, WriterStates, Sweeping
  <2>4. writer' \in [Writers -> WriterStates]
    BY <2>1, <2>2, <2>3 DEF TypeOK
  <2> QED
    BY <1>5, <2>4 DEF SyncDir, SkipSync, TypeOK, fileVars
<1>6. ASSUME NEW w \in Writers, Fail(w) \/ Kill(w) PROVE TypeOK'
  <2>1. writer' \in [Writers -> WriterStates]
    BY <1>6, RestTypes DEF Fail, Kill, TypeOK
  <2>2. dir' \in Directories
    BY <1>6 DEF Fail, Kill, TypeOK, Directories
  <2> QED
    BY <1>6, <2>1, <2>2 DEF Fail, Kill, TypeOK, fileVars
<1>7. ASSUME NEW w \in Writers, List(w) PROVE TypeOK'
  <2>1. writer' \in [Writers -> WriterStates]
    <3>1. dir.temps \in SUBSET Inodes
      BY DEF TypeOK, Directories
    <3>2. ASSUME NEW T \in SUBSET Inodes
          PROVE  [writer[w] EXCEPT !.pc = "listed", !.listed = T, !.names = T]
                    \in WriterStates
      BY DEF TypeOK, WriterStates, Sweeping
    <3> QED
      BY <1>7, <3>1, <3>2 DEF List, TypeOK
  <2> QED
    BY <1>7, <2>1 DEF List, TypeOK, fileVars
<1>8. ASSUME NEW w \in Writers, Aim(w) PROVE TypeOK'
  <2>1. Cutoff \in Int
    BY AgeAssumption, BoundsAssumption DEF Cutoff, TypeOK
  <2>2. writer' \in [Writers -> WriterStates]
    <3>1. ASSUME NEW c \in Int
          PROVE  [writer[w] EXCEPT !.pc = "sweeping", !.cutoff = c] \in WriterStates
      BY DEF TypeOK, WriterStates, Sweeping
    <3> QED
      BY <1>8, <2>1, <3>1 DEF Aim, TypeOK
  <2> QED
    BY <1>8, <2>2 DEF Aim, TypeOK, fileVars
<1>9. ASSUME NEW w \in Writers, Look(w) PROVE TypeOK'
  <2>1. PICK i \in writer[w].names, p \in {"condemned", "sweeping"} :
           writer' = [writer EXCEPT ![w] =
              [@ EXCEPT !.names = writer[w].names \ {i}, !.pc = p,
                        !.victim = i]]
    BY <1>9 DEF Look
  <2>2. [writer[w] EXCEPT !.names = writer[w].names \ {i}, !.pc = p,
                          !.victim = i] \in WriterStates
    BY DEF TypeOK, WriterStates, Sweeping
  <2>3. writer' \in [Writers -> WriterStates]
    BY <2>1, <2>2 DEF TypeOK
  <2> QED
    BY <1>9, <2>3 DEF Look, TypeOK, fileVars
<1>10. ASSUME NEW w \in Writers, Unlink(w) PROVE TypeOK'
  <2>1. writer' \in [Writers -> WriterStates]
    BY <1>10 DEF Unlink, TypeOK, WriterStates, Sweeping
  <2>2. dir' \in Directories
    BY <1>10 DEF Unlink, TypeOK, Directories
  <2> QED
    BY <1>10, <2>1, <2>2 DEF Unlink, TypeOK, fileVars
<1>11. ASSUME NEW w \in Writers, Return(w) PROVE TypeOK'
  <2>1. writer' \in [Writers -> WriterStates]
    BY <1>11, RestTypes DEF Return, TypeOK
  <2> QED
    BY <1>11, <2>1 DEF Return, TypeOK, fileVars
<1>12. CASE Writeback
  BY <1>12 DEF Writeback, TypeOK, fileVars
<1>13. CASE PowerLoss
  <2>1. content' \in [Inodes -> Amounts]
    BY <1>13 DEF PowerLoss
  <2>2. synced' \in SUBSET Inodes
    BY <1>13, BoundsAssumption DEF PowerLoss, TypeOK, Inodes
  <2>3. writer' \in [Writers -> WriterStates]
    BY <1>13, RestTypes DEF PowerLoss
  <2> QED
    BY <1>13, <2>1, <2>2, <2>3 DEF PowerLoss, TypeOK
<1>14. CASE Tick
  <2>1. clock' \in 0 .. MaxClock
    BY <1>14, BoundsAssumption DEF Tick, TypeOK
  <2> QED
    BY <1>14, <2>1 DEF Tick, TypeOK, fileVars
<1>15. CASE UNCHANGED vars
  BY <1>15 DEF vars, TypeOK
<1> QED
  BY <1>1, <1>2, <1>3, <1>4, <1>5, <1>6, <1>7, <1>8, <1>9, <1>10, <1>11,
     <1>12, <1>13, <1>14, <1>15 DEF Next, Step

\* The variables keep their types, whatever the processes do.
THEOREM TypeCorrect == Spec => []TypeOK
BY InitTypes, StepTypes, PTL DEF Spec

----------------------------------------------------------------------------
\* The inductive invariant

\* The inodes given out so far: nothing refers to another one, and so a new
\* temporary file is nobody else's.
Old == 0 .. (nextInode - 1)

\* Whatever a name leads to or a writer holds is one of them.
Known ==
    /\ {dir.token, saved.token} \cup dir.temps \cup saved.temps \cup synced
          \subseteq Old
    /\ \A w \in Writers :
          /\ writer[w].inode \in Old /\ writer[w].victim \in Old
          /\ writer[w].listed \subseteq Old /\ writer[w].names \subseteq Old

\* A write's file is its own, and is not the token until it is renamed.
Own ==
    /\ \A w \in Writers : writer[w].pc \in Writing =>
          writer[w].inode \notin {dir.token, saved.token}
    /\ \A v, w \in Writers :
          v # w /\ writer[v].pc \in Trying /\ writer[w].pc \in Trying
             => writer[v].inode # writer[w].inode

\* Before the rename the token is there, and flushed.
Filled ==
    \A w \in Writers :
       /\ writer[w].pc \in {"flushed", "fsynced"} =>
             content[writer[w].inode] = "whole"
       /\ writer[w].pc = "fsynced" => writer[w].inode \in synced

\* The token is whole now and after a power loss, whichever rename survives.
Whole == TokenWhole /\ dir.token \in synced

\* What `kept' says of a writer.
KeptRight ==
    \A w \in Writers :
       /\ writer[w].pc \in Trying => ~writer[w].kept
       /\ writer[w].pc \in Sweeping => writer[w].kept \/ ~SurelySynced

\* The fields of a writer a step does not change.
Keeps(w, fields) == \A f \in fields : writer'[w][f] = writer[w][f]

\* A step of one writer, field by field.
LEMMA Fields ==
    ASSUME TypeOK, NEW w \in Writers
    PROVE  /\ Begin(w) =>
                /\ writer'[w].pc = "created" /\ writer'[w].inode = nextInode
                /\ writer'[w].kept = FALSE /\ writer'[w].victim = 0
                /\ writer'[w].listed = {} /\ writer'[w].names = {}
           /\ SyncDir(w) =>
                /\ writer'[w].pc = "listing" /\ writer'[w].kept = TRUE
                /\ Keeps(w, {"inode", "listed", "names", "cutoff", "victim"})
           /\ List(w) =>
                /\ writer'[w].pc = "listed"
                /\ writer'[w].listed = dir.temps /\ writer'[w].names = dir.temps
                /\ Keeps(w, {"inode", "kept", "cutoff", "victim"})
           /\ Aim(w) =>
                /\ writer'[w].pc = "sweeping" /\ writer'[w].cutoff = Cutoff
                /\ Keeps(w, {"inode", "kept", "listed", "names", "victim"})
           /\ Look(w) => \E i \in writer[w].names :
                /\ writer'[w].pc = IF i \in dir.temps /\ TooOld(w, i)
                                   THEN "condemned" ELSE "sweeping"
                /\ writer'[w].names = writer[w].names \ {i}
                /\ writer'[w].victim = i
                /\ Keeps(w, {"inode", "kept", "listed", "cutoff"})
           /\ Return(w) =>
                /\ writer'[w].pc = "returned" /\ writer'[w].inode = 0
                /\ writer'[w].victim = 0
                /\ writer'[w].listed = {} /\ writer'[w].names = {}
           /\ Fail(w) \/ Kill(w) => writer'[w] = Idle
           /\ \A s : writer' = [writer EXCEPT ![w].pc = s] =>
                /\ writer'[w].pc = s
                /\ Keeps(w, {"inode", "kept", "listed", "names", "cutoff", "victim"})
<1>1. ASSUME Begin(w)
      PROVE  /\ writer'[w].pc = "created" /\ writer'[w].inode = nextInode
             /\ writer'[w].kept = FALSE /\ writer'[w].victim = 0
             /\ writer'[w].listed = {} /\ writer'[w].names = {}
  BY <1>1 DEF Begin, TypeOK, Idle
<1>2. ASSUME SyncDir(w)
      PROVE  /\ writer'[w].pc = "listing" /\ writer'[w].kept = TRUE
             /\ Keeps(w, {"inode", "listed", "names", "cutoff", "victim"})
  BY <1>2 DEF SyncDir, TypeOK, WriterStates, Keeps
<1>3. ASSUME List(w)
      PROVE  /\ writer'[w].pc = "listed"
             /\ writer'[w].listed = dir.temps /\ writer'[w].names = dir.temps
             /\ Keeps(w, {"inode", "kept", "cutoff", "victim"})
  BY <1>3 DEF List, TypeOK, WriterStates, Keeps
<1>4. ASSUME Aim(w)
      PROVE  /\ writer'[w].pc = "sweeping" /\ writer'[w].cutoff = Cutoff
             /\ Keeps(w, {"inode", "kept", "listed", "names", "victim"})
  BY <1>4 DEF Aim, TypeOK, WriterStates, Keeps
<1>5. ASSUME Look(w)
      PROVE  \E i \in writer[w].names :
                /\ writer'[w].pc = IF i \in dir.temps /\ TooOld(w, i)
                                   THEN "condemned" ELSE "sweeping"
                /\ writer'[w].names = writer[w].names \ {i}
                /\ writer'[w].victim = i
                /\ Keeps(w, {"inode", "kept", "listed", "cutoff"})
  <2>1. PICK i \in writer[w].names :
           writer' = [writer EXCEPT ![w] =
              [@ EXCEPT !.names = writer[w].names \ {i},
                        !.pc = IF i \in dir.temps /\ TooOld(w, i)
                               THEN "condemned" ELSE "sweeping",
                        !.victim = i]]
    BY <1>5 DEF Look
  <2> HIDE DEF TooOld
  <2> DEFINE p == IF i \in dir.temps /\ TooOld(w, i)
                  THEN "condemned" ELSE "sweeping"
  <2>2. ASSUME NEW q
        PROVE  LET r == [writer[w] EXCEPT !.names = writer[w].names \ {i},
                                          !.pc = q, !.victim = i] IN
               /\ r.pc = q /\ r.names = writer[w].names \ {i} /\ r.victim = i
               /\ \A f \in {"inode", "kept", "listed", "cutoff"} :
                     r[f] = writer[w][f]
    BY DEF TypeOK, WriterStates
  <2>3. writer'[w] = [writer[w] EXCEPT !.names = writer[w].names \ {i},
                                       !.pc = p, !.victim = i]
    BY <2>1 DEF TypeOK
  <2> QED
    BY <2>2, <2>3 DEF Keeps
<1>6. ASSUME Return(w)
      PROVE  /\ writer'[w].pc = "returned" /\ writer'[w].inode = 0
             /\ writer'[w].victim = 0
             /\ writer'[w].listed = {} /\ writer'[w].names = {}
  BY <1>6 DEF Return, TypeOK, Idle
<1>7. Fail(w) \/ Kill(w) => writer'[w] = Idle
  BY DEF Fail, Kill, TypeOK
<1>8. ASSUME NEW s, writer' = [writer EXCEPT ![w].pc = s]
      PROVE  /\ writer'[w].pc = s
             /\ Keeps(w, {"inode", "kept", "listed", "names", "cutoff", "victim"})
  BY <1>8 DEF TypeOK, WriterStates, Keeps
<1> QED
  BY <1>1, <1>2, <1>3, <1>4, <1>5, <1>6, <1>7, <1>8

\* And the other writers stay where they are.
LEMMA OthersStay ==
    ASSUME TypeOK, NEW w \in Writers, Step(w),
           NEW v \in Writers, v # w
    PROVE  writer'[v] = writer[v]
BY DEF TypeOK, Step, Begin, Dump, Flush, Fill, Fsync, Replace, SyncDir, SkipSync,
       Fail, Kill, List, Aim, Look, Unlink, Return

\* A writer between two writes owns nothing, field by field.
LEMMA IdleFields ==
    /\ Idle.pc = "idle" /\ Idle.inode = 0 /\ Idle.kept = FALSE
    /\ Idle.listed = {} /\ Idle.names = {} /\ Idle.victim = 0
BY DEF Idle

\* The directory changes when a file is created, renamed or removed.
LEMMA DirChanges ==
    ASSUME TypeOK, NEW w \in Writers
    PROVE  /\ Begin(w) => /\ dir'.token = dir.token
                          /\ dir'.temps = dir.temps \cup {nextInode}
           /\ Replace(w) => /\ dir'.token = writer[w].inode
                            /\ dir'.temps = dir.temps \ {writer[w].inode}
           /\ Fail(w) => /\ dir'.token = dir.token
                         /\ dir'.temps = IF writer[w].pc \in Trying
                                         THEN dir.temps \ {writer[w].inode}
                                         ELSE dir.temps
           /\ Unlink(w) => /\ dir'.token = dir.token
                           /\ dir'.temps = dir.temps \ {writer[w].victim}
           /\ Step(w) => \/ Begin(w) \/ Replace(w) \/ Fail(w) \/ Unlink(w)
                         \/ dir' = dir
<1>1. Begin(w) => /\ dir'.token = dir.token
                  /\ dir'.temps = dir.temps \cup {nextInode}
  BY DEF Begin, TypeOK, Directories
<1>2. Replace(w) => /\ dir'.token = writer[w].inode
                    /\ dir'.temps = dir.temps \ {writer[w].inode}
  BY DEF Replace
<1>3. Fail(w) => /\ dir'.token = dir.token
                 /\ dir'.temps = IF writer[w].pc \in Trying
                                 THEN dir.temps \ {writer[w].inode}
                                 ELSE dir.temps
  BY DEF Fail, TypeOK, Directories
<1>4. Unlink(w) => /\ dir'.token = dir.token
                   /\ dir'.temps = dir.temps \ {writer[w].victim}
  BY DEF Unlink, TypeOK, Directories
<1>5. Step(w) => \/ Begin(w) \/ Replace(w) \/ Fail(w) \/ Unlink(w)
                 \/ dir' = dir
  BY DEF Step, Dump, Flush, Fill, Fsync, SyncDir, SkipSync, Kill, List, Aim, Look,
         Return
<1> QED
  BY <1>1, <1>2, <1>3, <1>4, <1>5

\* Known is kept by whatever leaves nextInode alone, spreads no number that is
\* not out yet, and changes at most the writer w.
LEMMA KnownSpread ==
    ASSUME TypeOK, Known, NEW w \in Writers,
           \A v \in Writers : v # w => writer'[v] = writer[v],
           nextInode' = nextInode,
           {dir'.token, saved'.token} \cup dir'.temps \cup saved'.temps \cup synced'
              \subseteq Old,
           writer'[w].inode \in Old, writer'[w].victim \in Old,
           writer'[w].listed \subseteq Old, writer'[w].names \subseteq Old
    PROVE  Known'
BY DEF Known, Old

\* Every inode a name leads to, or a writer holds, was given out by mkstemp.
LEMMA KnownStep ==
    ASSUME TypeOK, Known, [Next]_vars
    PROVE  Known'
<1>0. Old \subseteq Int /\ nextInode \in Int /\ 0 \in Old
  BY BoundsAssumption DEF TypeOK, Old
<1>1. ASSUME NEW w \in Writers, Begin(w) PROVE Known'
  <2>1. Old' = Old \cup {nextInode} /\ nextInode \in Old' /\ 0 \in Old'
    BY <1>0, <1>1 DEF Begin, Old
  <2>2. dir'.token = dir.token /\ dir'.temps = dir.temps \cup {nextInode}
    BY <1>1 DEF Begin, TypeOK, Directories
  <2>3. \A v \in Writers : v # w => writer'[v] = writer[v]
    BY <1>1, OthersStay DEF Step
  <2>4. /\ writer'[w].inode = nextInode /\ writer'[w].victim = 0
        /\ writer'[w].listed = {} /\ writer'[w].names = {}
    BY <1>1, Fields
  <2> QED
    BY <1>1, <2>1, <2>2, <2>3, <2>4 DEF Begin, Known
<1>2. ASSUME NEW w \in Writers, Step(w), ~Begin(w) PROVE Known'
  <2>1. \A v \in Writers : v # w => writer'[v] = writer[v]
    BY <1>2, OthersStay
  <2>2. nextInode' = nextInode
    BY <1>2 DEF Step, Dump, Flush, Fill, Fsync, Replace, SyncDir, SkipSync, Fail,
                Kill, List, Aim, Look, Unlink, Return, fileVars
  <2>3. dir'.token \in Old /\ dir'.temps \subseteq Old
    BY <1>2, DirChanges DEF Known
  <2>4. saved'.token \in Old /\ saved'.temps \subseteq Old
    BY <1>2 DEF Step, Dump, Flush, Fill, Fsync, Replace, SyncDir, SkipSync, Fail,
                Kill, List, Aim, Look, Unlink, Return, Known
  <2>5. synced' \subseteq Old
    BY <1>2 DEF Step, Dump, Flush, Fill, Fsync, Replace, SyncDir, SkipSync, Fail,
                Kill, List, Aim, Look, Unlink, Return, Known, fileVars
  <2> DEFINE Good ==
        /\ writer'[w].inode \in Old /\ writer'[w].victim \in Old
        /\ writer'[w].listed \subseteq Old /\ writer'[w].names \subseteq Old
  <2>6. Good
    <3>1. \/ \E s : writer' = [writer EXCEPT ![w].pc = s]
          \/ SyncDir(w) \/ List(w) \/ Aim(w) \/ Look(w) \/ Return(w)
          \/ Fail(w) \/ Kill(w)
      BY <1>2 DEF Step, Dump, Flush, Fill, Fsync, Replace, SkipSync, Unlink
    <3>2. ASSUME Keeps(w, {"inode", "listed", "names", "victim"})
          PROVE  Good
      BY <3>2 DEF Keeps, Known
    <3>3. CASE \E s : writer' = [writer EXCEPT ![w].pc = s]
      BY <3>2, <3>3, Fields DEF Keeps
    <3>4. CASE SyncDir(w)
      BY <3>2, <3>4, Fields DEF Keeps
    <3>5. CASE Aim(w)
      BY <3>2, <3>5, Fields DEF Keeps
    <3>6. CASE List(w)
      BY <3>6, Fields DEF Keeps, Known
    <3>7. CASE Look(w)
      <4>1. PICK i \in writer[w].names :
               /\ writer'[w].names = writer[w].names \ {i}
               /\ writer'[w].victim = i
               /\ Keeps(w, {"inode", "listed"})
        BY <3>7, Fields DEF Keeps
      <4> QED
        BY <4>1 DEF Keeps, Known
    <3>8. CASE Return(w)
      BY <1>0, <3>8, Fields
    <3>9. CASE Fail(w) \/ Kill(w)
      BY <1>0, <3>9, Fields, IdleFields
    <3> QED
      BY <3>1, <3>3, <3>4, <3>5, <3>6, <3>7, <3>8, <3>9
  <2> QED
    BY <2>1, <2>2, <2>3, <2>4, <2>5, <2>6, KnownSpread
<1>3. CASE Writeback
  BY <1>3 DEF Writeback, Known, Old, fileVars
<1>4. CASE PowerLoss
  BY <1>0, <1>4 DEF PowerLoss, Known, Old, Idle
<1>5. CASE Tick
  BY <1>5 DEF Tick, Known, Old, fileVars
<1>6. CASE UNCHANGED vars
  BY <1>6 DEF vars, Known, Old
<1> QED
  BY <1>1, <1>2, <1>3, <1>4, <1>5, <1>6 DEF Next

\* Where a step takes a writer that is inside the try block after it.
LEMMA PlaceChanges ==
    ASSUME TypeOK, NEW w \in Writers, Step(w), ~Begin(w)
    PROVE  /\ writer'[w].pc \in Trying =>
                /\ writer[w].pc \in Trying
                /\ writer'[w].inode = writer[w].inode
                /\ writer'[w].kept = writer[w].kept
           /\ writer'[w].pc \in Writing => writer[w].pc \in Writing
           /\ writer'[w].pc = "flushed" => Flush(w)
           /\ writer'[w].pc = "fsynced" => Fsync(w)
           /\ writer'[w].pc \in Sweeping =>
                \/ writer[w].pc \in Sweeping /\ writer'[w].kept = writer[w].kept
                \/ writer'[w].kept \/ ~SurelySynced
<1>1. ASSUME NEW s, writer' = [writer EXCEPT ![w].pc = s]
      PROVE  /\ writer'[w].pc = s /\ writer'[w].inode = writer[w].inode
             /\ writer'[w].kept = writer[w].kept
  <2>1. writer'[w].pc = s
        /\ Keeps(w, {"inode", "kept", "listed", "names", "cutoff", "victim"})
    BY <1>1, Fields
  <2> QED
    BY <2>1 DEF Keeps
<1>2. CASE Dump(w)
  <2>1. writer[w].pc = "created" /\ writer' = [writer EXCEPT ![w].pc = "dumping"]
    BY <1>2 DEF Dump, Fill
  <2> QED
    BY <1>1, <2>1 DEF Trying, Writing, Sweeping
<1>3. CASE Flush(w)
  <2>1. writer[w].pc = "dumping" /\ writer' = [writer EXCEPT ![w].pc = "flushed"]
    BY <1>3 DEF Flush, Fill
  <2>2. /\ writer'[w].pc = "flushed" /\ writer'[w].inode = writer[w].inode
        /\ writer'[w].kept = writer[w].kept
    BY <1>1, <2>1
  <2> QED
    BY <1>3, <2>1, <2>2 DEF Trying, Writing, Sweeping
<1>4. CASE Fsync(w)
  <2>1. writer[w].pc = "flushed" /\ writer' = [writer EXCEPT ![w].pc = "fsynced"]
    BY <1>4 DEF Fsync
  <2>2. /\ writer'[w].pc = "fsynced" /\ writer'[w].inode = writer[w].inode
        /\ writer'[w].kept = writer[w].kept
    BY <1>1, <2>1
  <2> QED
    BY <1>4, <2>1, <2>2 DEF Trying, Writing, Sweeping
<1>5. CASE Replace(w)
  <2>1. writer[w].pc = "fsynced" /\ writer' = [writer EXCEPT ![w].pc = "replaced"]
    BY <1>5 DEF Replace
  <2>2. /\ writer'[w].pc = "replaced" /\ writer'[w].inode = writer[w].inode
        /\ writer'[w].kept = writer[w].kept
    BY <1>1, <2>1
  <2> QED
    BY <2>1, <2>2 DEF Trying, Writing, Sweeping
<1>6. CASE SyncDir(w)
  <2>1. writer'[w].pc = "listing" /\ writer'[w].kept = TRUE
    BY <1>6, Fields
  <2>2. writer'[w].pc \notin Trying /\ writer'[w].pc \notin {"flushed", "fsynced"}
    BY <2>1 DEF Trying, Writing
  <2> QED
    BY <2>1, <2>2, Zenon DEF Trying
<1>7. CASE SkipSync(w)
  <2>1. ~SurelySynced /\ writer' = [writer EXCEPT ![w].pc = "listing"]
    BY <1>7 DEF SkipSync
  <2>2. writer'[w].pc = "listing"
    BY <1>1, <2>1
  <2>3. writer'[w].pc \notin Trying /\ writer'[w].pc \notin {"flushed", "fsynced"}
    BY <2>2 DEF Trying, Writing
  <2> QED
    BY <2>1, <2>3, Zenon DEF Trying
<1>8. CASE Fail(w) \/ Kill(w) \/ Return(w)
  <2>1. writer'[w].pc \in {"idle", "returned"}
    BY <1>8, Fields, IdleFields
  <2> QED
    BY <2>1 DEF Trying, Writing, Sweeping
<1>9. CASE List(w) \/ Aim(w) \/ Look(w) \/ Unlink(w)
  <2>1. writer[w].pc \in Sweeping
    BY <1>9 DEF List, Aim, Look, Unlink, Sweeping
  <2>2. writer'[w].pc \in {"listed", "sweeping", "condemned"}
    BY <1>1, <1>9, Fields DEF Unlink
  <2>3. writer'[w].kept = writer[w].kept
    BY <1>1, <1>9, Fields DEF Unlink, Keeps
  <2> QED
    BY <2>1, <2>2, <2>3 DEF Trying, Writing
<1> QED
  BY <1>2, <1>3, <1>4, <1>5, <1>6, <1>7, <1>8, <1>9 DEF Step

\* Only a new write joins those that are inside the try block, with a file
\* nobody knew.
LEMMA OwnStep ==
    ASSUME TypeOK, Known, Own, [Next]_vars
    PROVE  Own'
<1>0. nextInode \notin Old
  BY DEF TypeOK, Old
<1>1. ASSUME NEW w \in Writers, Begin(w) PROVE Own'
  <2>1. \A v \in Writers : v # w => writer'[v] = writer[v]
    BY <1>1, OthersStay DEF Step
  <2>2. writer'[w].inode = nextInode /\ dir'.token = dir.token /\ saved' = saved
    BY <1>1, Fields, DirChanges DEF Begin
  <2> QED
    BY <1>0, <2>1, <2>2 DEF Own, Known
<1>2. ASSUME NEW w \in Writers, Step(w), ~Begin(w) PROVE Own'
  <2>1. \A v \in Writers : v # w => writer'[v] = writer[v]
    BY <1>2, OthersStay
  <2>2. /\ writer'[w].pc \in Trying =>
                writer[w].pc \in Trying /\ writer'[w].inode = writer[w].inode
        /\ writer'[w].pc \in Writing => writer[w].pc \in Writing
    BY <1>2, PlaceChanges
  <2>3. Writing \subseteq Trying
    BY DEF Trying
  <2>4. \A u, v \in Writers :
           u # v /\ writer'[u].pc \in Trying /\ writer'[v].pc \in Trying
              => writer'[u].inode # writer'[v].inode
    BY <2>1, <2>2 DEF Own
  <2>5. CASE Replace(w)
    <3>1. /\ dir'.token = writer[w].inode /\ saved' = saved
          /\ writer[w].pc \in Trying
      BY <2>5, DirChanges DEF Replace, Trying, Writing
    <3>2. writer'[w].pc \notin Writing
      <4>1. writer'[w].pc = "replaced"
        BY <2>5, Fields DEF Replace
      <4> QED
        BY <4>1 DEF Writing
    <3> QED
      BY <2>1, <2>2, <2>3, <2>4, <3>1, <3>2 DEF Own
  <2>6. CASE ~Replace(w)
    <3>1. dir'.token = dir.token
      BY <1>2, <2>6, DirChanges
    <3>2. saved' = saved \/ saved' = dir
      BY <1>2 DEF Step, Dump, Flush, Fill, Fsync, Replace, SyncDir, SkipSync,
                  Fail, Kill, List, Aim, Look, Unlink, Return
    <3> QED
      BY <2>1, <2>2, <2>3, <2>4, <3>1, <3>2 DEF Own
  <2> QED
    BY <2>5, <2>6
<1>3. CASE Writeback
  BY <1>3 DEF Writeback, Own
<1>4. CASE PowerLoss
  <2>1. \A v \in Writers : writer'[v].pc = "idle"
    BY <1>4, IdleFields DEF PowerLoss
  <2> QED
    BY <2>1 DEF Own, Trying, Writing
<1>5. CASE Tick
  BY <1>5 DEF Tick, Own
<1>6. CASE UNCHANGED vars
  BY <1>6 DEF vars, Own
<1> QED
  BY <1>1, <1>2, <1>3, <1>4, <1>5, <1>6 DEF Next

\* Bytes change only in the file of the write that writes them, and what is
\* flushed stays so until the power fails.
LEMMA BytesChange ==
    ASSUME TypeOK, NEW w \in Writers, Step(w)
    PROVE  /\ \A i \in Inodes : i # writer[w].inode \/ writer[w].pc \notin Writing
                 => content'[i] = content[i]
           /\ synced \subseteq synced'
           /\ ~Dump(w) /\ ~Flush(w) => content' = content
<1>1. CASE Dump(w) \/ Flush(w)
  <2>1. /\ writer[w].pc \in Writing /\ synced' = synced
        /\ \E a : content' = [content EXCEPT ![writer[w].inode] = a]
    BY <1>1 DEF Dump, Flush, Fill, Writing
  <2> QED
    BY <1>1, <2>1 DEF TypeOK
<1>2. CASE ~Dump(w) /\ ~Flush(w)
  <2>1. content' = content
    BY <1>2 DEF Step, Begin, Fsync, Replace, SyncDir, SkipSync, Fail, Kill, List,
                Aim, Look, Unlink, Return, fileVars
  <2>2. synced \subseteq synced'
    BY <1>2 DEF Step, Begin, Fsync, Replace, SyncDir, SkipSync, Fail, Kill, List,
                Aim, Look, Unlink, Return, fileVars
  <2> QED
    BY <2>1, <2>2
<1> QED
  BY <1>1, <1>2

\* What was written and flushed of a write in progress stays so.
LEMMA FilledStep ==
    ASSUME TypeOK, Own, Filled, [Next]_vars
    PROVE  Filled'
<1>1. ASSUME NEW w \in Writers, Step(w) PROVE Filled'
  <2> SUFFICES ASSUME NEW v \in Writers, writer'[v].pc \in {"flushed", "fsynced"}
               PROVE  /\ content'[writer'[v].inode] = "whole"
                      /\ writer'[v].pc = "fsynced" => writer'[v].inode \in synced'
    BY DEF Filled
  <2>0. {"flushed", "fsynced"} \subseteq Writing /\ Writing \subseteq Trying
    BY DEF Writing, Trying
  <2>1. CASE v # w
    <3>1. writer'[v] = writer[v] /\ writer[v].inode \in Inodes
      BY <1>1, <2>1, OthersStay DEF TypeOK, WriterStates
    <3>2. content'[writer[v].inode] = content[writer[v].inode]
      BY <1>1, <2>0, <2>1, <3>1, BytesChange DEF Own
    <3>3. synced \subseteq synced'
      BY <1>1, BytesChange
    <3> QED
      BY <3>1, <3>2, <3>3 DEF Filled
  <2>2. CASE v = w
    <3>0. ~Begin(w)
      BY <2>2, Fields
    <3>1. CASE Flush(w)
      <4>1. /\ content' = [content EXCEPT ![writer[w].inode] = "whole"]
            /\ writer' = [writer EXCEPT ![w].pc = "flushed"]
        BY <3>1 DEF Flush, Fill
      <4>2. writer'[w].pc = "flushed"
        BY <4>1 DEF TypeOK
      <4>3. writer'[w].inode = writer[w].inode /\ writer[w].inode \in Inodes
        BY <1>1, <2>0, <2>2, <3>0, PlaceChanges DEF TypeOK, WriterStates
      <4> QED
        BY <2>2, <4>1, <4>2, <4>3 DEF TypeOK
    <3>2. CASE Fsync(w)
      <4>1. /\ writer[w].pc = "flushed" /\ content' = content
            /\ synced' = synced \cup {writer[w].inode}
        BY <3>2 DEF Fsync
      <4>2. writer'[w].inode = writer[w].inode
        BY <1>1, <2>0, <2>2, <3>0, PlaceChanges
      <4> QED
        BY <2>2, <4>1, <4>2 DEF Filled
    <3> QED
      BY <1>1, <2>2, <3>0, <3>1, <3>2, PlaceChanges
  <2> QED
    BY <2>1, <2>2
<1>2. CASE Writeback
  BY <1>2 DEF Writeback, Filled, fileVars
<1>3. CASE PowerLoss
  <2>1. \A v \in Writers : writer'[v].pc = "idle"
    BY <1>3, IdleFields DEF PowerLoss
  <2> QED
    BY <2>1 DEF Filled
<1>4. CASE Tick
  BY <1>4 DEF Tick, Filled, fileVars
<1>5. CASE UNCHANGED vars
  BY <1>5 DEF vars, Filled
<1> QED
  BY <1>1, <1>2, <1>3, <1>4, <1>5 DEF Next

\* The token's bytes are flushed before it is the token, and nobody writes
\* them after.
LEMMA WholeStep ==
    ASSUME TypeOK, Known, Own, Filled, Whole, [Next]_vars
    PROVE  Whole'
<1>0. dir.token \in Inodes /\ saved.token \in Inodes
  BY DEF TypeOK, Directories
<1>1. ASSUME NEW w \in Writers, Step(w) PROVE Whole'
  <2>1. \A i \in {dir.token, saved.token} :
           content'[i] = content[i] /\ content[i] = "whole" /\ i \in synced'
    BY <1>0, <1>1, BytesChange DEF Own, Whole, TokenWhole
  <2>2. CASE Replace(w)
    <3>1. /\ dir'.token = writer[w].inode /\ saved' = saved
          /\ writer[w].pc = "fsynced" /\ content' = content /\ synced' = synced
      BY <2>2, DirChanges DEF Replace, fileVars
    <3>2. content[writer[w].inode] = "whole" /\ writer[w].inode \in synced
      BY <3>1 DEF Filled
    <3> QED
      BY <2>1, <3>1, <3>2 DEF Whole, TokenWhole
  <2>3. CASE ~Replace(w)
    <3>1. dir'.token = dir.token
      BY <1>1, <2>3, DirChanges
    <3>2. saved' = saved \/ saved' = dir
      BY <1>1 DEF Step, Begin, Dump, Flush, Fill, Fsync, Replace, SyncDir, SkipSync,
                  Fail, Kill, List, Aim, Look, Unlink, Return
    <3> QED
      BY <2>1, <3>1, <3>2 DEF Whole, TokenWhole
  <2> QED
    BY <2>2, <2>3
<1>2. CASE Writeback
  BY <1>2 DEF Writeback, Whole, TokenWhole, fileVars
<1>3. CASE PowerLoss
  <2>1. content'[saved.token] = content[saved.token]
    <3>1. content'[saved.token] \in Remains(saved.token)
      BY <1>0, <1>3 DEF PowerLoss
    <3> QED
      BY <3>1 DEF Remains, Whole, TokenWhole
  <2>2. saved.token \in synced'
    BY <1>3 DEF PowerLoss, Known, Old
  <2> QED
    BY <1>3, <2>1, <2>2 DEF PowerLoss, Whole, TokenWhole
<1>4. CASE Tick
  BY <1>4 DEF Tick, Whole, TokenWhole, fileVars
<1>5. CASE UNCHANGED vars
  BY <1>5 DEF vars, Whole, TokenWhole
<1> QED
  BY <1>1, <1>2, <1>3, <1>4, <1>5 DEF Next

\* A sweep is reached by flushing the directory, or where that may fail.
LEMMA KeptRightStep ==
    ASSUME TypeOK, KeptRight, [Next]_vars
    PROVE  KeptRight'
<1>1. ASSUME NEW w \in Writers, Begin(w) PROVE KeptRight'
  <2>1. writer'[w].kept = FALSE /\ writer'[w].pc = "created"
    BY <1>1, Fields
  <2>2. \A v \in Writers : v # w => writer'[v] = writer[v]
    BY <1>1, OthersStay DEF Step
  <2>3. writer'[w].pc \notin Sweeping
    BY <2>1 DEF Sweeping
  <2> QED
    BY <2>1, <2>2, <2>3 DEF KeptRight
<1>2. ASSUME NEW w \in Writers, Step(w), ~Begin(w) PROVE KeptRight'
  <2>1. \A v \in Writers : v # w => writer'[v] = writer[v]
    BY <1>2, OthersStay
  <2> QED
    BY <1>2, <2>1, PlaceChanges DEF KeptRight
<1>3. CASE PowerLoss
  <2>1. \A v \in Writers : writer'[v].pc = "idle"
    BY <1>3, IdleFields DEF PowerLoss
  <2> QED
    BY <2>1 DEF KeptRight, Trying, Writing, Sweeping
<1>4. CASE Writeback \/ Tick \/ UNCHANGED vars
  BY <1>4 DEF Writeback, Tick, vars, KeptRight
<1> QED
  BY <1>1, <1>2, <1>3, <1>4 DEF Next

Inv == TypeOK /\ Known /\ Own /\ Filled /\ Whole /\ KeptRight

\* The inductive invariant holds at the start, ...
LEMMA InitInv == Init => Inv
<1> SUFFICES ASSUME Init PROVE Inv
  OBVIOUS
<1>1. TypeOK
  BY InitTypes
<1>2. \A w \in Writers : writer[w] = Idle /\ writer[w].pc = "idle"
  BY IdleFields DEF Init
<1>3. Known
  BY <1>2, IdleFields DEF Init, Known, Old
<1>4. Own /\ Filled /\ KeptRight
  BY <1>2 DEF Own, Filled, KeptRight, Trying, Writing, Sweeping
<1>5. Whole
  BY <1>1 DEF Init, Whole, TokenWhole, TypeOK, Directories
<1> QED
  BY <1>1, <1>3, <1>4, <1>5 DEF Inv

\* ... every step keeps it, by the lemmas above, ...
LEMMA StepInv == Inv /\ [Next]_vars => Inv'
BY StepTypes, KnownStep, OwnStep, FilledStep, WholeStep, KeptRightStep DEF Inv

\* ... and so it always holds.
LEMMA Invariance == Spec => []Inv
BY InitInv, StepInv, PTL DEF Spec

\* Whatever raises, dies or loses power between any two steps of any number
\* of writes, the token file holds one whole token, now and after the next
\* power loss.
THEOREM WholeCorrect == Spec => []TokenWhole
<1>1. Inv => TokenWhole
  BY DEF Inv, Whole
<1> QED
  BY <1>1, Invariance, PTL

----------------------------------------------------------------------------
\* The register

\* Where the register's writer is, for each place of the file's.
LEMMA Stages ==
    ASSUME NEW r \in WriterStates
    PROVE  /\ r.pc \in Ended => Stage(r) = r.pc
           /\ r.pc \in Writing => Stage(r) = "asked"
           /\ r.pc = "replaced" => Stage(r) = "put"
           /\ r.pc \in Sweeping => Stage(r) = IF r.kept THEN "kept" ELSE "put"
<1>1. r.pc \in Ended => Stage(r) = r.pc
  BY DEF Stage, Ended, Writing, Sweeping
<1>2. r.pc \in Writing => Stage(r) = "asked"
  BY DEF Stage, Ended, Writing, Sweeping
<1>3. r.pc = "replaced" => Stage(r) = "put"
  BY DEF Stage, Ended, Writing, Sweeping
<1>4. r.pc \in Sweeping => Stage(r) = IF r.kept THEN "kept" ELSE "put"
  BY DEF Stage, Ended, Writing, Sweeping
<1> QED
  BY <1>1, <1>2, <1>3, <1>4

Calls == [w \in Writers |-> CallOf(writer[w])]

\* A step of w moves its call only, ...
LEMMA CallMoves ==
    ASSUME NEW w \in Writers, Step(w), TypeOK
    PROVE  Calls' = [Calls EXCEPT ![w] = CallOf(writer'[w])]
<1>1. \A v \in Writers : v # w => writer'[v] = writer[v]
  BY OthersStay
<1> QED
  BY <1>1 DEF Calls

\* ... and not at all if it stays at its stage.
LEMMA CallStays ==
    ASSUME NEW w \in Writers, Step(w), TypeOK,
           Stage(writer'[w]) = Stage(writer[w]),
           writer'[w].inode = writer[w].inode
    PROVE  Calls' = Calls
<1>1. \A v \in Writers : v # w => writer'[v] = writer[v]
  BY OthersStay
<1>2. CallOf(writer'[w]) = CallOf(writer[w])
  BY DEF CallOf
<1>3. \A v \in Writers : CallOf(writer'[v]) = CallOf(writer[v])
  BY <1>1, <1>2
<1> QED
  BY <1>3 DEF Calls

\* Every step is one of the register's, or none.
LEMMA RegisterStep ==
    ASSUME Inv, Inv', [Next]_vars
    PROVE  [Register!Next]_(Register!absVars)
<1>1. /\ Reading(dir.token) = dir.token /\ Reading(dir.token)' = dir'.token
      /\ Surviving(saved.token) = saved.token
      /\ Surviving(saved.token)' = saved'.token
  BY DEF Inv, Whole, TokenWhole, Reading, Surviving
<1>2. TypeOK /\ KeptRight
  BY DEF Inv
<1>3. \A w \in Writers : writer[w] \in WriterStates /\ writer'[w] \in WriterStates
  BY DEF Inv, TypeOK
\* What leaves both directories' tokens and the writer's stage alone is no
\* step of the register.
<1>4. ASSUME dir'.token = dir.token, saved'.token = saved.token, Calls' = Calls
      PROVE  UNCHANGED Register!absVars
  BY <1>1, <1>4 DEF Calls, Register!absVars
<1>5. ASSUME NEW w \in Writers, Step(w), Begin(w) PROVE Register!Ask(w, nextInode)
  <2>1. /\ writer[w].pc \in Ended /\ saved' = saved /\ dir'.token = dir.token
        /\ writer'[w].pc = "created" /\ writer'[w].inode = nextInode
    BY <1>2, <1>5, Fields, DirChanges DEF Begin
  <2>2. Stage(writer[w]) \in Ended /\ Stage(writer'[w]) = "asked"
    BY <1>3, <2>1, Stages DEF Writing
  <2>3. Calls[w].st \in {"idle", "returned"}
    BY <2>2 DEF Calls, CallOf, Ended
  <2>4. Calls' = [Calls EXCEPT ![w] = [st |-> "asked", token |-> nextInode]]
    BY <1>2, <1>5, <2>1, <2>2, CallMoves DEF CallOf
  <2> QED
    BY <1>1, <2>1, <2>3, <2>4 DEF Register!Ask, Register!Ended, Calls
<1>6. ASSUME NEW w \in Writers, Step(w), Replace(w) PROVE Register!Put(w)
  <2>1. /\ writer[w].pc = "fsynced" /\ saved' = saved
        /\ dir'.token = writer[w].inode
        /\ writer' = [writer EXCEPT ![w].pc = "replaced"]
    BY <1>2, <1>6, DirChanges DEF Replace
  <2>2. writer'[w].pc = "replaced" /\ writer'[w].inode = writer[w].inode
    BY <1>2, <2>1 DEF TypeOK, WriterStates
  <2>3. Stage(writer[w]) = "asked" /\ Stage(writer'[w]) = "put"
    BY <1>3, <2>1, <2>2, Stages DEF Writing
  <2>4. Calls[w] = [st |-> "asked", token |-> writer[w].inode]
    BY <2>3 DEF Calls, CallOf
  <2>5. Calls' = [Calls EXCEPT ![w] = [st |-> "put", token |-> writer[w].inode]]
    BY <1>2, <1>6, <2>2, <2>3, CallMoves DEF CallOf
  <2>6. Calls' = [Calls EXCEPT ![w].st = "put"]
    <3>1. [Calls[w] EXCEPT !.st = "put"] = [st |-> "put", token |-> writer[w].inode]
      BY <2>4
    <3> QED
      BY <3>1, <2>5
  <2> QED
    BY <1>1, <2>1, <2>4, <2>6 DEF Register!Put, Calls
<1>7. ASSUME NEW w \in Writers, Step(w), SyncDir(w) PROVE Register!Keep(w)
  <2>1. /\ writer[w].pc = "replaced" /\ saved' = dir /\ dir' = dir
        /\ writer'[w].pc = "listing" /\ writer'[w].kept = TRUE
        /\ writer'[w].inode = writer[w].inode
    <3>1. writer[w].pc = "replaced" /\ saved' = dir /\ dir' = dir
      BY <1>7 DEF SyncDir
    <3>2. /\ writer'[w].pc = "listing" /\ writer'[w].kept = TRUE
          /\ Keeps(w, {"inode", "listed", "names", "cutoff", "victim"})
      BY <1>2, <1>7, Fields
    <3> QED
      BY <3>1, <3>2 DEF Keeps
  <2>2. Stage(writer[w]) = "put" /\ Stage(writer'[w]) = "kept"
    BY <1>3, <2>1, Stages DEF Sweeping
  <2>3. Calls[w] = [st |-> "put", token |-> writer[w].inode]
    BY <2>2 DEF Calls, CallOf
  <2>4. Calls' = [Calls EXCEPT ![w] = [st |-> "kept", token |-> writer[w].inode]]
    BY <1>2, <1>7, <2>1, <2>2, CallMoves DEF CallOf
  <2>5. Calls' = [Calls EXCEPT ![w].st = "kept"]
    <3>1. [Calls[w] EXCEPT !.st = "kept"] = [st |-> "kept", token |-> writer[w].inode]
      BY <2>3
    <3> QED
      BY <3>1, <2>4
  <2> QED
    BY <1>1, <2>1, <2>3, <2>5 DEF Register!Keep, Calls
<1>8. ASSUME NEW w \in Writers, Step(w), Return(w) PROVE Register!Ack(w)
  <2>1. /\ writer[w].pc \in Sweeping /\ saved' = saved /\ dir' = dir
        /\ writer'[w].pc = "returned" /\ writer'[w].inode = 0
    BY <1>2, <1>8, Fields DEF Return, Sweeping
  <2>2. Stage(writer'[w]) = "returned"
    BY <1>3, <2>1, Stages DEF Ended
  <2>3. \/ Stage(writer[w]) = "kept"
        \/ Stage(writer[w]) = "put" /\ ~SurelySynced
    <3>1. writer[w].kept \in BOOLEAN
      BY <1>3 DEF WriterStates
    <3>2. writer[w].kept = TRUE \/ (writer[w].kept = FALSE /\ ~SurelySynced)
      BY <1>2, <2>1, <3>1 DEF KeptRight
    <3>3. Stage(writer[w]) = IF writer[w].kept THEN "kept" ELSE "put"
      BY <1>3, <2>1, Stages
    <3> QED
      BY <3>2, <3>3
  <2>4. Calls[w].st = Stage(writer[w])
    BY DEF Calls, CallOf
  <2>5. Calls' = [Calls EXCEPT ![w] = [st |-> "returned", token |-> 0]]
    BY <1>2, <1>8, <2>1, <2>2, CallMoves DEF CallOf
  <2> QED
    BY <1>1, <2>1, <2>3, <2>4, <2>5 DEF Register!Ack, Register!Returned, Calls
<1>9. ASSUME NEW w \in Writers, Step(w), Fail(w) \/ Kill(w)
      PROVE  Register!Abandon(w)
  <2>1. /\ writer[w].pc \notin Ended /\ saved' = saved /\ dir'.token = dir.token
        /\ writer'[w].pc = "idle" /\ writer'[w].inode = 0
    BY <1>2, <1>9, Fields, IdleFields, DirChanges DEF Fail, Kill
  <2>2. Stage(writer'[w]) = "idle"
    BY <1>3, <2>1, Stages DEF Ended
  <2>3. Stage(writer[w]) \in {"asked", "put", "kept"}
    <3>1. \/ writer[w].pc \in Writing \/ writer[w].pc = "replaced"
          \/ writer[w].pc \in Sweeping
      BY <1>3, <2>1 DEF WriterStates, Trying
    <3> QED
      BY <1>3, <3>1, Stages
  <2>4. Calls[w].st = Stage(writer[w])
    BY DEF Calls, CallOf
  <2>5. Calls' = [Calls EXCEPT ![w] = [st |-> "idle", token |-> 0]]
    BY <1>2, <1>9, <2>1, <2>2, CallMoves DEF CallOf
  <2> QED
    BY <1>1, <2>1, <2>3, <2>4, <2>5
    DEF Register!Abandon, Register!Ended, Register!NoCall, Calls
<1>10. ASSUME NEW w \in Writers, Step(w), Dump(w) \/ Flush(w) \/ Fsync(w)
       PROVE  UNCHANGED Register!absVars
  <2>1. PICK s \in Writing : writer' = [writer EXCEPT ![w].pc = s]
    BY <1>10 DEF Dump, Flush, Fill, Fsync, Writing
  <2>2. writer'[w].pc = s /\ writer'[w].inode = writer[w].inode
    BY <1>2, <2>1 DEF TypeOK, WriterStates
  <2>3. writer[w].pc \in Writing /\ dir' = dir /\ saved' = saved
    BY <1>10 DEF Dump, Flush, Fill, Fsync, Writing
  <2>4. Stage(writer[w]) = "asked" /\ Stage(writer'[w]) = "asked"
    BY <1>3, <2>2, <2>3, Stages
  <2> QED
    BY <1>2, <1>4, <1>10, <2>2, <2>3, <2>4, CallStays
<1>11. ASSUME NEW w \in Writers, Step(w), SkipSync(w)
       PROVE  UNCHANGED Register!absVars
  <2>1. /\ writer' = [writer EXCEPT ![w].pc = "listing"] /\ writer[w].pc = "replaced"
        /\ dir' = dir /\ saved' = saved
    BY <1>11 DEF SkipSync
  <2>2. /\ writer'[w].pc = "listing" /\ writer'[w].inode = writer[w].inode
        /\ writer'[w].kept = writer[w].kept
    BY <1>2, <2>1 DEF TypeOK, WriterStates
  <2>3. writer'[w].kept = FALSE
    <3>1. writer[w].kept \in BOOLEAN /\ ~writer[w].kept
      BY <1>2, <1>3, <2>1 DEF KeptRight, WriterStates, Trying
    <3> QED
      BY <2>2, <3>1
  <2>4. Stage(writer[w]) = "put" /\ Stage(writer'[w]) = "put"
    BY <1>3, <2>1, <2>2, <2>3, Stages DEF Sweeping
  <2> QED
    BY <1>2, <1>4, <1>11, <2>1, <2>2, <2>4, CallStays
<1>12. ASSUME NEW w \in Writers, Step(w), List(w) \/ Aim(w) \/ Look(w) \/ Unlink(w)
       PROVE  UNCHANGED Register!absVars
  <2>1. writer[w].pc \in Sweeping /\ saved' = saved /\ dir'.token = dir.token
    BY <1>2, <1>12, DirChanges DEF List, Aim, Look, Unlink, Sweeping
  <2>2. /\ writer'[w].pc \in Sweeping /\ writer'[w].inode = writer[w].inode
        /\ writer'[w].kept = writer[w].kept
    <3>1. CASE List(w)
      BY <1>2, <3>1, Fields DEF Sweeping, Keeps
    <3>2. CASE Aim(w)
      BY <1>2, <3>2, Fields DEF Sweeping, Keeps
    <3>3. CASE Look(w)
      BY <1>2, <3>3, Fields DEF Sweeping, Keeps
    <3>4. CASE Unlink(w)
      BY <1>2, <3>4 DEF Unlink, TypeOK, WriterStates, Sweeping
    <3> QED
      BY <1>12, <3>1, <3>2, <3>3, <3>4
  <2>3. Stage(writer'[w]) = Stage(writer[w])
    BY <1>3, <2>1, <2>2, Stages
  <2> QED
    BY <1>2, <1>4, <1>12, <2>1, <2>2, <2>3, CallStays
<1>13. ASSUME Writeback PROVE Register!Settle
  <2>1. dir' = dir /\ saved' = dir /\ Calls' = Calls
    BY <1>13 DEF Writeback, Calls
  <2> QED
    BY <1>1, <2>1 DEF Register!Settle, Calls
<1>14. ASSUME PowerLoss PROVE Register!PowerLoss
  <2>1. \A w \in Writers : CallOf(writer'[w]) = [st |-> "idle", token |-> 0]
    <3>1. Stage(Idle) = "idle" /\ Idle.inode = 0
      BY IdleFields, RestTypes, Stages DEF Ended
    <3> QED
      BY <1>14, <3>1 DEF PowerLoss, CallOf
  <2>2. dir' = saved /\ saved' = saved
    BY <1>14 DEF PowerLoss
  <2>3. Calls' = [w \in Writers |-> [st |-> "idle", token |-> 0]]
    BY <2>1 DEF Calls
  <2> QED
    BY <1>1, <2>2, <2>3 DEF Register!PowerLoss, Register!NoCall, Calls
<1>15. CASE Tick \/ UNCHANGED vars
  <2>1. writer' = writer /\ dir' = dir /\ saved' = saved
    BY <1>15 DEF Tick, vars
  <2> QED
    BY <1>4, <2>1 DEF Calls
<1>16. ASSUME NEW w \in Writers, Step(w)
       PROVE  [Register!Next]_(Register!absVars)
  <2>1. Begin(w) => nextInode \in Inodes
    BY <1>2 DEF Begin, TypeOK, Inodes
  <2> QED
    BY <1>5, <1>6, <1>7, <1>8, <1>9, <1>10, <1>11, <1>12, <1>16, <2>1
    DEF Step, Register!Next
<1>17. Writeback \/ PowerLoss => Register!Next
  BY <1>13, <1>14 DEF Register!Next
<1> QED
  BY <1>15, <1>16, <1>17 DEF Next

\* The token file implements the register: no interleaving of writes and
\* sweeps, no exception, SIGKILL or power loss lets it do what a register that
\* is written in one instant could not.
THEOREM AtomicCorrect == Spec => Atomic
<1>1. Init => Register!Init
  <2> SUFFICES ASSUME Init PROVE Register!Init
    OBVIOUS
  <2>1. Inv /\ dir.token = 0 /\ saved.token = 0
    BY InitInv DEF Init
  <2>2. CallOf(Idle) = [st |-> "idle", token |-> 0]
    BY IdleFields, RestTypes, Stages DEF Ended, CallOf
  <2>3. Reading(dir.token) = 0 /\ Surviving(saved.token) = 0
    BY <2>1 DEF Inv, Whole, TokenWhole, Reading, Surviving
  <2> QED
    BY <2>2, <2>3 DEF Init, Register!Init, Register!NoCall
<1> QED
  BY <1>1, Invariance, RegisterStep, PTL DEF Spec, Atomic, Register!Spec

----------------------------------------------------------------------------
\* The sweep

\* A write's file was never touched in the future.
Touched ==
    \A w \in Writers :
       writer[w].pc \in Writing => mtime[writer[w].inode] <= Stamp

\* What the loop has seen and not removed is young enough, or about to go.
Seen ==
    \A w \in Writers :
       /\ writer[w].pc = "listed" => writer[w].names = writer[w].listed
       /\ writer[w].pc \in {"sweeping", "condemned"} =>
            \A i \in writer[w].listed \ writer[w].names :
               i \in dir.temps => \/ ~TooOld(w, i)
                                  \/ writer[w].pc = "condemned" /\ i = writer[w].victim

\* A step of a writer leaves the clock alone, and touches its own file only.
LEMMA Touches ==
    ASSUME TypeOK, Known, Touched, NEW w \in Writers, Step(w)
    PROVE  /\ clock' = clock
           /\ \A i \in Old : mtime'[i] \in Int /\ mtime[i] <= mtime'[i]
           /\ Begin(w) => mtime'[nextInode] = Stamp
           /\ Dump(w) \/ Flush(w) => mtime'[writer[w].inode] = Stamp
           /\ \A i \in Inodes : i \in {nextInode, writer[w].inode}
                                \/ mtime'[i] = mtime[i]
           /\ ~Begin(w) /\ ~Dump(w) /\ ~Flush(w) => mtime' = mtime
<1>1. Old \subseteq Inodes /\ nextInode \notin Old /\ mtime \in [Inodes -> Int]
  BY BoundsAssumption DEF TypeOK, Old, Inodes
<1>2. Stamp \in Int
  BY AgeAssumption, BoundsAssumption DEF Stamp, TypeOK
<1>3. CASE Begin(w)
  <2>1. /\ mtime' = [mtime EXCEPT ![nextInode] = Stamp] /\ clock' = clock
        /\ writer[w].pc \in Ended /\ nextInode \in Inodes
    BY <1>3, BoundsAssumption DEF Begin, TypeOK, Inodes
  <2>2. ~Dump(w) /\ ~Flush(w)
    BY <2>1 DEF Dump, Flush, Fill, Ended
  <2> QED
    BY <1>1, <1>2, <1>3, <2>1, <2>2
<1>4. CASE Dump(w) \/ Flush(w)
  <2>1. /\ mtime' = [mtime EXCEPT ![writer[w].inode] = Stamp] /\ clock' = clock
        /\ writer[w].pc \in {"created", "dumping"}
    BY <1>4 DEF Dump, Flush, Fill
  <2>2. ~Begin(w)
    BY <2>1 DEF Begin, Ended
  <2>3. mtime[writer[w].inode] <= Stamp /\ writer[w].inode \in Inodes
    BY <2>1 DEF Touched, Writing, TypeOK, WriterStates
  <2> QED
    BY <1>1, <1>2, <1>4, <2>1, <2>2, <2>3
<1>5. CASE ~Begin(w) /\ ~Dump(w) /\ ~Flush(w)
  <2>1. mtime' = mtime /\ clock' = clock
    BY <1>5 DEF Step, Fsync, Replace, SyncDir, SkipSync, Fail, Kill, List, Aim,
                Look, Unlink, Return, fileVars
  <2> QED
    BY <1>1, <1>5, <2>1
<1> QED
  BY <1>3, <1>4, <1>5

\* No file was touched in the future, as the file server stamps it.
LEMMA TouchedStep ==
    ASSUME TypeOK, Known, Own, Touched, [Next]_vars
    PROVE  Touched'
<1>0. /\ Stamp \in Int /\ \A w \in Writers : writer[w].inode \in Inodes
      /\ Writing \subseteq Trying /\ mtime \in [Inodes -> Int]
  BY AgeAssumption, BoundsAssumption DEF Stamp, TypeOK, WriterStates, Trying
<1>1. ASSUME NEW w \in Writers, Step(w) PROVE Touched'
  <2>1. Stamp' = Stamp
    BY <1>1, Touches DEF Stamp
  <2>2. ASSUME NEW v \in Writers, v # w, writer'[v].pc \in Writing
        PROVE  mtime'[writer'[v].inode] <= Stamp'
    <3>1. writer'[v] = writer[v]
      BY <1>1, <2>2, OthersStay
    <3>2. mtime'[writer[v].inode] = mtime[writer[v].inode]
      <4>1. writer[v].inode # nextInode
        BY DEF Known, Old, TypeOK
      <4>2. CASE writer[v].inode = writer[w].inode
        <5>1. writer[w].pc \notin Writing
          BY <1>0, <2>2, <3>1, <4>2 DEF Own
        <5>2. ~Dump(w) /\ ~Flush(w)
          BY <5>1 DEF Dump, Flush, Fill, Writing
        <5>3. CASE Begin(w)
          BY <1>0, <4>1, <5>3 DEF Begin
        <5> QED
          BY <1>1, <5>2, <5>3, Touches
      <4>3. CASE writer[v].inode # writer[w].inode
        BY <1>0, <1>1, <4>1, <4>3, Touches
      <4> QED
        BY <4>2, <4>3
    <3> QED
      BY <2>1, <2>2, <3>1, <3>2 DEF Touched
  <2>3. ASSUME writer'[w].pc \in Writing
        PROVE  mtime'[writer'[w].inode] <= Stamp'
    <3>1. CASE Begin(w)
      <4>1. writer'[w].inode = nextInode
        BY <3>1, Fields
      <4>2. mtime'[nextInode] = Stamp
        BY <1>1, <3>1, Touches
      <4> QED
        BY <1>0, <2>1, <4>1, <4>2
    <3>2. CASE ~Begin(w)
      <4>1. writer[w].pc \in Writing /\ writer'[w].inode = writer[w].inode
        BY <1>0, <1>1, <2>3, <3>2, PlaceChanges
      <4>2. mtime[writer[w].inode] <= Stamp
        BY <4>1 DEF Touched
      <4> QED
        BY <1>0, <1>1, <2>1, <3>2, <4>1, <4>2, Touches
    <3> QED
      BY <3>1, <3>2
  <2> QED
    BY <2>2, <2>3 DEF Touched
<1>2. CASE PowerLoss
  <2>1. \A v \in Writers : writer'[v].pc = "idle"
    BY <1>2, IdleFields DEF PowerLoss
  <2> QED
    BY <2>1 DEF Touched, Writing
<1>3. CASE Tick
  <2>1. Stamp' = Stamp + 1
    BY <1>3, AgeAssumption, BoundsAssumption DEF Tick, Stamp, TypeOK
  <2> QED
    BY <1>0, <1>3, <2>1 DEF Tick, Touched, fileVars
<1>4. CASE Writeback \/ UNCHANGED vars
  BY <1>4 DEF Writeback, vars, fileVars, Touched, Stamp
<1> QED
  BY <1>1, <1>2, <1>3, <1>4 DEF Next

\* What a sweep has passed over is gone or was too young, and stays so.
LEMMA SeenStep ==
    ASSUME TypeOK, TypeOK', Known, Touched, Seen, [Next]_vars
    PROVE  Seen'
<1>0. /\ nextInode \notin Old /\ Old \subseteq Inodes /\ mtime \in [Inodes -> Int]
      /\ \A v \in Writers : /\ writer[v].listed \subseteq Old
                            /\ writer[v].cutoff \in Int
  <2>1. /\ nextInode \notin Old /\ Old \subseteq Inodes
        /\ mtime \in [Inodes -> Int]
    BY BoundsAssumption DEF TypeOK, Old, Inodes
  <2>2. \A v \in Writers : writer[v].cutoff \in Int
    BY DEF TypeOK, WriterStates
  <2> QED
    BY <2>1, <2>2 DEF Known
<1>1. ASSUME NEW w \in Writers, Step(w) PROVE Seen'
  \* A file that is there and was known was there, and has not become older.
  <2>1. \A i \in Old : i \in dir'.temps => i \in dir.temps
    BY <1>0, <1>1, DirChanges
  <2>2. \A i \in Old : mtime'[i] \in Int /\ mtime[i] \in Int /\ mtime[i] <= mtime'[i]
    BY <1>0, <1>1, Touches
  <2>3. ASSUME NEW v \in Writers, v # w
        PROVE  /\ writer'[v].pc = "listed" => writer'[v].names = writer'[v].listed
               /\ writer'[v].pc \in {"sweeping", "condemned"} =>
                    \A i \in writer'[v].listed \ writer'[v].names :
                       i \in dir'.temps =>
                          \/ ~(mtime'[i] < writer'[v].cutoff)
                          \/ writer'[v].pc = "condemned" /\ i = writer'[v].victim
    <3>1. writer'[v] = writer[v]
      BY <1>1, <2>3, OthersStay
    <3> QED
      BY <1>0, <2>1, <2>2, <3>1 DEF Seen, TooOld
  <2>4. /\ writer'[w].pc = "listed" => writer'[w].names = writer'[w].listed
        /\ writer'[w].pc \in {"sweeping", "condemned"} =>
             \A i \in writer'[w].listed \ writer'[w].names :
                i \in dir'.temps =>
                   \/ ~(mtime'[i] < writer'[w].cutoff)
                   \/ writer'[w].pc = "condemned" /\ i = writer'[w].victim
    <3>1. CASE List(w)
      BY <3>1, Fields
    <3>2. CASE Aim(w)
      <4>1. /\ writer[w].pc = "listed" /\ writer'[w].pc = "sweeping"
            /\ writer'[w].names = writer[w].names
            /\ writer'[w].listed = writer[w].listed
        BY <3>2, Fields DEF Aim, Keeps
      <4> QED
        BY <4>1 DEF Seen
    <3>3. CASE Look(w)
      <4>1. PICK j \in writer[w].names :
               /\ writer'[w].pc = IF j \in dir.temps /\ TooOld(w, j)
                                  THEN "condemned" ELSE "sweeping"
               /\ writer'[w].names = writer[w].names \ {j}
               /\ writer'[w].victim = j
               /\ writer'[w].listed = writer[w].listed
               /\ writer'[w].cutoff = writer[w].cutoff
        BY <3>3, Fields DEF Keeps
      <4>2. dir' = dir /\ mtime' = mtime /\ writer[w].pc = "sweeping"
        BY <3>3 DEF Look, fileVars
      <4>3. ASSUME NEW i \in writer'[w].listed \ writer'[w].names, i \in dir'.temps
            PROVE  \/ ~(mtime'[i] < writer'[w].cutoff)
                   \/ writer'[w].pc = "condemned" /\ i = writer'[w].victim
        <5>1. CASE i = j
          BY <4>1, <4>2, <4>3, <5>1 DEF TooOld
        <5>2. CASE i # j
          BY <4>1, <4>2, <4>3, <5>2 DEF Seen, TooOld
        <5> QED
          BY <5>1, <5>2
      <4>4. writer'[w].pc # "listed"
        BY <4>1
      <4> QED
        BY <4>3, <4>4
    <3>4. CASE Unlink(w)
      <4>1. /\ writer' = [writer EXCEPT ![w].pc = "sweeping"]
            /\ writer[w].pc = "condemned" /\ mtime' = mtime
            /\ dir'.temps = dir.temps \ {writer[w].victim}
        BY <3>4, DirChanges DEF Unlink, fileVars
      <4>2. /\ writer'[w].pc = "sweeping" /\ writer'[w].names = writer[w].names
            /\ writer'[w].listed = writer[w].listed
            /\ writer'[w].cutoff = writer[w].cutoff
        BY <4>1 DEF TypeOK, WriterStates
      <4> QED
        BY <4>1, <4>2 DEF Seen, TooOld
    <3>5. CASE ~List(w) /\ ~Aim(w) /\ ~Look(w) /\ ~Unlink(w)
      <4>1. writer'[w].pc \notin {"listed", "sweeping", "condemned"}
        <5>1. ASSUME NEW s, writer' = [writer EXCEPT ![w].pc = s]
              PROVE  writer'[w].pc = s
          BY <5>1, Fields
        <5>2. \/ Begin(w) \/ SyncDir(w) \/ Return(w) \/ Fail(w) \/ Kill(w)
              \/ \E s \in {"dumping", "flushed", "fsynced", "replaced", "listing"} :
                    writer' = [writer EXCEPT ![w].pc = s]
          BY <1>1, <3>5 DEF Step, Dump, Flush, Fill, Fsync, Replace, SkipSync
        <5> QED
          BY <5>1, <5>2, Fields, IdleFields
      <4> QED
        BY <4>1
    <3> QED
      BY <3>1, <3>2, <3>3, <3>4, <3>5
  <2> QED
    BY <2>3, <2>4 DEF Seen, TooOld
<1>2. CASE PowerLoss
  <2>1. \A v \in Writers : writer'[v].pc = "idle"
    BY <1>2, IdleFields DEF PowerLoss
  <2> QED
    BY <2>1 DEF Seen
<1>3. CASE Writeback \/ Tick \/ UNCHANGED vars
  BY <1>3 DEF Writeback, Tick, vars, fileVars, Seen, TooOld
<1> QED
  BY <1>1, <1>2, <1>3 DEF Next

\* A sweep leaves none of the files that were too old when it looked, however
\* many other writes and sweeps go on meanwhile, and whatever the clock skew.
THEOREM StaleCorrect == Spec => []StaleCleared
<1> DEFINE J == Inv /\ Touched /\ Seen
<1>1. Init => J
  <2> SUFFICES ASSUME Init PROVE Touched /\ Seen
    BY InitInv
  <2>1. \A w \in Writers : writer[w].pc = "idle"
    BY IdleFields DEF Init
  <2> QED
    BY <2>1 DEF Touched, Seen, Writing
<1>2. J /\ [Next]_vars => J'
  BY StepInv, TouchedStep, SeenStep DEF Inv
<1>3. J => StaleCleared
  BY DEF Seen, StaleCleared
<1> QED
  BY <1>1, <1>2, <1>3, PTL DEF Spec

\* While a write goes on, its file is there and was touched within MaxStall.
Fresh ==
    \A w \in Writers : writer[w].pc \in Writing =>
       /\ writer[w].inode \in dir.temps
       /\ clock - (mtime[writer[w].inode] + Skew) <= MaxStall

\* A sweep aims at what is older than MaxAge, and so at no such file.
Aimed ==
    \A w \in Writers :
       /\ writer[w].pc \in {"sweeping", "condemned"} => writer[w].cutoff <= Cutoff
       /\ writer[w].pc = "condemned" =>
            \A v \in Writers : writer[v].pc \in Writing =>
               writer[v].inode # writer[w].victim

\* A file in progress was touched within MaxStall.
LEMMA FreshStep ==
    ASSUME TypeOK, TypeOK', Known, Own, Touched, Fresh, Aimed, [Next]_vars
    PROVE  Fresh'
<1>0. /\ \A w \in Writers : writer[w].inode \in Old
      /\ nextInode \notin Old /\ Old \subseteq Inodes
      /\ mtime \in [Inodes -> Int] /\ mtime' \in [Inodes -> Int]
      /\ clock \in Int /\ Skew \in Int /\ MaxStall \in Nat
      /\ Writing \subseteq Trying /\ Stamp = clock - Skew /\ nextInode \in Int
  BY BoundsAssumption, AgeAssumption
  DEF TypeOK, Known, Old, Inodes, Trying, Stamp
<1>1. ASSUME NEW w \in Writers, Step(w) PROVE Fresh'
  <2>0. clock' = clock
    BY <1>1, Touches
  <2>1. ASSUME NEW v \in Writers, writer'[v].pc \in Writing,
               writer[v].pc \in Writing, writer'[v].inode = writer[v].inode
        PROVE  /\ writer[v].inode \in dir'.temps
               /\ clock - (mtime'[writer[v].inode] + Skew) <= MaxStall
    <3>1. clock - (mtime'[writer[v].inode] + Skew) <= MaxStall
      <4>1. mtime[writer[v].inode] <= mtime'[writer[v].inode]
        BY <1>0, <1>1, Touches
      <4>2. /\ mtime[writer[v].inode] \in Int /\ mtime'[writer[v].inode] \in Int
            /\ clock - (mtime[writer[v].inode] + Skew) <= MaxStall
        BY <1>0, <2>1 DEF Fresh
      <4> QED
        BY <1>0, <4>1, <4>2
    <3>2. writer[v].inode \in dir.temps
      BY <2>1 DEF Fresh
    <3>3. CASE Unlink(w)
      <4>1. writer[v].inode # writer[w].victim
        BY <2>1, <3>3 DEF Unlink, Aimed
      <4> QED
        BY <3>1, <3>2, <3>3, <4>1, DirChanges
    <3>4. CASE Replace(w) \/ Fail(w)
      <4>1. v # w
        <5>1. writer'[w].pc \notin Writing
          <6>1. CASE Replace(w)
            BY <6>1 DEF Replace, TypeOK, WriterStates, Writing
          <6>2. CASE Fail(w)
            BY <6>2, Fields, IdleFields DEF Writing
          <6> QED
            BY <3>4, <6>1, <6>2
        <5> QED
          BY <2>1, <5>1
      <4>2. writer[w].pc \in Trying => writer[v].inode # writer[w].inode
        BY <1>0, <2>1, <4>1 DEF Own
      <4>3. Replace(w) => writer[w].pc \in Trying
        BY DEF Replace, Trying, Writing
      <4> QED
        BY <3>1, <3>2, <3>4, <4>2, <4>3, DirChanges
    <3>5. CASE ~Unlink(w) /\ ~Replace(w) /\ ~Fail(w)
      BY <1>1, <3>1, <3>2, <3>5, DirChanges
    <3> QED
      BY <3>3, <3>4, <3>5
  <2>2. CASE Begin(w)
    <3>1. /\ writer'[w].inode = nextInode /\ nextInode \in dir'.temps
          /\ \A v \in Writers : v # w => writer'[v] = writer[v]
      BY <1>1, <2>2, Fields, DirChanges, OthersStay
    <3>2. mtime'[nextInode] = Stamp
      BY <1>1, <2>2, Touches
    <3>3. clock - (mtime'[nextInode] + Skew) <= MaxStall
      BY <1>0, <3>2
    <3> QED
      BY <2>0, <2>1, <3>1, <3>3 DEF Fresh
  <2>3. CASE ~Begin(w)
    <3>1. \A v \in Writers : writer'[v].pc \in Writing =>
             writer[v].pc \in Writing /\ writer'[v].inode = writer[v].inode
      BY <1>0, <1>1, <2>3, PlaceChanges, OthersStay
    <3> QED
      BY <2>0, <2>1, <3>1 DEF Fresh
  <2> QED
    BY <2>2, <2>3
<1>2. CASE PowerLoss
  <2>1. \A v \in Writers : writer'[v].pc = "idle"
    BY <1>2, IdleFields DEF PowerLoss
  <2> QED
    BY <2>1 DEF Fresh, Writing
<1>3. CASE Tick
  <2>1. ASSUME NEW v \in Writers, writer[v].pc \in Writing
        PROVE  clock + 1 - (mtime[writer[v].inode] + Skew) <= MaxStall
    <3>1. clock - (mtime[writer[v].inode] + Skew) < MaxStall
      BY <1>3, <2>1 DEF Tick
    <3>2. mtime[writer[v].inode] \in Int
      BY <1>0
    <3> QED
      BY <1>0, <3>1, <3>2
  <2>2. writer' = writer /\ dir' = dir /\ mtime' = mtime /\ clock' = clock + 1
    BY <1>3 DEF Tick, fileVars
  <2>3. \A v \in Writers : writer[v].pc \in Writing => writer[v].inode \in dir.temps
    BY DEF Fresh
  <2>4. ASSUME NEW v \in Writers, writer'[v].pc \in Writing
        PROVE  /\ writer'[v].inode \in dir'.temps
               /\ clock' - (mtime'[writer'[v].inode] + Skew) <= MaxStall
    <3>1. writer[v].pc \in Writing
      BY <2>2, <2>4
    <3>2. clock + 1 - (mtime[writer[v].inode] + Skew) <= MaxStall
      BY <2>1, <3>1
    <3>3. mtime[writer[v].inode] = mtime'[writer'[v].inode]
      BY <2>2
    <3>4. mtime[writer[v].inode] \in Int
      BY <1>0
    <3> QED
      BY <1>0, <2>2, <2>3, <3>1, <3>2, <3>3, <3>4
  <2> QED
    BY <2>4 DEF Fresh
<1>4. CASE Writeback \/ UNCHANGED vars
  BY <1>4 DEF Writeback, vars, fileVars, Fresh
<1> QED
  BY <1>1, <1>2, <1>3, <1>4 DEF Next

\* A sweep condemns no file of a write in progress.
LEMMA AimedStep ==
    ASSUME MaxStall + Skew <= MaxAge,
           TypeOK, Known, Fresh, Aimed, [Next]_vars
    PROVE  Aimed'
<1>0. /\ \A w \in Writers : writer[w].inode \in Old /\ writer[w].victim \in Old
      /\ nextInode \notin Old /\ clock \in Int /\ MaxAge \in Nat
      /\ Cutoff = clock - MaxAge
  BY BoundsAssumption, AgeAssumption DEF TypeOK, Known, Old, Cutoff
<1>1. ASSUME NEW w \in Writers, Step(w) PROVE Aimed'
  <2>1. Cutoff' = Cutoff
    <3>1. clock' = clock
      BY <1>1 DEF Step, Begin, Dump, Flush, Fill, Fsync, Replace, SyncDir, SkipSync,
                  Fail, Kill, List, Aim, Look, Unlink, Return
    <3> QED
      BY <3>1 DEF Cutoff
  \* Who is writing after the step wrote the same file before, or a new one.
  <2>2. ASSUME NEW v \in Writers, writer'[v].pc \in Writing
        PROVE  \/ writer'[v].inode = nextInode
               \/ writer[v].pc \in Writing /\ writer'[v].inode = writer[v].inode
    <3>1. CASE v # w
      BY <1>1, <2>2, <3>1, OthersStay
    <3>2. CASE v = w
      <4>1. CASE Begin(w)
        BY <3>2, <4>1, Fields
      <4>2. CASE ~Begin(w)
        BY <1>1, <2>2, <3>2, <4>2, PlaceChanges DEF Trying
      <4> QED
        BY <4>1, <4>2
    <3> QED
      BY <3>1, <3>2
  <2>3. ASSUME NEW u \in Writers,
               /\ writer[u].pc \in {"sweeping", "condemned"}
               /\ writer'[u].cutoff = writer[u].cutoff
               /\ writer'[u].pc = "condemned" =>
                    /\ writer[u].pc = "condemned"
                    /\ writer'[u].victim = writer[u].victim
        PROVE  /\ writer'[u].cutoff <= Cutoff'
               /\ writer'[u].pc = "condemned" =>
                    \A v \in Writers : writer'[v].pc \in Writing =>
                       writer'[v].inode # writer'[u].victim
    BY <1>0, <2>1, <2>2, <2>3 DEF Aimed
  <2>4. ASSUME NEW u \in Writers, u # w,
               writer'[u].pc \in {"sweeping", "condemned"}
        PROVE  /\ writer'[u].cutoff <= Cutoff'
               /\ writer'[u].pc = "condemned" =>
                    \A v \in Writers : writer'[v].pc \in Writing =>
                       writer'[v].inode # writer'[u].victim
    <3>1. writer'[u] = writer[u]
      BY <1>1, <2>4, OthersStay
    <3> QED
      BY <2>3, <2>4, <3>1
  <2>5. ASSUME writer'[w].pc \in {"sweeping", "condemned"}
        PROVE  /\ writer'[w].cutoff <= Cutoff'
               /\ writer'[w].pc = "condemned" =>
                    \A v \in Writers : writer'[v].pc \in Writing =>
                       writer'[v].inode # writer'[w].victim
    <3>1. CASE Aim(w)
      <4>1. writer'[w].pc = "sweeping" /\ writer'[w].cutoff = Cutoff
        BY <3>1, Fields
      <4>2. Cutoff \in Int
        BY <1>0
      <4> QED
        BY <2>1, <4>1, <4>2
    <3>2. CASE Unlink(w)
      <4>1. /\ writer' = [writer EXCEPT ![w].pc = "sweeping"]
            /\ writer[w].pc = "condemned"
        BY <3>2 DEF Unlink
      <4>2. writer'[w].pc = "sweeping" /\ writer'[w].cutoff = writer[w].cutoff
        BY <4>1 DEF TypeOK, WriterStates
      <4> QED
        BY <2>3, <4>1, <4>2
    <3>3. CASE Look(w)
      <4>1. PICK j \in writer[w].names :
               /\ writer'[w].pc = IF j \in dir.temps /\ TooOld(w, j)
                                  THEN "condemned" ELSE "sweeping"
               /\ writer'[w].victim = j
               /\ writer'[w].cutoff = writer[w].cutoff
        BY <3>3, Fields DEF Keeps
      <4>2. writer[w].pc = "sweeping"
        BY <3>3 DEF Look
      <4>3. CASE ~TooOld(w, j)
        BY <2>3, <4>1, <4>2, <4>3
      <4>4. CASE TooOld(w, j)
        <5>1. writer[w].cutoff <= clock - MaxAge /\ mtime[j] < writer[w].cutoff
          BY <1>0, <4>2, <4>4 DEF Aimed, TooOld
        <5>2. j \in Old /\ mtime[j] \in Int /\ writer[w].cutoff \in Int
          BY DEF Known, TypeOK, WriterStates
        <5>3. ASSUME NEW v \in Writers, writer[v].pc \in Writing
              PROVE  writer[v].inode # j
          <6>1. clock - (mtime[writer[v].inode] + Skew) <= MaxStall
            BY <5>3 DEF Fresh
          <6> QED
            BY <1>0, <5>1, <5>2, <6>1, AgeAssumption
        <5> QED
          BY <1>0, <2>1, <2>2, <4>1, <5>1, <5>2, <5>3
      <4> QED
        BY <4>3, <4>4
    <3>4. CASE ~Aim(w) /\ ~Unlink(w) /\ ~Look(w)
      <4>1. ASSUME NEW s, writer' = [writer EXCEPT ![w].pc = s]
            PROVE  writer'[w].pc = s
        BY <4>1, Fields
      <4>2. \/ Begin(w) \/ SyncDir(w) \/ List(w) \/ Return(w) \/ Fail(w) \/ Kill(w)
            \/ \E s \in {"dumping", "flushed", "fsynced", "replaced", "listing"} :
                  writer' = [writer EXCEPT ![w].pc = s]
        BY <1>1, <3>4 DEF Step, Dump, Flush, Fill, Fsync, Replace, SkipSync
      <4>3. writer'[w].pc \notin {"sweeping", "condemned"}
        BY <4>1, <4>2, Fields, IdleFields
      <4> QED
        BY <2>5, <4>3
    <3> QED
      BY <3>1, <3>2, <3>3, <3>4
  <2> QED
    BY <2>4, <2>5 DEF Aimed
<1>2. CASE PowerLoss
  <2>1. \A v \in Writers : writer'[v].pc = "idle"
    BY <1>2, IdleFields DEF PowerLoss
  <2> QED
    BY <2>1 DEF Aimed
<1>3. CASE Tick
  <2>1. writer' = writer /\ Cutoff' = Cutoff + 1
    BY <1>0, <1>3 DEF Tick, Cutoff
  <2>2. Cutoff \in Int /\ \A w \in Writers : writer[w].cutoff \in Int
    BY <1>0 DEF TypeOK, WriterStates
  <2> QED
    BY <2>1, <2>2 DEF Aimed
<1>4. CASE Writeback \/ UNCHANGED vars
  BY <1>4 DEF Writeback, vars, Aimed, Cutoff
<1> QED
  BY <1>1, <1>2, <1>3, <1>4 DEF Next

\* If no write leaves its file alone for longer than the age limit, less what
\* the file server's clock is behind, no sweep of any other process ever takes
\* a file away from a write that is still going on.
THEOREM TempCorrect ==
    ASSUME MaxStall + Skew <= MaxAge
    PROVE  Spec => []TempKept
<1> DEFINE J == Inv /\ Touched /\ Fresh /\ Aimed
<1>1. Init => J
  <2> SUFFICES ASSUME Init PROVE Touched /\ Fresh /\ Aimed
    BY InitInv
  <2>1. \A w \in Writers : writer[w].pc = "idle"
    BY IdleFields DEF Init
  <2> QED
    BY <2>1 DEF Touched, Fresh, Aimed, Writing
<1>2. J /\ [Next]_vars => J'
  BY StepInv, TouchedStep, FreshStep, AimedStep DEF Inv
<1>3. J => TempKept
  BY DEF Fresh, TempKept
<1> QED
  BY <1>1, <1>2, <1>3, PTL DEF Spec
============================================================================
