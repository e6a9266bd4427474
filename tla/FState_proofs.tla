---------------------------- MODULE FState_proofs ----------------------------
(***************************************************************************)
(* For any harts, tasks and values, and signal frames nested to any depth, *)
(* lazy saving by sstatus.FS and SD loses no program's FP registers.       *)
(***************************************************************************)
EXTENDS FState, SequenceTheorems, TLAPS

Record == [fpregs : Files, ctx : Promise \X Promise]

\* A task runs on one hart at most, and on none before it is born.
PlaceInv ==
    /\ \A g, h \in Harts : g # h /\ cur[g] = cur[h] => cur[g] = Swapper
    /\ \A h \in Harts : cur[h] \in Threads => where[cur[h]] \notin {"none", "embryo"}

\* While FS is not dirty, or was not at the last trap (SD), the program and
\* what its handlers interrupted have been promised nothing: nothing is lost
\* when fstate_save is skipped.
FreshInv ==
    \A t \in Threads :
        fs[t] # Dirty \/ (where[t] # "user" /\ ~sd[t]) =>
            /\ mine[t] = File(Unset)
            /\ \A n \in 1..Len(sigframes[t]) : sigframes[t][n].ctx = File(Unset)

\* The registers are those of the task that runs, from the trap to the return,
\* whatever the kernel does for it in between; exec gives them up.
RegInv ==
    \A h \in Harts : cur[h] \in Threads /\ where[cur[h]] # "flushed" =>
        Keeps(reg[h], mine[cur[h]])

\* A task that runs nowhere has its registers in fstate.
SavedInv ==
    \A t \in Threads :
        where[t] \in KernelModes \ {"flushed"} /\ (\A h \in Harts : cur[h] # t) =>
            Keeps(fstate[t], mine[t])

\* The child being made has its parent's state, and no other parent.
ForkInv ==
    /\ \A t \in Threads : where[t] = "forking" =>
          where[child[t]] = "embryo" /\ Keeps(fstate[child[t]], mine[t])
    /\ \A t, u \in Threads : t # u /\ where[t] = "forking" /\ where[u] = "forking" =>
          child[t] # child[u]

KeepsHalf(file, p, i) == p[i] # Unset => file[i] = p[i]

\* A frame half written: the rest of it is in fstate, even if a switch put it
\* there.  A frame half restored: the first half is in fstate, unless torn.
HalfInv ==
    \A t \in Threads :
        LET f == Last(sigframes[t])
        IN /\ where[t] = "delivering" =>
                 /\ sigframes[t] # <<>> /\ f.ctx = mine[t]
                 /\ KeepsHalf(f.fpregs, f.ctx, 1) /\ Keeps(fstate[t], f.ctx)
           /\ where[t] = "restoring" =>
                 /\ sigframes[t] # <<>>
                 /\ torn[t] \/ KeepsHalf(fstate[t], f.ctx, 1)

\* Every frame that is complete holds what the signal interrupted.
FrameInv ==
    \A t \in Threads : \A n \in 1..Len(sigframes[t]) :
        \/ where[t] = "delivering" /\ n = Len(sigframes[t])
        \/ Keeps(sigframes[t][n].fpregs, sigframes[t][n].ctx)

IInv == /\ FpTypeOK /\ PlaceInv /\ FreshInv /\ RegInv /\ SavedInv /\ ForkInv
        /\ HalfInv /\ FrameInv

USE FStateAssumption DEF ctx, At, GoTo, Off, Initial, Clean, Dirty

-----------------------------------------------------------------------------
\* Register files, promises and sequences of frames.

LEMMA FileType ==
  /\ \A v \in Values : File(v) \in Files /\ File(v) \in Promise \X Promise
  /\ File(Unset) \in Promise \X Promise
  BY DEF File, Files, Promise

\* Overwriting one half of a register file.
LEMMA HalfType ==
  ASSUME NEW file \in Files, NEW v \in Values
  PROVE  /\ file[1] \in Values /\ file[2] \in Values
         /\ [file EXCEPT ![1] = v] \in Files /\ [file EXCEPT ![2] = v] \in Files
         /\ [file EXCEPT ![1] = v][1] = v /\ [file EXCEPT ![1] = v][2] = file[2]
         /\ [file EXCEPT ![2] = v][2] = v /\ [file EXCEPT ![2] = v][1] = file[1]
         /\ <<file[1], v>> \in Files
  BY DEF Files

LEMMA KeepsHalves ==
  ASSUME NEW file, NEW p
  PROVE  Keeps(file, p) <=> KeepsHalf(file, p, 1) /\ KeepsHalf(file, p, 2)
  BY DEF Keeps, KeepsHalf

\* Nothing promised is kept by anything.
LEMMA KeepsUnset ==
  ASSUME NEW file
  PROVE  Keeps(file, File(Unset))
  BY DEF Keeps, File

LEMMA KeepsFile ==
  ASSUME NEW v
  PROVE  Keeps(File(v), File(v))
  BY DEF Keeps, File

LEMMA AppendFacts ==
  ASSUME NEW q \in Seq(Record), NEW r \in Record
  PROVE  /\ Append(q, r) \in Seq(Record) /\ Append(q, r) # <<>>
         /\ Len(Append(q, r)) = Len(q) + 1 /\ Last(Append(q, r)) = r
         /\ Append(q, r)[Len(q) + 1] = r
         /\ \A n \in 1..Len(q) : Append(q, r)[n] = q[n]
  BY DEF Last

LEMMA FrontFacts ==
  ASSUME NEW q \in Seq(Record), q # <<>>
  PROVE  /\ Front(q) \in Seq(Record) /\ Len(Front(q)) = Len(q) - 1
         /\ \A n \in 1..(Len(q) - 1) : Front(q)[n] = q[n]
         /\ Len(q) \in 1..Len(q) /\ Last(q) = q[Len(q)] /\ Last(q) \in Record
  <1>1. Len(q) \in Nat \ {0} /\ \A n \in 1..Len(q) : q[n] \in Record
    BY EmptySeq, LenProperties
  <1>2. /\ Front(q) \in Seq(Record) /\ Len(Front(q)) = Len(q) - 1
        /\ \A n \in 1..(Len(q) - 1) : Front(q)[n] = q[n]
    <2> DEFINE m == Len(q) - 1
    <2>1. m \in Nat /\ 1 \in Int /\ \A n \in 1..m : q[n] \in Record BY <1>1
    <2> HIDE DEF m
    <2>2. /\ SubSeq(q, 1, m) \in Seq(Record)
          /\ Len(SubSeq(q, 1, m)) = IF 1 <= m THEN m - 1 + 1 ELSE 0
          /\ \A n \in 1..(m - 1 + 1) : SubSeq(q, 1, m)[n] = q[1 + n - 1]
      BY <2>1, SubSeqProperties
    <2>3. \A n \in 1..m : SubSeq(q, 1, m)[n] = q[n] BY <2>1, <2>2
    <2>4. Front(q) = SubSeq(q, 1, m) BY DEF Front, m
    <2>5. Len(SubSeq(q, 1, m)) = m BY <2>1, <2>2
    <2> QED BY ONLY <2>2, <2>3, <2>4, <2>5 DEF m
  <1> QED BY <1>1, <1>2 DEF Last

LEMMA InitIInv == FpInit => IInv
  <1> SUFFICES ASSUME FpInit PROVE IInv OBVIOUS
  <1> USE DEF FpInit
  <1>1. FpTypeOK
    <2>1. reg \in [Harts -> Files] /\ fstate \in [Threads -> Files]
      BY FileType
    <2>2. sigframes \in [Threads -> Seq(Record)] /\ mine \in [Threads -> Promise \X Promise]
      BY FileType
    <2>3. fs \in [Threads -> Off..Dirty] OBVIOUS
    <2>4. where \in [Threads -> KernelModes \cup {"none", "embryo", "user"}]
      BY DEF KernelModes
    <2> QED BY <2>1, <2>2, <2>3, <2>4 DEF FpTypeOK, Record
  <1>2. PlaceInv BY DEF PlaceInv
  <1>3. FreshInv BY DEF FreshInv
  <1>4. RegInv /\ SavedInv
    BY KeepsUnset DEF RegInv, SavedInv
  <1>5. ForkInv /\ HalfInv /\ FrameInv
    BY DEF ForkInv, HalfInv, FrameInv
  <1> QED BY <1>1, <1>2, <1>3, <1>4, <1>5 DEF IInv

-----------------------------------------------------------------------------
\* The steps.

LEMMA ComputeKeeps ==
  ASSUME IInv, NEW h \in Harts, NEW v \in Values, Compute(h, v)
  PROVE  IInv'
  <1> USE DEF IInv, Compute
  <1>1. FpTypeOK'
    <2>1. File(v) \in Files /\ File(v) \in Promise \X Promise BY FileType
    <2>2. reg' \in [Harts -> Files] /\ mine' \in [Threads -> Promise \X Promise]
      BY <2>1 DEF FpTypeOK
    <2>3. fs' \in [Threads -> Off..Dirty] BY DEF FpTypeOK
    <2> QED BY <2>2, <2>3 DEF FpTypeOK
  <1>2. PlaceInv'
    BY DEF FpTypeOK, PlaceInv, KernelModes
  <1>3. FreshInv'
    BY DEF FpTypeOK, PlaceInv, FreshInv, Cleaned
  <1>4. RegInv'
    BY KeepsFile DEF FpTypeOK, PlaceInv, RegInv
  <1>5. SavedInv'
    BY DEF FpTypeOK, PlaceInv, SavedInv, KernelModes
  <1>6. ForkInv'
    BY DEF FpTypeOK, PlaceInv, ForkInv
  <1>7. HalfInv'
    BY DEF FpTypeOK, PlaceInv, HalfInv
  <1>8. FrameInv'
    BY DEF FpTypeOK, PlaceInv, FrameInv
  <1> QED BY <1>1, <1>2, <1>3, <1>4, <1>5, <1>6, <1>7, <1>8

LEMMA TrapKeeps ==
  ASSUME IInv, NEW h \in Harts, UserTrap(h)
  PROVE  IInv'
  <1> USE DEF IInv, UserTrap
  <1>1. FpTypeOK'
    BY DEF FpTypeOK, KernelModes
  <1>2. PlaceInv'
    BY DEF FpTypeOK, PlaceInv, KernelModes
  <1>3. FreshInv'
    BY DEF FpTypeOK, PlaceInv, FreshInv, Cleaned
  <1>4. RegInv'
    BY DEF FpTypeOK, PlaceInv, RegInv
  <1>5. SavedInv'
    BY DEF FpTypeOK, PlaceInv, SavedInv, KernelModes
  <1>6. ForkInv'
    BY DEF FpTypeOK, PlaceInv, ForkInv
  <1>7. HalfInv'
    BY DEF FpTypeOK, PlaceInv, HalfInv
  <1>8. FrameInv'
    BY DEF FpTypeOK, PlaceInv, FrameInv
  <1> QED BY <1>1, <1>2, <1>3, <1>4, <1>5, <1>6, <1>7, <1>8

LEMMA ReturnToUserKeeps ==
  ASSUME IInv, NEW h \in Harts, RestoreAll(h)
  PROVE  IInv'
  <1> USE DEF IInv, RestoreAll
  <1>1. FpTypeOK'
    BY DEF FpTypeOK, KernelModes
  <1>2. PlaceInv'
    BY DEF FpTypeOK, PlaceInv, KernelModes
  <1>3. FreshInv'
    BY DEF FpTypeOK, PlaceInv, FreshInv, Cleaned
  <1>4. RegInv'
    BY DEF FpTypeOK, PlaceInv, RegInv
  <1>5. SavedInv'
    BY DEF FpTypeOK, PlaceInv, SavedInv, KernelModes
  <1>6. ForkInv'
    BY DEF FpTypeOK, PlaceInv, ForkInv
  <1>7. HalfInv'
    BY DEF FpTypeOK, PlaceInv, HalfInv
  <1>8. FrameInv'
    BY DEF FpTypeOK, PlaceInv, FrameInv
  <1> QED BY <1>1, <1>2, <1>3, <1>4, <1>5, <1>6, <1>7, <1>8

LEMMA DupTaskStructKeeps ==
  ASSUME IInv, NEW h \in Harts, NEW c \in Threads, DupTaskStruct(h, c)
  PROVE  IInv'
  <1> USE DEF IInv, DupTaskStruct
  <1>1. FpTypeOK'
    <2>1. SavedForFork(h) \in Files BY DEF FpTypeOK, SavedForFork
    <2>2. fstate' \in [Threads -> Files] BY <2>1 DEF FpTypeOK
    <2>3. fs' \in [Threads -> Off..Dirty] BY DEF FpTypeOK, Cleaned
    <2>4. where' \in [Threads -> KernelModes \cup {"none", "embryo", "user"}]
      BY DEF FpTypeOK, KernelModes
    <2> QED BY <2>2, <2>3, <2>4 DEF FpTypeOK
  <1>2. PlaceInv'
    BY DEF FpTypeOK, PlaceInv, KernelModes
  <1>3. FreshInv'
    BY DEF FpTypeOK, PlaceInv, FreshInv, Cleaned
  <1>4. RegInv'
    BY DEF FpTypeOK, PlaceInv, RegInv
  <1>5. SavedInv'
    BY DEF FpTypeOK, PlaceInv, SavedInv, KernelModes
  <1>6. ForkInv'
    <2>1. Keeps(SavedForFork(h), mine[cur[h]])
      BY KeepsUnset DEF FpTypeOK, RegInv, FreshInv, SavedForFork, Saves
    <2>2. c # cur[h] /\ \A u \in Threads : where[u] = "forking" => child[u] # c
      BY DEF ForkInv
    <2> QED BY <2>1, <2>2 DEF FpTypeOK, ForkInv
  <1>7. HalfInv'
    BY DEF FpTypeOK, PlaceInv, HalfInv
  <1>8. FrameInv'
    BY DEF FpTypeOK, PlaceInv, FrameInv
  <1> QED BY <1>1, <1>2, <1>3, <1>4, <1>5, <1>6, <1>7, <1>8

LEMMA CopyThreadKeeps ==
  ASSUME IInv, NEW h \in Harts, CopyThread(h)
  PROVE  IInv'
  <1> USE DEF IInv, CopyThread
  <1> DEFINE t == cur[h]
             c == child[cur[h]]
  <1>1. /\ t \in Threads /\ c \in Threads /\ c # t /\ where[c] = "embryo"
        /\ \A g \in Harts : cur[g] # c
        /\ Keeps(fstate[c], mine[t])
    BY DEF FpTypeOK, PlaceInv, ForkInv
  <1>2. FpTypeOK'
    BY DEF FpTypeOK, KernelModes
  <1>3. PlaceInv'
    BY DEF FpTypeOK, PlaceInv, KernelModes
  <1>4. FreshInv'
    BY DEF FpTypeOK, PlaceInv, FreshInv, Cleaned
  <1>5. RegInv'
    BY <1>1 DEF FpTypeOK, PlaceInv, RegInv
  <1>6. SavedInv'
    <2> SUFFICES ASSUME NEW u \in Threads, where'[u] \in KernelModes \ {"flushed"},
                        \A g \in Harts : cur[g] # u
                 PROVE  Keeps(fstate[u], mine'[u])
      BY DEF SavedInv
    <2>1. CASE u = c BY <1>1, <2>1 DEF FpTypeOK
    <2>2. CASE u # c BY <1>1, <2>2 DEF FpTypeOK, SavedInv
    <2> QED BY <2>1, <2>2
  <1>7. ForkInv'
    BY DEF FpTypeOK, PlaceInv, ForkInv
  <1>8. HalfInv'
    BY DEF FpTypeOK, PlaceInv, HalfInv
  <1>9. FrameInv'
    BY DEF FpTypeOK, PlaceInv, FrameInv
  <1> QED BY <1>2, <1>3, <1>4, <1>5, <1>6, <1>7, <1>8, <1>9

LEMMA FlushThreadKeeps ==
  ASSUME IInv, NEW h \in Harts, FlushThread(h)
  PROVE  IInv'
  <1> USE DEF IInv, FlushThread
  <1>1. FpTypeOK'
    BY FileType DEF FpTypeOK, KernelModes
  <1>2. PlaceInv'
    BY DEF FpTypeOK, PlaceInv, KernelModes
  <1>3. FreshInv'
    BY DEF FpTypeOK, PlaceInv, FreshInv, Cleaned
  <1>4. RegInv'
    BY DEF FpTypeOK, PlaceInv, RegInv
  <1>5. SavedInv'
    BY DEF FpTypeOK, PlaceInv, SavedInv, KernelModes
  <1>6. ForkInv'
    BY DEF FpTypeOK, PlaceInv, ForkInv
  <1>7. HalfInv'
    BY DEF FpTypeOK, PlaceInv, HalfInv
  <1>8. FrameInv'
    BY DEF FpTypeOK, PlaceInv, FrameInv
  <1> QED BY <1>1, <1>2, <1>3, <1>4, <1>5, <1>6, <1>7, <1>8

LEMMA StartThreadKeeps ==
  ASSUME IInv, NEW h \in Harts, StartThreadFp(h)
  PROVE  IInv'
  <1> USE DEF IInv, StartThreadFp
  <1>1. FpTypeOK'
    <2>1. sigframes \in [Threads -> Seq(Record)] BY DEF FpTypeOK, Record
    <2>2. sigframes' \in [Threads -> Seq(Record)]
      <3>1. <<>> \in Seq(Record) BY EmptySeq
      <3> QED BY <2>1, <3>1
    <2>3. mine' \in [Threads -> Promise \X Promise] BY FileType DEF FpTypeOK
    <2>4. fs' \in [Threads -> Off..Dirty] /\ sd' \in [Threads -> BOOLEAN] BY DEF FpTypeOK
    <2>5. where' \in [Threads -> KernelModes \cup {"none", "embryo", "user"}]
      BY DEF FpTypeOK, KernelModes
    <2> QED BY <2>2, <2>3, <2>4, <2>5 DEF FpTypeOK, Record
  <1>2. PlaceInv'
    BY DEF FpTypeOK, PlaceInv, KernelModes
  <1>3. FreshInv'
    BY DEF FpTypeOK, PlaceInv, FreshInv, Cleaned
  <1>4. RegInv'
    BY KeepsUnset DEF FpTypeOK, PlaceInv, RegInv
  <1>5. SavedInv'
    BY DEF FpTypeOK, PlaceInv, SavedInv, KernelModes
  <1>6. ForkInv'
    BY DEF FpTypeOK, PlaceInv, ForkInv
  <1>7. HalfInv'
    BY DEF FpTypeOK, PlaceInv, HalfInv
  <1>8. FrameInv'
    BY DEF FpTypeOK, PlaceInv, FrameInv
  <1> QED BY <1>1, <1>2, <1>3, <1>4, <1>5, <1>6, <1>7, <1>8

LEMMA SetupSigcontextKeeps ==
  ASSUME IInv, NEW h \in Harts, SetupSigcontext(h)
  PROVE  IInv'
  <1> USE DEF IInv, SetupSigcontext
  <1> DEFINE t == cur[h]
             r == [fpregs |-> <<fstate'[t][1], Reset>>, ctx |-> mine[t]]
  <1>1. /\ t \in Threads /\ sigframes[t] \in Seq(Record) /\ fstate'[t] \in Files
        /\ r \in Record
        /\ sigframes' = [sigframes EXCEPT ![t] = Append(sigframes[t], r)]
        /\ sigframes \in [Threads -> Seq(Record)]
    <2>1. t \in Threads /\ sigframes[t] \in Seq(Record) /\ fstate'[t] \in Files
      BY DEF FpTypeOK, Record
    <2> QED BY <2>1, HalfType DEF FpTypeOK, Record
  <1>2. /\ sigframes'[t] # <<>> /\ Last(sigframes'[t]) = r
        /\ Len(sigframes'[t]) = Len(sigframes[t]) + 1
        /\ \A n \in 1..Len(sigframes[t]) : sigframes'[t][n] = sigframes[t][n]
        /\ sigframes'[t][Len(sigframes[t]) + 1] = r
        /\ \A u \in Threads \ {t} : sigframes'[u] = sigframes[u]
        /\ sigframes' \in [Threads -> Seq(Record)]
    <2>1. Append(sigframes[t], r) \in Seq(Record) BY <1>1, AppendFacts
    <2>2. sigframes' \in [Threads -> Seq(Record)] /\ sigframes'[t] = Append(sigframes[t], r)
      BY ONLY <1>1, <2>1
    <2>3. \A u \in Threads \ {t} : sigframes'[u] = sigframes[u]
      BY ONLY <1>1
    <2> HIDE DEF r
    <2>4. /\ Append(sigframes[t], r) # <<>> /\ Len(Append(sigframes[t], r)) = Len(sigframes[t]) + 1
          /\ Last(Append(sigframes[t], r)) = r /\ Append(sigframes[t], r)[Len(sigframes[t]) + 1] = r
          /\ \A n \in 1..Len(sigframes[t]) : Append(sigframes[t], r)[n] = sigframes[t][n]
      BY ONLY <1>1, AppendFacts
    <2> QED BY ONLY <2>2, <2>3, <2>4
  <1>3. Keeps(fstate'[t], mine[t])
    BY <1>1, KeepsUnset DEF FpTypeOK, RegInv, FreshInv, Saves
  <1>4. FpTypeOK'
    <2>1. fstate' \in [Threads -> Files] BY DEF FpTypeOK
    <2>2. fs' \in [Threads -> Off..Dirty] BY DEF FpTypeOK, Cleaned
    <2>3. where' \in [Threads -> KernelModes \cup {"none", "embryo", "user"}]
      BY DEF FpTypeOK, KernelModes
    <2> QED BY <1>2, <2>1, <2>2, <2>3 DEF FpTypeOK, Record
  <1>5. PlaceInv'
    BY DEF FpTypeOK, PlaceInv, KernelModes
  <1>6. FreshInv'
    <2> SUFFICES ASSUME NEW u \in Threads,
                        fs'[u] # Dirty \/ (where'[u] # "user" /\ ~sd'[u])
                 PROVE  /\ mine[u] = File(Unset)
                        /\ \A n \in 1..Len(sigframes'[u]) : sigframes'[u][n].ctx = File(Unset)
      BY DEF FreshInv
    <2>1. /\ mine[u] = File(Unset)
          /\ \A n \in 1..Len(sigframes[u]) : sigframes[u][n].ctx = File(Unset)
      BY <1>1 DEF FpTypeOK, FreshInv, Cleaned
    <2> QED BY <2>1, <1>1, <1>2
  <1>7. RegInv'
    BY DEF FpTypeOK, PlaceInv, RegInv
  <1>8. SavedInv'
    BY DEF FpTypeOK, PlaceInv, SavedInv, KernelModes
  <1>9. ForkInv'
    BY DEF FpTypeOK, PlaceInv, ForkInv
  <1>10. HalfInv'
    <2>1. /\ Last(sigframes'[t]).ctx = mine[t]
          /\ KeepsHalf(Last(sigframes'[t]).fpregs, mine[t], 1)
          /\ Keeps(fstate'[t], mine[t])
      <3>1. Last(sigframes'[t]).ctx = mine[t] /\ Last(sigframes'[t]).fpregs[1] = fstate'[t][1]
        BY <1>2
      <3> QED BY <1>3, <3>1, KeepsHalves DEF KeepsHalf
    <2>2. \A u \in Threads \ {t} :
            fstate'[u] = fstate[u] /\ where'[u] = where[u] /\ sigframes'[u] = sigframes[u]
      BY <1>1, <1>2 DEF FpTypeOK
    <2>3. where'[t] = "delivering" BY DEF FpTypeOK
    <2> QED BY ZenonT(60), <1>2, <2>1, <2>2, <2>3 DEF HalfInv
  <1>11. FrameInv'
    BY <1>1, <1>2 DEF FpTypeOK, FrameInv
  <1> QED BY <1>4, <1>5, <1>6, <1>7, <1>8, <1>9, <1>10, <1>11

LEMMA SetupRestKeeps ==
  ASSUME IInv, NEW h \in Harts, SetupRest(h)
  PROVE  IInv'
  <1> USE DEF IInv, SetupRest
  <1> DEFINE t == cur[h]
             f == Last(sigframes[t])
             r == [f EXCEPT !.fpregs = [@ EXCEPT ![2] = fstate[t][2]]]
  <1>1. /\ t \in Threads /\ sigframes[t] \in Seq(Record) /\ fstate[t] \in Files
        /\ sigframes[t] # <<>> /\ f.ctx = mine[t]
        /\ KeepsHalf(f.fpregs, f.ctx, 1) /\ Keeps(fstate[t], f.ctx)
        /\ sigframes \in [Threads -> Seq(Record)]
    BY DEF FpTypeOK, Record, HalfInv
  <1>2. f \in Record /\ Len(sigframes[t]) \in 1..Len(sigframes[t])
                     /\ f = sigframes[t][Len(sigframes[t])]
    BY <1>1, FrontFacts
  <1>3. r \in Record /\ r.ctx = f.ctx /\ Keeps(r.fpregs, r.ctx)
    <2>1. f.fpregs \in Files /\ fstate[t][2] \in Values BY <1>1, <1>2, HalfType DEF Record
    <2>2. [f.fpregs EXCEPT ![2] = fstate[t][2]] \in Files BY <2>1, HalfType
    <2>3. r \in Record /\ r.ctx = f.ctx /\ r.fpregs = [f.fpregs EXCEPT ![2] = fstate[t][2]]
      BY <1>2, <2>2 DEF Record
    <2>4. r.fpregs[1] = f.fpregs[1] /\ r.fpregs[2] = fstate[t][2]
      <3> HIDE DEF r, f
      <3> QED BY ONLY <2>1, <2>3 DEF Files
    <2>5. KeepsHalf(r.fpregs, f.ctx, 1) /\ KeepsHalf(r.fpregs, f.ctx, 2)
      BY ONLY <1>1, <2>4, KeepsHalves DEF KeepsHalf
    <2> QED BY <2>3, <2>5, KeepsHalves
  <1>4. sigframes' = [sigframes EXCEPT ![t] = [@ EXCEPT ![Len(sigframes[t])] = r]]
    BY <1>1, <1>2 DEF Last
  <1>5. /\ sigframes' \in [Threads -> Seq(Record)] /\ Len(sigframes'[t]) = Len(sigframes[t])
        /\ sigframes'[t][Len(sigframes[t])] = r
        /\ \A n \in 1..(Len(sigframes[t]) - 1) : sigframes'[t][n] = sigframes[t][n]
        /\ \A u \in Threads \ {t} : sigframes'[u] = sigframes[u]
    <2> DEFINE q == [sigframes[t] EXCEPT ![Len(sigframes[t])] = r]
    <2> HIDE DEF r, f
    <2>1. /\ q \in Seq(Record) /\ Len(q) = Len(sigframes[t]) /\ q[Len(sigframes[t])] = r
          /\ \A n \in 1..(Len(sigframes[t]) - 1) : q[n] = sigframes[t][n]
      <3>1. /\ q \in Seq(Record) /\ Len(q) = Len(sigframes[t])
            /\ \A n \in 1..Len(sigframes[t]) :
                  q[n] = IF n = Len(sigframes[t]) THEN r ELSE sigframes[t][n]
        BY ONLY <1>1, <1>2, <1>3, ExceptSeq
      <3>2. Len(sigframes[t]) \in Nat BY <1>1, LenProperties
      <3> HIDE DEF q
      <3> QED BY ONLY <1>2, <3>1, <3>2
    <2> HIDE DEF q
    <2>2. sigframes' = [sigframes EXCEPT ![t] = q] BY <1>4 DEF q
    <2>3. sigframes' \in [Threads -> Seq(Record)] /\ sigframes'[t] = q
      BY ONLY <1>1, <2>1, <2>2
    <2>4. \A u \in Threads \ {t} : sigframes'[u] = sigframes[u] BY ONLY <1>1, <2>2
    <2> QED BY ONLY <2>1, <2>3, <2>4
  <1>6. FpTypeOK'
    BY <1>5 DEF FpTypeOK, KernelModes, Record
  <1>7. PlaceInv'
    BY DEF FpTypeOK, PlaceInv, KernelModes
  <1>8. FreshInv'
    <2> SUFFICES ASSUME NEW u \in Threads,
                        fs[u] # Dirty \/ (where'[u] # "user" /\ ~sd[u])
                 PROVE  /\ mine[u] = File(Unset)
                        /\ \A n \in 1..Len(sigframes'[u]) : sigframes'[u][n].ctx = File(Unset)
      BY DEF FreshInv
    <2>1. /\ mine[u] = File(Unset)
          /\ \A n \in 1..Len(sigframes[u]) : sigframes[u][n].ctx = File(Unset)
      BY <1>1 DEF FpTypeOK, FreshInv
    <2>2. CASE u = t
      <3>1. r.ctx = File(Unset) BY <1>2, <1>3, <2>1, <2>2
      <3>2. Len(sigframes[t]) \in Nat BY <1>1, LenProperties
      <3> HIDE DEF r, f
      <3> QED BY ONLY <1>5, <2>1, <2>2, <3>1, <3>2
    <2> QED BY <1>5, <2>1, <2>2
  <1>9. RegInv'
    BY DEF FpTypeOK, PlaceInv, RegInv
  <1>10. SavedInv'
    BY DEF FpTypeOK, PlaceInv, SavedInv, KernelModes
  <1>11. ForkInv'
    BY DEF FpTypeOK, PlaceInv, ForkInv
  <1>12. HalfInv'
    BY <1>1, <1>5 DEF FpTypeOK, HalfInv
  <1>13. FrameInv'
    <2> SUFFICES ASSUME NEW u \in Threads, NEW n \in 1..Len(sigframes'[u])
                 PROVE  \/ where'[u] = "delivering" /\ n = Len(sigframes'[u])
                        \/ Keeps(sigframes'[u][n].fpregs, sigframes'[u][n].ctx)
      BY DEF FrameInv
    <2>1. \A k \in 1..Len(sigframes[u]) :
             \/ where[u] = "delivering" /\ k = Len(sigframes[u])
             \/ Keeps(sigframes[u][k].fpregs, sigframes[u][k].ctx)
      BY DEF FrameInv
    <2>2. CASE u # t
      <3>1. sigframes'[u] = sigframes[u] /\ where'[u] = where[u] BY <1>1, <1>5, <2>2 DEF FpTypeOK
      <3> QED BY <2>1, <3>1
    <2>3. CASE u = t
      <3>1. CASE n = Len(sigframes[t]) BY <1>3, <1>5, <2>3, <3>1
      <3>2. CASE n # Len(sigframes[t])
        <4>1. n \in 1..Len(sigframes[t]) BY <1>5, <2>3
        <4>2. n \in 1..(Len(sigframes[t]) - 1) /\ Len(sigframes[t]) \in Nat BY <1>2, <3>2, <4>1
        <4>3. sigframes'[t][n] = sigframes[t][n] BY <1>5, <4>2
        <4> QED BY <2>1, <2>3, <3>2, <4>1, <4>3
      <3> QED BY <3>1, <3>2
    <2> QED BY <2>2, <2>3
  <1> QED BY <1>6, <1>7, <1>8, <1>9, <1>10, <1>11, <1>12, <1>13

LEMMA RestoreSigcontextKeeps ==
  ASSUME IInv, NEW h \in Harts, RestoreSigcontext(h)
  PROVE  IInv'
  <1> USE DEF IInv, RestoreSigcontext
  <1> DEFINE t == cur[h]
             f == Last(sigframes[t])
  <1>1. /\ t \in Threads /\ f \in Record /\ Len(sigframes[t]) \in 1..Len(sigframes[t])
        /\ f = sigframes[t][Len(sigframes[t])] /\ fstate[t] \in Files
    BY FrontFacts DEF FpTypeOK, Record
  <1>2. f.fpregs[1] \in Values /\ fstate'[t] \in Files /\ fstate'[t][1] = f.fpregs[1]
    <2>1. f.fpregs[1] \in Values BY <1>1, HalfType DEF Record
    <2>2. fstate' = [fstate EXCEPT ![t] = [fstate[t] EXCEPT ![1] = f.fpregs[1]]]
      OBVIOUS
    <2>3. fstate'[t] = [fstate[t] EXCEPT ![1] = f.fpregs[1]]
      BY <1>1, <2>2 DEF FpTypeOK
    <2>4. fstate'[t] \in Files /\ fstate'[t][1] = f.fpregs[1]
      <3> HIDE DEF f
      <3> QED BY ONLY <1>1, <2>1, <2>3 DEF Files
    <2> QED BY <2>1, <2>4
  <1>3. FpTypeOK'
    <2>1. fstate' \in [Threads -> Files] BY <1>1, <1>2 DEF FpTypeOK
    <2> QED BY <2>1 DEF FpTypeOK, KernelModes
  <1>4. PlaceInv'
    BY DEF FpTypeOK, PlaceInv, KernelModes
  <1>5. FreshInv'
    BY DEF FpTypeOK, PlaceInv, FreshInv, Cleaned
  <1>6. RegInv'
    BY DEF FpTypeOK, PlaceInv, RegInv
  <1>7. SavedInv'
    BY DEF FpTypeOK, PlaceInv, SavedInv, KernelModes
  <1>8. ForkInv'
    BY DEF FpTypeOK, PlaceInv, ForkInv
  <1>9. HalfInv'
    <2>1. KeepsHalf(fstate'[t], f.ctx, 1)
      BY <1>1, <1>2 DEF FrameInv, Keeps, KeepsHalf
    <2> QED BY <1>1, <2>1 DEF FpTypeOK, HalfInv
  <1>10. FrameInv'
    BY DEF FpTypeOK, PlaceInv, FrameInv
  <1> QED BY <1>3, <1>4, <1>5, <1>6, <1>7, <1>8, <1>9, <1>10

LEMMA RestoreRestKeeps ==
  ASSUME IInv, NEW h \in Harts, RestoreRest(h)
  PROVE  IInv'
  <1> USE DEF IInv, RestoreRest
  <1> DEFINE t == cur[h]
             f == Last(sigframes[t])
  <1>1. /\ t \in Threads /\ sigframes[t] \in Seq(Record) /\ sigframes[t] # <<>>
        /\ fstate[t] \in Files
        /\ torn[t] \/ KeepsHalf(fstate[t], f.ctx, 1)
    BY DEF FpTypeOK, Record, HalfInv
  <1>2. /\ f \in Record /\ Len(sigframes[t]) \in 1..Len(sigframes[t])
        /\ f = sigframes[t][Len(sigframes[t])]
        /\ Front(sigframes[t]) \in Seq(Record) /\ Len(Front(sigframes[t])) = Len(sigframes[t]) - 1
        /\ \A n \in 1..(Len(sigframes[t]) - 1) : Front(sigframes[t])[n] = sigframes[t][n]
        /\ Keeps(f.fpregs, f.ctx)
    BY <1>1, FrontFacts DEF FrameInv
  <1>3. /\ fstate'[t] \in Files /\ fstate'[t][1] = fstate[t][1] /\ fstate'[t][2] = f.fpregs[2]
        /\ fstate' \in [Threads -> Files]
    <2>1. f.fpregs[2] \in Values BY <1>2, HalfType DEF Record
    <2>2. fstate' = [fstate EXCEPT ![t] = [fstate[t] EXCEPT ![2] = f.fpregs[2]]]
      OBVIOUS
    <2>3. fstate'[t] = [fstate[t] EXCEPT ![2] = f.fpregs[2]]
      BY <1>1, <2>2 DEF FpTypeOK
    <2>4. fstate'[t] \in Files /\ fstate'[t][1] = fstate[t][1] /\ fstate'[t][2] = f.fpregs[2]
      <3> HIDE DEF f
      <3> QED BY ONLY <1>1, <2>1, <2>3 DEF Files
    <2>5. fstate' \in [Threads -> Files] BY <1>1, <2>2, <2>3, <2>4 DEF FpTypeOK
    <2> QED BY <2>4, <2>5
  <1>4. /\ mine'[t] = IF torn[t] THEN <<Unset, f.ctx[2]>> ELSE f.ctx
        /\ mine' \in [Threads -> Promise \X Promise]
    BY <1>1, <1>2 DEF FpTypeOK, Record, Promise
  <1>5. Keeps(fstate'[t], mine'[t])
    <2>1. KeepsHalf(fstate'[t], mine'[t], 1)
      BY <1>1, <1>3, <1>4 DEF KeepsHalf
    <2>2. KeepsHalf(fstate'[t], mine'[t], 2)
      BY <1>2, <1>3, <1>4, KeepsHalves DEF KeepsHalf
    <2> QED BY <2>1, <2>2, KeepsHalves
  <1>6. FpTypeOK'
    <2>1. reg' \in [Harts -> Files] BY <1>3 DEF FpTypeOK
    <2>2. fs' \in [Threads -> Off..Dirty] BY DEF FpTypeOK, Cleaned
    <2>3. where' \in [Threads -> KernelModes \cup {"none", "embryo", "user"}]
      BY DEF FpTypeOK, KernelModes
    <2>4. sigframes' \in [Threads -> Seq(Record)] BY <1>2 DEF FpTypeOK, Record
    <2> QED BY <1>3, <1>4, <2>1, <2>2, <2>3, <2>4 DEF FpTypeOK, Record
  <1>7. PlaceInv'
    BY DEF FpTypeOK, PlaceInv, KernelModes
  <1>8. FreshInv'
    <2> SUFFICES ASSUME NEW u \in Threads,
                        fs'[u] # Dirty \/ (where'[u] # "user" /\ ~sd[u])
                 PROVE  /\ mine'[u] = File(Unset)
                        /\ \A n \in 1..Len(sigframes'[u]) : sigframes'[u][n].ctx = File(Unset)
      BY DEF FreshInv
    <2>1. /\ mine[u] = File(Unset)
          /\ \A n \in 1..Len(sigframes[u]) : sigframes[u][n].ctx = File(Unset)
      BY <1>1 DEF FpTypeOK, FreshInv, Cleaned
    <2>2. CASE u = t
      <3>1. f.ctx = File(Unset) BY <1>2, <2>1, <2>2
      <3>2. mine'[t] = File(Unset) BY <1>4, <3>1 DEF File
      <3> QED BY <1>1, <1>2, <2>1, <2>2, <3>2 DEF FpTypeOK
    <2>3. CASE u # t BY <2>1, <2>3 DEF FpTypeOK
    <2> QED BY <2>2, <2>3
  <1>9. RegInv'
    <2>1. Keeps(reg'[h], mine'[t])
      <3>1. CASE Restores(t) BY <1>5, <3>1 DEF FpTypeOK
      <3>2. CASE ~Restores(t)
        <4>1. mine'[t] = File(Unset)
          BY <1>1, <1>8, <3>2 DEF FreshInv, Restores, FpTypeOK
        <4> QED BY <4>1, KeepsUnset
      <3> QED BY <3>1, <3>2
    <2> QED BY <1>1, <2>1 DEF FpTypeOK, PlaceInv, RegInv
  <1>10. SavedInv'
    BY DEF FpTypeOK, PlaceInv, SavedInv, KernelModes
  <1>11. ForkInv'
    BY DEF FpTypeOK, PlaceInv, ForkInv
  <1>12. HalfInv'
    BY DEF FpTypeOK, PlaceInv, HalfInv
  <1>13. FrameInv'
    <2> SUFFICES ASSUME NEW u \in Threads, NEW n \in 1..Len(sigframes'[u])
                 PROVE  \/ where'[u] = "delivering" /\ n = Len(sigframes'[u])
                        \/ Keeps(sigframes'[u][n].fpregs, sigframes'[u][n].ctx)
      BY DEF FrameInv
    <2>1. CASE u = t
      <3>1. sigframes'[t] = Front(sigframes[t]) BY <1>1 DEF FpTypeOK
      <3>2. Len(sigframes[t]) \in Nat BY <1>1, LenProperties
      <3>3. n \in 1..Len(sigframes[t]) /\ sigframes'[t][n] = sigframes[t][n]
        BY ONLY <1>2, <2>1, <3>1, <3>2
      <3> QED BY <1>1, <2>1, <3>3 DEF FrameInv
    <2>2. CASE u # t
      BY <1>1, <2>2 DEF FpTypeOK, FrameInv
    <2> QED BY <2>1, <2>2
  <1> QED BY <1>6, <1>7, <1>8, <1>9, <1>10, <1>11, <1>12, <1>13

LEMMA BadFrameKeeps ==
  ASSUME IInv, NEW h \in Harts, BadFrame(h)
  PROVE  IInv'
  <1> USE DEF IInv, BadFrame
  <1>1. FpTypeOK'
    BY DEF FpTypeOK, KernelModes
  <1>2. PlaceInv'
    BY DEF FpTypeOK, PlaceInv, KernelModes
  <1>3. FreshInv'
    BY DEF FpTypeOK, PlaceInv, FreshInv, Cleaned
  <1>4. RegInv'
    BY DEF FpTypeOK, PlaceInv, RegInv
  <1>5. SavedInv'
    BY DEF FpTypeOK, PlaceInv, SavedInv, KernelModes
  <1>6. ForkInv'
    BY DEF FpTypeOK, PlaceInv, ForkInv
  <1>7. HalfInv'
    BY DEF FpTypeOK, PlaceInv, HalfInv
  <1>8. FrameInv'
    BY DEF FpTypeOK, PlaceInv, FrameInv
  <1> QED BY <1>1, <1>2, <1>3, <1>4, <1>5, <1>6, <1>7, <1>8

LEMMA SwitchKeeps ==
  ASSUME IInv, NEW h \in Harts, NEW next \in Threads \cup {Swapper}, Switch(h, next)
  PROVE  IInv'
  <1> USE DEF IInv, Switch
  <1> DEFINE prev == cur[h]
  <1>1. /\ prev # next /\ cur' = [cur EXCEPT ![h] = next]
        /\ next \in Threads => \A g \in Harts : cur[g] # next
        /\ prev \in Threads => where[prev] \in KernelModes
        /\ \A t \in Threads : fstate'[t] = IF t = prev /\ Stores(prev) THEN reg[h] ELSE fstate[t]
        /\ fstate' \in [Threads -> Files]
    BY DEF FpTypeOK, Stores
  <1>2. FpTypeOK'
    <2>1. cur' \in [Harts -> Threads \cup {Swapper}] BY DEF FpTypeOK
    <2>2. reg' \in [Harts -> Files] BY <1>1 DEF FpTypeOK, Loads
    <2>3. fs' \in [Threads -> Off..Dirty] BY DEF FpTypeOK, Cleaned
    <2>4. torn' \in [Threads -> BOOLEAN] BY DEF FpTypeOK
    <2> QED BY <1>1, <2>1, <2>2, <2>3, <2>4 DEF FpTypeOK
  <1>3. PlaceInv'
    BY DEF FpTypeOK, PlaceInv, KernelModes
  <1>4. FreshInv'
    BY DEF FpTypeOK, PlaceInv, FreshInv, Cleaned
  <1>5. RegInv'
    <2> SUFFICES ASSUME NEW g \in Harts, cur'[g] \in Threads, where[cur'[g]] # "flushed"
                 PROVE  Keeps(reg'[g], mine[cur'[g]])
      BY DEF RegInv
    <2>1. CASE g # h BY <2>1 DEF FpTypeOK, RegInv
    <2>2. CASE g = h
      <3>1. cur'[g] = next /\ next \in Threads /\ where[next] \in KernelModes
        BY <2>2 DEF FpTypeOK
      <3>2. Keeps(fstate[next], mine[next]) /\ fstate'[next] = fstate[next]
        BY <1>1, <3>1 DEF SavedInv
      <3>3. CASE Loads(next)
        <4>1. reg'[h] = fstate'[next] BY <3>3 DEF FpTypeOK
        <4> QED BY <2>2, <3>1, <3>2, <4>1
      <3>4. CASE ~Loads(next)
        <4>1. mine[next] = File(Unset)
          BY <3>1, <3>4 DEF Loads, Restores, FreshInv
        <4> QED BY <3>1, <4>1, KeepsUnset
      <3> QED BY <3>3, <3>4
    <2> QED BY <2>1, <2>2
  <1>6. SavedInv'
    <2> SUFFICES ASSUME NEW t \in Threads, where[t] \in KernelModes \ {"flushed"},
                        \A g \in Harts : cur'[g] # t
                 PROVE  Keeps(fstate'[t], mine[t])
      BY DEF SavedInv
    <2>1. CASE t # prev
      <3>1. \A g \in Harts : cur[g] # t BY <2>1, <1>1 DEF FpTypeOK
      <3> QED BY <1>1, <2>1, <3>1 DEF SavedInv
    <2>2. CASE t = prev /\ Stores(prev)
      BY <1>1, <2>2 DEF RegInv
    <2>3. CASE t = prev /\ ~Stores(prev)
      <3>1. mine[t] = File(Unset)
        BY <1>1, <2>3 DEF Stores, Saves, FreshInv, KernelModes
      <3> QED BY <3>1, KeepsUnset
    <2> QED BY <2>1, <2>2, <2>3
  <1>7. ForkInv'
    <2>1. \A t \in Threads : where[t] = "forking" => fstate'[child[t]] = fstate[child[t]]
      BY <1>1 DEF FpTypeOK, PlaceInv, ForkInv
    <2> QED BY <2>1 DEF ForkInv
  <1>8. HalfInv'
    <2>1. ASSUME NEW t \in Threads, where[t] = "delivering"
          PROVE  Keeps(fstate'[t], Last(sigframes[t]).ctx)
      BY <1>1, <2>1 DEF HalfInv, RegInv
    <2>2. ASSUME NEW t \in Threads, where[t] = "restoring"
          PROVE  torn'[t] \/ KeepsHalf(fstate'[t], Last(sigframes[t]).ctx, 1)
      BY <1>1, <2>2 DEF FpTypeOK, HalfInv
    <2> QED BY <2>1, <2>2 DEF HalfInv
  <1>9. FrameInv'
    BY DEF FpTypeOK, PlaceInv, FrameInv
  <1> QED BY <1>2, <1>3, <1>4, <1>5, <1>6, <1>7, <1>8, <1>9

LEMMA NextIInv ==
  ASSUME IInv, [FpNext]_fpVars
  PROVE  IInv'
  <1>1. CASE UNCHANGED fpVars
    BY ZenonT(60), <1>1
       DEF fpVars, IInv, FpTypeOK, PlaceInv, FreshInv, RegInv, SavedInv, ForkInv, HalfInv, FrameInv
  <1> QED BY <1>1, ComputeKeeps, TrapKeeps, ReturnToUserKeeps, SwitchKeeps, DupTaskStructKeeps,
             CopyThreadKeeps, FlushThreadKeeps, StartThreadKeeps, SetupSigcontextKeeps,
             SetupRestKeeps, RestoreSigcontextKeeps, RestoreRestKeeps, BadFrameKeeps DEF FpNext

-----------------------------------------------------------------------------
\* The inductive invariant.
THEOREM Invariance == FpSpec => []IInv
  BY InitIInv, NextIInv, PTL DEF FpSpec

\* The variables have their types in every reachable state: sstatus.FS stays in
\* its two bits although __fstate_clean adds to it (switch_to.h:24-29).
THEOREM TypeCorrect == FpSpec => []FpTypeOK
  <1>1. IInv => FpTypeOK BY DEF IInv
  <1> QED BY <1>1, Invariance, PTL

\* In user mode a program finds the FP registers it left, whatever switches,
\* forks, execs and signals came between (switch_to.h:31-72).
THEOREM OwnRegistersCorrect == FpSpec => []OwnRegisters
  <1>1. IInv => OwnRegisters BY DEF IInv, RegInv, OwnRegisters
  <1> QED BY <1>1, Invariance, PTL

\* The fstate of a task that is switched out is its own, and every signal frame
\* holds what the signal interrupted (switch_to.h, signal.c:60-110).
THEOREM SavedCorrect == FpSpec => []SavedRight
  <1>1. IInv => SavedRight
    BY DEF IInv, SavedInv, FrameInv, SavedRight, KernelModes
  <1> QED BY <1>1, Invariance, PTL
=============================================================================
