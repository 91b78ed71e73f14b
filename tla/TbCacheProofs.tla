---------------------------- MODULE TbCacheProofs -----------------------------
(***************************************************************************)
(* For any numbers of vCPUs and blocks, any guest code and both kinds of   *)
(* guest: vCPUs run translations of their pc, nothing refers to a block    *)
(* that a flush has taken, the lists of jumps are exact, and no valid      *)
(* block jumps to one whose invalidation has ended.                        *)
(***************************************************************************)
EXTENDS TbCache, TLAPS

(* A tuple of two is not the empty one.                                    *)
LEMMA JumpNotEmpty == \A j \in Jump : j # <<>>
BY DEF Jump

(* The initial state satisfies the invariant.                              *)
LEMMA InitInv == Init => IInv
<1> SUFFICES ASSUME Init PROVE IInv  OBVIOUS
<1> USE TbCacheAssumption DEF Init
<1>1. TypeOK
  <2>1. user \in BOOLEAN  BY Zenon
  <2>2. invalid \in [Slot -> BOOLEAN]  OBVIOUS
  <2>3. jmp_dest \in [Slot -> [Exit -> [d : Slot \cup {None}, m : BOOLEAN]]]
    BY DEF Unset
  <2>4. target \in [Slot -> [Exit -> Slot \cup {None}]]  OBVIOUS
  <2>5. jmp_cache \in [Cpu -> [Pc -> Slot \cup {None}]]  OBVIOUS
  <2>6. /\ tb_flush_count \in 0 .. CountMod - 1
        /\ work \in [Cpu -> 0 .. CountMod - 1]
        /\ tb_exit \in [Cpu -> Exit] /\ idx \in [Cpu -> Exit]
    BY DEF Exit
  <2>7. \A c \in Cpu : /\ Len(work_list[c]) <= 1
                       /\ \A i \in 1 .. Len(work_list[c]) :
                              work_list[c][i] \in 0 .. CountMod - 1
    OBVIOUS
  <2>8. /\ loc \in [Cpu -> Loc] /\ ent \in [Cpu -> Jump \cup {<<>>}]
        /\ jmp_list \in [Slot -> SUBSET Jump]
        /\ alloc \subseteq Slot /\ htable \subseteq Slot
        /\ tbpc \in [Slot -> Pc \cup {None}]
    BY DEF Loc
  <2>9. /\ pc \in [Cpu -> Pc \cup {None}] /\ tb \in [Cpu -> Slot \cup {None}]
        /\ last_tb \in [Cpu -> Slot \cup {None}]
        /\ inv \in [Cpu -> Slot \cup {None}] /\ ptr \in [Cpu -> Slot \cup {None}]
    OBVIOUS
  <2> QED  BY <2>1, <2>2, <2>3, <2>4, <2>5, <2>6, <2>7, <2>8, <2>9 DEF TypeOK
<1>2. RequestsFit
  BY DEF RequestsFit
<1>3. LocalsFit
  BY DEF LocalsFit, LoopFit, InvalidationFit, InLoop, Invalidating, Idle
<1>4. FoundLive /\ JumpsLead /\ JumpsListed
  BY DEF FoundLive, JumpsLead, JumpsListed, Unset
<1>5. PatchHeld /\ MarkedOnce /\ RemovalReady /\ FlushAlone
  BY DEF PatchHeld, MarkedOnce, RemovalReady, FlushAlone
<1>6. Published /\ RunsItsPc
  BY DEF Published, RunsItsPc, Live
<1>7. ListsExact
  BY DEF ListsExact, Unset, Jump
<1> QED  BY <1>1, <1>2, <1>3, <1>4, <1>5, <1>6, <1>7 DEF IInv

(* A queue of at most one request.                                         *)
LEMMA RequestTypes ==
    ASSUME NEW w \in {<<>>} \cup {<<k>> : k \in 0 .. CountMod - 1}
    PROVE  /\ Len(w) <= 1
           /\ \A i \in 1 .. Len(w) : w[i] \in 0 .. CountMod - 1
<1>1. CASE w = <<>>
  BY <1>1
<1>2. ASSUME NEW k \in 0 .. CountMod - 1, w = <<k>>
      PROVE  Len(w) <= 1 /\ \A i \in 1 .. Len(w) : w[i] \in 0 .. CountMod - 1
  BY <1>2
<1> QED  BY <1>1, <1>2

(* Types, when no block changes.                                           *)
LEMMA LoopTypes ==
    ASSUME TypeOK, UNCHANGED <<user, block, htable, jmp_cache, invloc>>,
           tb_flush_count' \in 0 .. CountMod - 1, RequestsFit',
           work' \in [Cpu -> 0 .. CountMod - 1], loc' \in [Cpu -> Loc],
           pc' \in [Cpu -> Pc \cup {None}], tb' \in [Cpu -> Slot \cup {None}],
           last_tb' \in [Cpu -> Slot \cup {None}], tb_exit' \in [Cpu -> Exit]
    PROVE  TypeOK'
<1>1. \A c \in Cpu :
        /\ Len(work_list'[c]) <= 1
        /\ \A i \in 1 .. Len(work_list'[c]) : work_list'[c][i] \in 0 .. CountMod - 1
  BY RequestTypes DEF RequestsFit
<1> QED  BY <1>1 DEF TypeOK, block, invloc

(* Nobody is in the loop during a flush.                                   *)
LEMMA InLoopNoFlush ==
    ASSUME FlushAlone, NEW c \in Cpu, InLoop(c)
    PROVE  ~Flushing
<1> SUFFICES ASSUME NEW o \in Cpu, loc[o] = "flush" PROVE FALSE
  BY DEF Flushing
<1>1. o # c
  BY DEF InLoop, Invalidating
<1>2. ~InLoop(c)
  BY <1>1, Zenon DEF FlushAlone
<1> QED  BY <1>2

Quiet == {"out", "work", "safe", "loop", "gen", "cache", "chain", "exec"}

(* Only vCPU c moves.                                                      *)
OthersKeep(c) ==
    \A o \in Cpu \ {c} :
        /\ loc'[o] = loc[o] /\ pc'[o] = pc[o] /\ tb'[o] = tb[o]
        /\ last_tb'[o] = last_tb[o] /\ tb_exit'[o] = tb_exit[o]

(* A vCPU moves in the loop, or in or out of it, and touches no block: it  *)
(* is enough that its own locals fit.                                      *)
LEMMA LoopStep ==
    ASSUME IInv, TypeOK', RequestsFit', NEW c \in Cpu, OthersKeep(c),
           UNCHANGED <<user, block, htable, jmp_cache, invloc>>,
           loc[c] \in Quiet \cup {"trans"}, loc'[c] \in Quiet,
           LoopFit(c)',
           loc'[c] \in {"cache", "chain", "exec"} =>
               tb'[c] # None /\ Live(tb'[c]) /\ tbpc[tb'[c]] = pc'[c],
           loc'[c] \notin Idle => ~Flushing
    PROVE  IInv'
<1> USE DEF block, invloc
<1>1. ASSUME NEW o \in Cpu, o # c PROVE LoopFit(o)' 
  <2>1. LoopFit(o)
    BY DEF IInv, LocalsFit
  <2> QED  BY <1>1, <2>1 DEF LoopFit, InLoop, Live, OthersKeep, Quiet
<1>2. ASSUME NEW o \in Cpu PROVE InvalidationFit(o)'
  <2>1. InvalidationFit(o)
    BY DEF IInv, LocalsFit
  <2>2. loc'[o] = loc[o] \/ (o = c /\ loc[o] \in Quiet \cup {"trans"} /\ loc'[o] \in Quiet)
    BY DEF OthersKeep
  <2> QED  BY <2>1, <2>2 DEF InvalidationFit, Live, Quiet, Invalidating
<1>3. LocalsFit'
  BY <1>1, <1>2 DEF LocalsFit
<1>4. FoundLive'
  BY DEF IInv, FoundLive, Live
<1>5. JumpsLead' /\ JumpsListed'
  BY DEF IInv, JumpsLead, JumpsListed, Live
<1>6. PatchHeld'
  BY DEF IInv, PatchHeld, OthersKeep, Quiet
<1>7. MarkedOnce'
  BY DEF IInv, MarkedOnce, OthersKeep, Quiet
<1>8. RemovalReady'
  BY DEF IInv, RemovalReady, OthersKeep, Quiet
<1>9. FlushAlone'
  BY DEF IInv, FlushAlone, OthersKeep, Quiet, Flushing, InLoop, Idle, Invalidating
<1>10. Published'
  <2>1. Flushing' <=> Flushing
    BY DEF Flushing, OthersKeep, Quiet
  <2> QED  BY <2>1 DEF IInv, Published, Live, OthersKeep, Quiet, LocalsFit,
                 InvalidationFit, Invalidating
<1>11. RunsItsPc'
  BY DEF IInv, RunsItsPc, Live, OthersKeep, Quiet
<1>12. ListsExact'
  BY DEF IInv, ListsExact, OthersKeep, Quiet
<1> QED  BY <1>3, <1>4, <1>5, <1>6, <1>7, <1>8, <1>9, <1>10, <1>11, <1>12 DEF IInv

(* Entering the loop, not during a flush.                                  *)
LEMMA EnterStep ==
    ASSUME IInv, NEW c \in Cpu, EnterLoop(c)
    PROVE  IInv'
<1> USE TbCacheAssumption
<1>1. TypeOK /\ LoopFit(c) /\ RequestsFit /\ FlushAlone /\ 0 \in Exit
  BY DEF IInv, LocalsFit, Exit
<1>2. /\ loc[c] = "out" /\ loc'[c] = "loop"
      /\ loc' = [loc EXCEPT ![c] = loc'[c]]
      /\ \A o \in Cpu : loc[o] # "flush"
      /\ pc' = [pc EXCEPT ![c] = pc'[c]] /\ pc'[c] \in Pc
      /\ UNCHANGED tb
      /\ UNCHANGED last_tb
      /\ UNCHANGED tb_exit
      /\ UNCHANGED <<tb_flush_count, work_list, work>>
      /\ UNCHANGED <<user, block, htable, jmp_cache, invloc>>
  BY <1>1 DEF TypeOK, EnterLoop, Goto, run, flush
<1>3. RequestsFit'
  BY <1>1, <1>2 DEF TypeOK, RequestsFit
<1>4. loc[c] \in Quiet \cup {"trans"} /\ loc'[c] \in Quiet
  BY <1>2 DEF Quiet
<1>5. TypeOK'
  <2>1. loc' \in [Cpu -> Loc]
    BY <1>1, <1>2 DEF TypeOK, Loc
  <2>2. pc' \in [Cpu -> Pc \cup {None}] /\ tb' \in [Cpu -> Slot \cup {None}]
    BY <1>1, <1>2 DEF TypeOK
  <2>3. last_tb' \in [Cpu -> Slot \cup {None}] /\ tb_exit' \in [Cpu -> Exit]
    BY <1>1, <1>2 DEF TypeOK
  <2>4. /\ tb_flush_count' \in 0 .. CountMod - 1
        /\ work' \in [Cpu -> 0 .. CountMod - 1]
    BY <1>1, <1>2 DEF TypeOK
  <2> QED  BY <1>1, <1>2, <1>3, <2>1, <2>2, <2>3, <2>4, LoopTypes
<1>6. OthersKeep(c)
  BY <1>1, <1>2 DEF TypeOK, OthersKeep
<1>7. LoopFit(c)'
  BY <1>1, <1>2, <1>5 DEF TypeOK, LoopFit, InLoop, Idle, Live, Invalidating, block
<1>8. loc'[c] \in {"cache", "chain", "exec"} =>
        tb'[c] # None /\ Live(tb'[c]) /\ tbpc[tb'[c]] = pc'[c]
  BY <1>1, <1>2 DEF TypeOK, Live
<1>9. loc'[c] \notin Idle => ~Flushing
  BY <1>2 DEF Flushing
<1> QED  BY <1>2, <1>3, <1>4, <1>5, <1>6, <1>7, <1>8, <1>9, LoopStep

(* Leaving it.                                                             *)
LEMMA ExitStep ==
    ASSUME IInv, NEW c \in Cpu, ExitLoop(c)
    PROVE  IInv'
<1> USE TbCacheAssumption
<1>1. TypeOK /\ LoopFit(c) /\ RequestsFit /\ FlushAlone /\ 0 \in Exit
  BY DEF IInv, LocalsFit, Exit
<1>2. /\ loc[c] = "loop" /\ loc'[c] = "work"
      /\ loc' = [loc EXCEPT ![c] = loc'[c]]
      /\ pc' = [pc EXCEPT ![c] = None]
      /\ tb' = [tb EXCEPT ![c] = None]
      /\ last_tb' = [last_tb EXCEPT ![c] = None]
      /\ tb_exit' = [tb_exit EXCEPT ![c] = 0]
      /\ UNCHANGED <<tb_flush_count, work_list, work>>
      /\ UNCHANGED <<user, block, htable, jmp_cache, invloc>>
  BY <1>1 DEF TypeOK, ExitLoop, LeaveLoop, Goto, run, flush
<1>3. RequestsFit'
  BY <1>1, <1>2 DEF TypeOK, RequestsFit
<1>4. loc[c] \in Quiet \cup {"trans"} /\ loc'[c] \in Quiet
  BY <1>2 DEF Quiet
<1>5. TypeOK'
  <2>1. loc' \in [Cpu -> Loc]
    BY <1>1, <1>2 DEF TypeOK, Loc
  <2>2. pc' \in [Cpu -> Pc \cup {None}] /\ tb' \in [Cpu -> Slot \cup {None}]
    BY <1>1, <1>2 DEF TypeOK
  <2>3. last_tb' \in [Cpu -> Slot \cup {None}] /\ tb_exit' \in [Cpu -> Exit]
    BY <1>1, <1>2 DEF TypeOK
  <2>4. /\ tb_flush_count' \in 0 .. CountMod - 1
        /\ work' \in [Cpu -> 0 .. CountMod - 1]
    BY <1>1, <1>2 DEF TypeOK
  <2> QED  BY <1>1, <1>2, <1>3, <2>1, <2>2, <2>3, <2>4, LoopTypes
<1>6. OthersKeep(c)
  BY <1>1, <1>2 DEF TypeOK, OthersKeep
<1>7. LoopFit(c)'
  BY <1>1, <1>2, <1>5 DEF TypeOK, LoopFit, InLoop, Idle, Live, Invalidating, block
<1>8. loc'[c] \in {"cache", "chain", "exec"} =>
        tb'[c] # None /\ Live(tb'[c]) /\ tbpc[tb'[c]] = pc'[c]
  BY <1>1, <1>2 DEF TypeOK, Live
<1>9. loc'[c] \notin Idle => ~Flushing
  BY <1>1, <1>2, InLoopNoFlush DEF InLoop
<1> QED  BY <1>2, <1>3, <1>4, <1>5, <1>6, <1>7, <1>8, <1>9, LoopStep

(* An interrupt: the pc changes, and last_tb is forgotten with it.         *)
LEMMA InterruptStep ==
    ASSUME IInv, NEW c \in Cpu, cpu_handle_interrupt(c)
    PROVE  IInv'
<1> USE TbCacheAssumption
<1>1. TypeOK /\ LoopFit(c) /\ RequestsFit /\ FlushAlone /\ 0 \in Exit
  BY DEF IInv, LocalsFit, Exit
<1>2. /\ loc[c] = "loop" /\ loc'[c] = "loop"
      /\ loc' = [loc EXCEPT ![c] = loc'[c]]
      /\ pc' = [pc EXCEPT ![c] = pc'[c]] /\ pc'[c] \in Pc
      /\ UNCHANGED tb
      /\ last_tb' = [last_tb EXCEPT ![c] = None]
      /\ tb_exit' = [tb_exit EXCEPT ![c] = 0]
      /\ UNCHANGED <<tb_flush_count, work_list, work>>
      /\ UNCHANGED <<user, block, htable, jmp_cache, invloc>>
  BY <1>1 DEF TypeOK, cpu_handle_interrupt, NewPc, Goto, run, flush, LoopFit, InLoop
<1>3. RequestsFit'
  BY <1>1, <1>2 DEF TypeOK, RequestsFit
<1>4. loc[c] \in Quiet \cup {"trans"} /\ loc'[c] \in Quiet
  BY <1>2 DEF Quiet
<1>5. TypeOK'
  <2>1. loc' \in [Cpu -> Loc]
    BY <1>1, <1>2 DEF TypeOK, Loc
  <2>2. pc' \in [Cpu -> Pc \cup {None}] /\ tb' \in [Cpu -> Slot \cup {None}]
    BY <1>1, <1>2 DEF TypeOK
  <2>3. last_tb' \in [Cpu -> Slot \cup {None}] /\ tb_exit' \in [Cpu -> Exit]
    BY <1>1, <1>2 DEF TypeOK
  <2>4. /\ tb_flush_count' \in 0 .. CountMod - 1
        /\ work' \in [Cpu -> 0 .. CountMod - 1]
    BY <1>1, <1>2 DEF TypeOK
  <2> QED  BY <1>1, <1>2, <1>3, <2>1, <2>2, <2>3, <2>4, LoopTypes
<1>6. OthersKeep(c)
  BY <1>1, <1>2 DEF TypeOK, OthersKeep
<1>7. LoopFit(c)'
  BY <1>1, <1>2, <1>5 DEF TypeOK, LoopFit, InLoop, Idle, Live, Invalidating, block
<1>8. loc'[c] \in {"cache", "chain", "exec"} =>
        tb'[c] # None /\ Live(tb'[c]) /\ tbpc[tb'[c]] = pc'[c]
  BY <1>1, <1>2 DEF TypeOK, Live
<1>9. loc'[c] \notin Idle => ~Flushing
  BY <1>1, <1>2, InLoopNoFlush DEF InLoop
<1> QED  BY <1>2, <1>3, <1>4, <1>5, <1>6, <1>7, <1>8, <1>9, LoopStep

(* A block that is found is published, at the pc it is looked up for: in   *)
(* the cache of the vCPU,                                                  *)
LEMMA LookupCacheStep ==
    ASSUME IInv, NEW c \in Cpu, LookupCache(c)
    PROVE  IInv'
<1> USE TbCacheAssumption
<1>1. TypeOK /\ LoopFit(c) /\ RequestsFit /\ FlushAlone /\ 0 \in Exit /\ FoundLive
  BY DEF IInv, LocalsFit, Exit
<1>2. /\ loc[c] = "loop" /\ loc'[c] = "chain"
      /\ loc' = [loc EXCEPT ![c] = loc'[c]]
      /\ pc[c] \in Pc /\ jmp_cache[c][pc[c]] # None
      /\ UNCHANGED pc
      /\ tb' = [tb EXCEPT ![c] = jmp_cache[c][pc[c]]]
      /\ UNCHANGED last_tb
      /\ UNCHANGED tb_exit
      /\ UNCHANGED <<tb_flush_count, work_list, work>>
      /\ UNCHANGED <<user, block, htable, jmp_cache, invloc>>
  BY <1>1 DEF TypeOK, LookupCache, CacheHit, Goto, run, flush, LoopFit, InLoop
<1>3. RequestsFit'
  BY <1>1, <1>2 DEF TypeOK, RequestsFit
<1>4. loc[c] \in Quiet \cup {"trans"} /\ loc'[c] \in Quiet
  BY <1>2 DEF Quiet
<1>5. TypeOK'
  <2>1. loc' \in [Cpu -> Loc]
    BY <1>1, <1>2 DEF TypeOK, Loc
  <2>2. pc' \in [Cpu -> Pc \cup {None}] /\ tb' \in [Cpu -> Slot \cup {None}]
    BY <1>1, <1>2 DEF TypeOK
  <2>3. last_tb' \in [Cpu -> Slot \cup {None}] /\ tb_exit' \in [Cpu -> Exit]
    BY <1>1, <1>2 DEF TypeOK
  <2>4. /\ tb_flush_count' \in 0 .. CountMod - 1
        /\ work' \in [Cpu -> 0 .. CountMod - 1]
    BY <1>1, <1>2 DEF TypeOK
  <2> QED  BY <1>1, <1>2, <1>3, <2>1, <2>2, <2>3, <2>4, LoopTypes
<1>6. OthersKeep(c)
  BY <1>1, <1>2 DEF TypeOK, OthersKeep
<1>7. LoopFit(c)'
  BY <1>1, <1>2, <1>5 DEF TypeOK, LoopFit, InLoop, Idle, Live, Invalidating, block, FoundLive
<1>8. loc'[c] \in {"cache", "chain", "exec"} =>
        tb'[c] # None /\ Live(tb'[c]) /\ tbpc[tb'[c]] = pc'[c]
  BY <1>1, <1>2 DEF TypeOK, Live, FoundLive
<1>9. loc'[c] \notin Idle => ~Flushing
  BY <1>1, <1>2, InLoopNoFlush DEF InLoop
<1> QED  BY <1>2, <1>3, <1>4, <1>5, <1>6, <1>7, <1>8, <1>9, LoopStep

(* in the hash table.                                                      *)
LEMMA LookupTableStep ==
    ASSUME IInv, NEW c \in Cpu, tb_htable_lookup(c)
    PROVE  IInv'
<1> USE TbCacheAssumption
<1>1. TypeOK /\ LoopFit(c) /\ RequestsFit /\ FlushAlone /\ 0 \in Exit /\ FoundLive
  BY DEF IInv, LocalsFit, Exit
<1>2. /\ loc[c] = "loop" /\ loc'[c] \in {"cache", "gen"}
      /\ loc' = [loc EXCEPT ![c] = loc'[c]]
      /\ tb' = [tb EXCEPT ![c] = tb'[c]]
      /\ \/ loc'[c] = "gen" /\ tb'[c] = None
         \/ loc'[c] = "cache" /\ tb'[c] \in htable /\ tbpc[tb'[c]] = pc[c]
      /\ UNCHANGED pc
      /\ UNCHANGED last_tb
      /\ UNCHANGED tb_exit
      /\ UNCHANGED <<tb_flush_count, work_list, work>>
      /\ UNCHANGED <<user, block, htable, jmp_cache, invloc>>
  BY <1>1 DEF TypeOK, tb_htable_lookup, Matches, Goto, run, flush
<1>3. RequestsFit'
  BY <1>1, <1>2 DEF TypeOK, RequestsFit
<1>4. loc[c] \in Quiet \cup {"trans"} /\ loc'[c] \in Quiet
  BY <1>2 DEF Quiet
<1>5. TypeOK'
  <2>1. loc' \in [Cpu -> Loc]
    BY <1>1, <1>2 DEF TypeOK, Loc
  <2>2. pc' \in [Cpu -> Pc \cup {None}] /\ tb' \in [Cpu -> Slot \cup {None}]
    BY <1>1, <1>2 DEF TypeOK
  <2>3. last_tb' \in [Cpu -> Slot \cup {None}] /\ tb_exit' \in [Cpu -> Exit]
    BY <1>1, <1>2 DEF TypeOK
  <2>4. /\ tb_flush_count' \in 0 .. CountMod - 1
        /\ work' \in [Cpu -> 0 .. CountMod - 1]
    BY <1>1, <1>2 DEF TypeOK
  <2> QED  BY <1>1, <1>2, <1>3, <2>1, <2>2, <2>3, <2>4, LoopTypes
<1>6. OthersKeep(c)
  BY <1>1, <1>2 DEF TypeOK, OthersKeep
<1>7. LoopFit(c)'
  BY <1>1, <1>2, <1>5 DEF TypeOK, LoopFit, InLoop, Idle, Live, Invalidating, block, FoundLive
<1>8. loc'[c] \in {"cache", "chain", "exec"} =>
        tb'[c] # None /\ Live(tb'[c]) /\ tbpc[tb'[c]] = pc'[c]
  BY <1>1, <1>2 DEF TypeOK, Live, FoundLive
<1>9. loc'[c] \notin Idle => ~Flushing
  BY <1>1, <1>2, InLoopNoFlush DEF InLoop
<1> QED  BY <1>2, <1>3, <1>4, <1>5, <1>6, <1>7, <1>8, <1>9, LoopStep

(* A translation is abandoned; its room is lost.                           *)
LEMMA OverflowStep ==
    ASSUME IInv, NEW c \in Cpu, GenOverflow(c)
    PROVE  IInv'
<1> USE TbCacheAssumption
<1>1. TypeOK /\ LoopFit(c) /\ RequestsFit /\ FlushAlone /\ 0 \in Exit
  BY DEF IInv, LocalsFit, Exit
<1>2. /\ loc[c] = "trans" /\ loc'[c] = "gen"
      /\ loc' = [loc EXCEPT ![c] = loc'[c]]
      /\ UNCHANGED pc
      /\ tb' = [tb EXCEPT ![c] = None]
      /\ UNCHANGED last_tb
      /\ UNCHANGED tb_exit
      /\ UNCHANGED <<tb_flush_count, work_list, work>>
      /\ UNCHANGED <<user, block, htable, jmp_cache, invloc>>
  BY <1>1 DEF TypeOK, GenOverflow, Goto, run, flush
<1>3. RequestsFit'
  BY <1>1, <1>2 DEF TypeOK, RequestsFit
<1>4. loc[c] \in Quiet \cup {"trans"} /\ loc'[c] \in Quiet
  BY <1>2 DEF Quiet
<1>5. TypeOK'
  <2>1. loc' \in [Cpu -> Loc]
    BY <1>1, <1>2 DEF TypeOK, Loc
  <2>2. pc' \in [Cpu -> Pc \cup {None}] /\ tb' \in [Cpu -> Slot \cup {None}]
    BY <1>1, <1>2 DEF TypeOK
  <2>3. last_tb' \in [Cpu -> Slot \cup {None}] /\ tb_exit' \in [Cpu -> Exit]
    BY <1>1, <1>2 DEF TypeOK
  <2>4. /\ tb_flush_count' \in 0 .. CountMod - 1
        /\ work' \in [Cpu -> 0 .. CountMod - 1]
    BY <1>1, <1>2 DEF TypeOK
  <2> QED  BY <1>1, <1>2, <1>3, <2>1, <2>2, <2>3, <2>4, LoopTypes
<1>6. OthersKeep(c)
  BY <1>1, <1>2 DEF TypeOK, OthersKeep
<1>7. LoopFit(c)'
  BY <1>1, <1>2, <1>5 DEF TypeOK, LoopFit, InLoop, Idle, Live, Invalidating, block
<1>8. loc'[c] \in {"cache", "chain", "exec"} =>
        tb'[c] # None /\ Live(tb'[c]) /\ tbpc[tb'[c]] = pc'[c]
  BY <1>1, <1>2 DEF TypeOK, Live
<1>9. loc'[c] \notin Idle => ~Flushing
  BY <1>1, <1>2, InLoopNoFlush DEF InLoop
<1> QED  BY <1>2, <1>3, <1>4, <1>5, <1>6, <1>7, <1>8, <1>9, LoopStep

(* ... and so is the place in the loop.                                    *)
LEMMA LongjmpStep ==
    ASSUME IInv, NEW c \in Cpu, cpu_exec_longjmp_cleanup(c)
    PROVE  IInv'
<1> USE TbCacheAssumption
<1>1. TypeOK /\ LoopFit(c) /\ RequestsFit /\ FlushAlone /\ 0 \in Exit
  BY DEF IInv, LocalsFit, Exit
<1>2. /\ loc[c] = "trans" /\ loc'[c] \in {"work", "loop"}
      /\ loc' = [loc EXCEPT ![c] = loc'[c]]
      /\ loc'[c] = "loop" => pc'[c] \in Pc
      /\ pc' = [pc EXCEPT ![c] = pc'[c]] /\ pc'[c] \in Pc \cup {None}
      /\ tb' = [tb EXCEPT ![c] = None]
      /\ last_tb' = [last_tb EXCEPT ![c] = None]
      /\ tb_exit' = [tb_exit EXCEPT ![c] = 0]
      /\ UNCHANGED <<tb_flush_count, work_list, work>>
      /\ UNCHANGED <<user, block, htable, jmp_cache, invloc>>
  BY <1>1 DEF TypeOK, cpu_exec_longjmp_cleanup, LeaveLoop, NewPc, Goto, run, flush
<1>3. RequestsFit'
  BY <1>1, <1>2 DEF TypeOK, RequestsFit
<1>4. loc[c] \in Quiet \cup {"trans"} /\ loc'[c] \in Quiet
  BY <1>2 DEF Quiet
<1>5. TypeOK'
  <2>1. loc' \in [Cpu -> Loc]
    BY <1>1, <1>2 DEF TypeOK, Loc
  <2>2. pc' \in [Cpu -> Pc \cup {None}] /\ tb' \in [Cpu -> Slot \cup {None}]
    BY <1>1, <1>2 DEF TypeOK
  <2>3. last_tb' \in [Cpu -> Slot \cup {None}] /\ tb_exit' \in [Cpu -> Exit]
    BY <1>1, <1>2 DEF TypeOK
  <2>4. /\ tb_flush_count' \in 0 .. CountMod - 1
        /\ work' \in [Cpu -> 0 .. CountMod - 1]
    BY <1>1, <1>2 DEF TypeOK
  <2> QED  BY <1>1, <1>2, <1>3, <2>1, <2>2, <2>3, <2>4, LoopTypes
<1>6. OthersKeep(c)
  BY <1>1, <1>2 DEF TypeOK, OthersKeep
<1>7. LoopFit(c)'
  BY <1>1, <1>2, <1>5 DEF TypeOK, LoopFit, InLoop, Idle, Live, Invalidating, block
<1>8. loc'[c] \in {"cache", "chain", "exec"} =>
        tb'[c] # None /\ Live(tb'[c]) /\ tbpc[tb'[c]] = pc'[c]
  BY <1>1, <1>2 DEF TypeOK, Live
<1>9. loc'[c] \notin Idle => ~Flushing
  BY <1>1, <1>2, InLoopNoFlush DEF InLoop
<1> QED  BY <1>2, <1>3, <1>4, <1>5, <1>6, <1>7, <1>8, <1>9, LoopStep

(* A block runs without being chained to.                                  *)
LEMMA NoChainStep ==
    ASSUME IInv, NEW c \in Cpu, NoChain(c) \/ AddJumpRefused(c)
    PROVE  IInv'
<1> USE TbCacheAssumption
<1>1. TypeOK /\ LoopFit(c) /\ RequestsFit /\ FlushAlone /\ 0 \in Exit /\ RunsItsPc
  BY DEF IInv, LocalsFit, Exit
<1>2. /\ loc[c] = "chain" /\ loc'[c] = "exec"
      /\ loc' = [loc EXCEPT ![c] = loc'[c]]
      /\ UNCHANGED pc
      /\ UNCHANGED tb
      /\ last_tb' = [last_tb EXCEPT ![c] = None]
      /\ tb_exit' = [tb_exit EXCEPT ![c] = 0]
      /\ UNCHANGED <<tb_flush_count, work_list, work>>
      /\ UNCHANGED <<user, block, htable, jmp_cache, invloc>>
  BY <1>1 DEF TypeOK, NoChain, AddJumpRefused, Goto, run, flush
<1>3. RequestsFit'
  BY <1>1, <1>2 DEF TypeOK, RequestsFit
<1>4. loc[c] \in Quiet \cup {"trans"} /\ loc'[c] \in Quiet
  BY <1>2 DEF Quiet
<1>5. TypeOK'
  <2>1. loc' \in [Cpu -> Loc]
    BY <1>1, <1>2 DEF TypeOK, Loc
  <2>2. pc' \in [Cpu -> Pc \cup {None}] /\ tb' \in [Cpu -> Slot \cup {None}]
    BY <1>1, <1>2 DEF TypeOK
  <2>3. last_tb' \in [Cpu -> Slot \cup {None}] /\ tb_exit' \in [Cpu -> Exit]
    BY <1>1, <1>2 DEF TypeOK
  <2>4. /\ tb_flush_count' \in 0 .. CountMod - 1
        /\ work' \in [Cpu -> 0 .. CountMod - 1]
    BY <1>1, <1>2 DEF TypeOK
  <2> QED  BY <1>1, <1>2, <1>3, <2>1, <2>2, <2>3, <2>4, LoopTypes
<1>6. OthersKeep(c)
  BY <1>1, <1>2 DEF TypeOK, OthersKeep
<1>7. LoopFit(c)'
  BY <1>1, <1>2, <1>5 DEF TypeOK, LoopFit, InLoop, Idle, Live, Invalidating, block, RunsItsPc
<1>8. loc'[c] \in {"cache", "chain", "exec"} =>
        tb'[c] # None /\ Live(tb'[c]) /\ tbpc[tb'[c]] = pc'[c]
  BY <1>1, <1>2 DEF TypeOK, Live, RunsItsPc
<1>9. loc'[c] \notin Idle => ~Flushing
  BY <1>1, <1>2, InLoopNoFlush DEF InLoop
<1> QED  BY <1>2, <1>3, <1>4, <1>5, <1>6, <1>7, <1>8, <1>9, LoopStep

(* Generated code: a patched jump leads to a block at the pc of its exit.  *)
LEMMA FollowStep ==
    ASSUME IInv, NEW c \in Cpu, NEW n \in Exit, FollowJump(c, n)
    PROVE  IInv'
<1> USE TbCacheAssumption
<1>1. TypeOK /\ LoopFit(c) /\ RequestsFit /\ FlushAlone /\ 0 \in Exit
      /\ RunsItsPc /\ JumpsLead
  BY DEF IInv, LocalsFit, Exit
<1>2. /\ loc[c] = "exec" /\ loc'[c] = "exec"
      /\ loc' = [loc EXCEPT ![c] = loc'[c]]
      /\ tb[c] \in Slot /\ pc[c] \in Pc /\ Succ(pc[c], n) \in Pc /\ target[tb[c]][n] # None
      /\ pc' = [pc EXCEPT ![c] = Succ(pc[c], n)]
      /\ tb' = [tb EXCEPT ![c] = target[tb[c]][n]]
      /\ UNCHANGED last_tb
      /\ UNCHANGED tb_exit
      /\ UNCHANGED <<tb_flush_count, work_list, work>>
      /\ UNCHANGED <<user, block, htable, jmp_cache, invloc>>
  BY <1>1 DEF TypeOK, FollowJump, Goto, run, flush, LoopFit, InLoop,
      RunsItsPc, Live, Exit
<1>3. RequestsFit'
  BY <1>1, <1>2 DEF TypeOK, RequestsFit
<1>4. loc[c] \in Quiet \cup {"trans"} /\ loc'[c] \in Quiet
  BY <1>2 DEF Quiet
<1>5. TypeOK'
  <2>1. loc' \in [Cpu -> Loc]
    BY <1>1, <1>2 DEF TypeOK, Loc
  <2>2. pc' \in [Cpu -> Pc \cup {None}] /\ tb' \in [Cpu -> Slot \cup {None}]
    BY <1>1, <1>2 DEF TypeOK
  <2>3. last_tb' \in [Cpu -> Slot \cup {None}] /\ tb_exit' \in [Cpu -> Exit]
    BY <1>1, <1>2 DEF TypeOK
  <2>4. /\ tb_flush_count' \in 0 .. CountMod - 1
        /\ work' \in [Cpu -> 0 .. CountMod - 1]
    BY <1>1, <1>2 DEF TypeOK
  <2> QED  BY <1>1, <1>2, <1>3, <2>1, <2>2, <2>3, <2>4, LoopTypes
<1>6. OthersKeep(c)
  BY <1>1, <1>2 DEF TypeOK, OthersKeep
<1>7. LoopFit(c)'
  BY <1>1, <1>2, <1>5
     DEF TypeOK, LoopFit, InLoop, Idle, Live, Invalidating, block, RunsItsPc, JumpsLead
<1>8. loc'[c] \in {"cache", "chain", "exec"} =>
        tb'[c] # None /\ Live(tb'[c]) /\ tbpc[tb'[c]] = pc'[c]
  BY <1>1, <1>2 DEF TypeOK, Live, RunsItsPc, JumpsLead
<1>9. loc'[c] \notin Idle => ~Flushing
  BY <1>1, <1>2, InLoopNoFlush DEF InLoop
<1> QED  BY <1>2, <1>3, <1>4, <1>5, <1>6, <1>7, <1>8, <1>9, LoopStep

(* An unpatched one: the loop continues where the exit goes.               *)
LEMMA ExitTbStep ==
    ASSUME IInv, NEW c \in Cpu, NEW n \in Exit, ExitTb(c, n)
    PROVE  IInv'
<1> USE TbCacheAssumption
<1>1. TypeOK /\ LoopFit(c) /\ RequestsFit /\ FlushAlone /\ 0 \in Exit
      /\ RunsItsPc
  BY DEF IInv, LocalsFit, Exit
<1>2. /\ loc[c] = "exec" /\ loc'[c] = "loop"
      /\ loc' = [loc EXCEPT ![c] = loc'[c]]
      /\ tb[c] \in Slot /\ pc[c] \in Pc /\ Succ(pc[c], n) \in Pc
      /\ pc' = [pc EXCEPT ![c] = Succ(pc[c], n)]
      /\ tb' = [tb EXCEPT ![c] = None]
      /\ last_tb' = [last_tb EXCEPT ![c] = tb[c]]
      /\ tb_exit' = [tb_exit EXCEPT ![c] = n]
      /\ UNCHANGED <<tb_flush_count, work_list, work>>
      /\ UNCHANGED <<user, block, htable, jmp_cache, invloc>>
  BY <1>1 DEF TypeOK, ExitTb, Goto, run, flush, LoopFit, InLoop,
      RunsItsPc, Live, Exit
<1>3. RequestsFit'
  BY <1>1, <1>2 DEF TypeOK, RequestsFit
<1>4. loc[c] \in Quiet \cup {"trans"} /\ loc'[c] \in Quiet
  BY <1>2 DEF Quiet
<1>5. TypeOK'
  <2>1. loc' \in [Cpu -> Loc]
    BY <1>1, <1>2 DEF TypeOK, Loc
  <2>2. pc' \in [Cpu -> Pc \cup {None}] /\ tb' \in [Cpu -> Slot \cup {None}]
    BY <1>1, <1>2 DEF TypeOK
  <2>3. last_tb' \in [Cpu -> Slot \cup {None}] /\ tb_exit' \in [Cpu -> Exit]
    BY <1>1, <1>2 DEF TypeOK
  <2>4. /\ tb_flush_count' \in 0 .. CountMod - 1
        /\ work' \in [Cpu -> 0 .. CountMod - 1]
    BY <1>1, <1>2 DEF TypeOK
  <2> QED  BY <1>1, <1>2, <1>3, <2>1, <2>2, <2>3, <2>4, LoopTypes
<1>6. OthersKeep(c)
  BY <1>1, <1>2 DEF TypeOK, OthersKeep
<1>7. LoopFit(c)'
  BY <1>1, <1>2, <1>5 DEF TypeOK, LoopFit, InLoop, Idle, Live, Invalidating, block, RunsItsPc
<1>8. loc'[c] \in {"cache", "chain", "exec"} =>
        tb'[c] # None /\ Live(tb'[c]) /\ tbpc[tb'[c]] = pc'[c]
  BY <1>1, <1>2 DEF TypeOK, Live, RunsItsPc
<1>9. loc'[c] \notin Idle => ~Flushing
  BY <1>1, <1>2, InLoopNoFlush DEF InLoop
<1> QED  BY <1>2, <1>3, <1>4, <1>5, <1>6, <1>7, <1>8, <1>9, LoopStep

(* Other ways out of generated code.                                       *)
LEMMA ExitOtherStep ==
    ASSUME IInv, NEW c \in Cpu, ExitOther(c)
    PROVE  IInv'
<1> USE TbCacheAssumption
<1>1. TypeOK /\ LoopFit(c) /\ RequestsFit /\ FlushAlone /\ 0 \in Exit
  BY DEF IInv, LocalsFit, Exit
<1>2. /\ loc[c] = "exec" /\ loc'[c] = "loop"
      /\ loc' = [loc EXCEPT ![c] = loc'[c]]
      /\ pc' = [pc EXCEPT ![c] = pc'[c]] /\ pc'[c] \in Pc
      /\ tb' = [tb EXCEPT ![c] = None]
      /\ UNCHANGED last_tb
      /\ UNCHANGED tb_exit
      /\ UNCHANGED <<tb_flush_count, work_list, work>>
      /\ UNCHANGED <<user, block, htable, jmp_cache, invloc>>
  BY <1>1 DEF TypeOK, ExitOther, Goto, run, flush
<1>3. RequestsFit'
  BY <1>1, <1>2 DEF TypeOK, RequestsFit
<1>4. loc[c] \in Quiet \cup {"trans"} /\ loc'[c] \in Quiet
  BY <1>2 DEF Quiet
<1>5. TypeOK'
  <2>1. loc' \in [Cpu -> Loc]
    BY <1>1, <1>2 DEF TypeOK, Loc
  <2>2. pc' \in [Cpu -> Pc \cup {None}] /\ tb' \in [Cpu -> Slot \cup {None}]
    BY <1>1, <1>2 DEF TypeOK
  <2>3. last_tb' \in [Cpu -> Slot \cup {None}] /\ tb_exit' \in [Cpu -> Exit]
    BY <1>1, <1>2 DEF TypeOK
  <2>4. /\ tb_flush_count' \in 0 .. CountMod - 1
        /\ work' \in [Cpu -> 0 .. CountMod - 1]
    BY <1>1, <1>2 DEF TypeOK
  <2> QED  BY <1>1, <1>2, <1>3, <2>1, <2>2, <2>3, <2>4, LoopTypes
<1>6. OthersKeep(c)
  BY <1>1, <1>2 DEF TypeOK, OthersKeep
<1>7. LoopFit(c)'
  BY <1>1, <1>2, <1>5 DEF TypeOK, LoopFit, InLoop, Idle, Live, Invalidating, block
<1>8. loc'[c] \in {"cache", "chain", "exec"} =>
        tb'[c] # None /\ Live(tb'[c]) /\ tbpc[tb'[c]] = pc'[c]
  BY <1>1, <1>2 DEF TypeOK, Live
<1>9. loc'[c] \notin Idle => ~Flushing
  BY <1>1, <1>2, InLoopNoFlush DEF InLoop
<1> QED  BY <1>2, <1>3, <1>4, <1>5, <1>6, <1>7, <1>8, <1>9, LoopStep

(* Flush requests are queued where the queue is empty: by a translation    *)
(* that finds the buffer full,                                             *)
LEMMA FullStep ==
    ASSUME IInv, NEW c \in Cpu, GenFull(c)
    PROVE  IInv'
<1> USE TbCacheAssumption
<1>1. TypeOK /\ LoopFit(c) /\ RequestsFit /\ FlushAlone /\ 0 \in Exit
  BY DEF IInv, LocalsFit, Exit
<1>2. /\ loc[c] = "gen" /\ loc'[c] = "work"
      /\ loc' = [loc EXCEPT ![c] = loc'[c]]
      /\ pc' = [pc EXCEPT ![c] = None]
      /\ tb' = [tb EXCEPT ![c] = None]
      /\ last_tb' = [last_tb EXCEPT ![c] = None]
      /\ tb_exit' = [tb_exit EXCEPT ![c] = 0]
      /\ work_list' = [work_list EXCEPT ![c] = Append(work_list[c], tb_flush_count)]
      /\ UNCHANGED <<tb_flush_count, work>>
      /\ UNCHANGED <<user, block, htable, jmp_cache, invloc>>
  BY <1>1 DEF TypeOK, GenFull, tb_flush, LeaveLoop, Goto, run, flush, RequestsFit
<1>3. RequestsFit'
  <2>1. work_list' = [work_list EXCEPT ![c] = <<tb_flush_count>>]
    <3>1. work_list[c] = <<>>
      BY <1>1, <1>2 DEF RequestsFit
    <3>2. Append(<<>>, tb_flush_count) = <<tb_flush_count>>
      OBVIOUS
    <3> QED  BY <1>2, <3>1, <3>2
  <2>2. \A o \in Cpu : loc'[o] # "work" => loc[o] # "work" /\ o # c
    BY <1>1, <1>2 DEF TypeOK
  <2> QED  BY <1>1, <2>1, <2>2 DEF TypeOK, RequestsFit
<1>4. loc[c] \in Quiet \cup {"trans"} /\ loc'[c] \in Quiet
  BY <1>2 DEF Quiet
<1>5. TypeOK'
  <2>1. loc' \in [Cpu -> Loc]
    BY <1>1, <1>2 DEF TypeOK, Loc
  <2>2. pc' \in [Cpu -> Pc \cup {None}] /\ tb' \in [Cpu -> Slot \cup {None}]
    BY <1>1, <1>2 DEF TypeOK
  <2>3. last_tb' \in [Cpu -> Slot \cup {None}] /\ tb_exit' \in [Cpu -> Exit]
    BY <1>1, <1>2 DEF TypeOK
  <2>4. /\ tb_flush_count' \in 0 .. CountMod - 1
        /\ work' \in [Cpu -> 0 .. CountMod - 1]
    BY <1>1, <1>2 DEF TypeOK
  <2> QED  BY <1>1, <1>2, <1>3, <2>1, <2>2, <2>3, <2>4, LoopTypes
<1>6. OthersKeep(c)
  BY <1>1, <1>2 DEF TypeOK, OthersKeep
<1>7. LoopFit(c)'
  BY <1>1, <1>2, <1>5 DEF TypeOK, LoopFit, InLoop, Idle, Live, Invalidating, block
<1>8. loc'[c] \in {"cache", "chain", "exec"} =>
        tb'[c] # None /\ Live(tb'[c]) /\ tbpc[tb'[c]] = pc'[c]
  BY <1>1, <1>2 DEF TypeOK, Live
<1>9. loc'[c] \notin Idle => ~Flushing
  BY <1>1, <1>2, InLoopNoFlush DEF InLoop
<1> QED  BY <1>2, <1>3, <1>4, <1>5, <1>6, <1>7, <1>8, <1>9, LoopStep

(* and outside the loop.                                                   *)
LEMMA RequestStep ==
    ASSUME IInv, NEW c \in Cpu, RequestFlush(c)
    PROVE  IInv'
<1> USE TbCacheAssumption
<1>1. TypeOK /\ LoopFit(c) /\ RequestsFit /\ FlushAlone /\ 0 \in Exit
  BY DEF IInv, LocalsFit, Exit
<1>2. /\ loc[c] = "out" /\ loc'[c] = "work"
      /\ loc' = [loc EXCEPT ![c] = loc'[c]]
      /\ UNCHANGED pc
      /\ UNCHANGED tb
      /\ UNCHANGED last_tb
      /\ UNCHANGED tb_exit
      /\ work_list' = [work_list EXCEPT ![c] = Append(work_list[c], tb_flush_count)]
      /\ UNCHANGED <<tb_flush_count, work>>
      /\ UNCHANGED <<user, block, htable, jmp_cache, invloc>>
  BY <1>1 DEF TypeOK, RequestFlush, tb_flush, Goto, run, flush, RequestsFit
<1>3. RequestsFit'
  <2>1. work_list' = [work_list EXCEPT ![c] = <<tb_flush_count>>]
    <3>1. work_list[c] = <<>>
      BY <1>1, <1>2 DEF RequestsFit
    <3>2. Append(<<>>, tb_flush_count) = <<tb_flush_count>>
      OBVIOUS
    <3> QED  BY <1>2, <3>1, <3>2
  <2>2. \A o \in Cpu : loc'[o] # "work" => loc[o] # "work" /\ o # c
    BY <1>1, <1>2 DEF TypeOK
  <2> QED  BY <1>1, <2>1, <2>2 DEF TypeOK, RequestsFit
<1>4. loc[c] \in Quiet \cup {"trans"} /\ loc'[c] \in Quiet
  BY <1>2 DEF Quiet
<1>5. TypeOK'
  <2>1. loc' \in [Cpu -> Loc]
    BY <1>1, <1>2 DEF TypeOK, Loc
  <2>2. pc' \in [Cpu -> Pc \cup {None}] /\ tb' \in [Cpu -> Slot \cup {None}]
    BY <1>1, <1>2 DEF TypeOK
  <2>3. last_tb' \in [Cpu -> Slot \cup {None}] /\ tb_exit' \in [Cpu -> Exit]
    BY <1>1, <1>2 DEF TypeOK
  <2>4. /\ tb_flush_count' \in 0 .. CountMod - 1
        /\ work' \in [Cpu -> 0 .. CountMod - 1]
    BY <1>1, <1>2 DEF TypeOK
  <2> QED  BY <1>1, <1>2, <1>3, <2>1, <2>2, <2>3, <2>4, LoopTypes
<1>6. OthersKeep(c)
  BY <1>1, <1>2 DEF TypeOK, OthersKeep
<1>7. LoopFit(c)'
  BY <1>1, <1>2, <1>5 DEF TypeOK, LoopFit, InLoop, Idle, Live, Invalidating, block
<1>8. loc'[c] \in {"cache", "chain", "exec"} =>
        tb'[c] # None /\ Live(tb'[c]) /\ tbpc[tb'[c]] = pc'[c]
  BY <1>1, <1>2 DEF TypeOK, Live
<1>9. loc'[c] \notin Idle => ~Flushing
  BY <1>2 DEF Idle
<1> QED  BY <1>2, <1>3, <1>4, <1>5, <1>6, <1>7, <1>8, <1>9, LoopStep

(* They are taken off it one by one.                                       *)
LEMMA QueueStep ==
    ASSUME IInv, NEW c \in Cpu, process_queued_cpu_work(c)
    PROVE  IInv'
<1> USE TbCacheAssumption
<1>1. TypeOK /\ LoopFit(c) /\ RequestsFit /\ FlushAlone /\ 0 \in Exit
  BY DEF IInv, LocalsFit, Exit
<1>2. /\ loc[c] = "work" /\ loc'[c] \in {"safe", "out"}
      /\ loc' = [loc EXCEPT ![c] = loc'[c]]
      /\ UNCHANGED pc
      /\ UNCHANGED tb
      /\ UNCHANGED last_tb
      /\ UNCHANGED tb_exit
      /\ UNCHANGED tb_flush_count
      /\ \/ /\ loc'[c] = "safe" /\ work_list[c] # <<>>
            /\ work' = [work EXCEPT ![c] = Head(work_list[c])]
            /\ work_list' = [work_list EXCEPT ![c] = Tail(work_list[c])]
         \/ work_list[c] = <<>> /\ UNCHANGED <<work, work_list>>
      /\ UNCHANGED <<user, block, htable, jmp_cache, invloc>>
  BY <1>1 DEF TypeOK, process_queued_cpu_work, Goto, run, flush, RequestsFit
<1>3. RequestsFit'
  <2>1. CASE work_list[c] = <<>>
    BY <1>1, <1>2, <2>1 DEF TypeOK, RequestsFit
  <2>2. ASSUME NEW k \in 0 .. CountMod - 1, work_list[c] = <<k>>
        PROVE  RequestsFit'
    <3>1. work_list' = [work_list EXCEPT ![c] = <<>>]
      BY <1>2, <2>2
    <3> QED  BY <1>1, <1>2, <2>2, <3>1 DEF TypeOK, RequestsFit
  <2> QED  BY <1>1, <2>1, <2>2 DEF RequestsFit
<1>4. loc[c] \in Quiet \cup {"trans"} /\ loc'[c] \in Quiet
  BY <1>2 DEF Quiet
<1>5. TypeOK'
  <2>1. loc' \in [Cpu -> Loc]
    BY <1>1, <1>2 DEF TypeOK, Loc
  <2>2. pc' \in [Cpu -> Pc \cup {None}] /\ tb' \in [Cpu -> Slot \cup {None}]
    BY <1>1, <1>2 DEF TypeOK
  <2>3. last_tb' \in [Cpu -> Slot \cup {None}] /\ tb_exit' \in [Cpu -> Exit]
    BY <1>1, <1>2 DEF TypeOK
  <2>4. /\ tb_flush_count' \in 0 .. CountMod - 1
        /\ work' \in [Cpu -> 0 .. CountMod - 1]
    <3>1. CASE work_list[c] = <<>>
      BY <1>1, <1>2, <3>1 DEF TypeOK
    <3>2. ASSUME NEW k \in 0 .. CountMod - 1, work_list[c] = <<k>>
          PROVE  work' \in [Cpu -> 0 .. CountMod - 1]
      <4>1. work' = [work EXCEPT ![c] = k]
        BY <1>2, <3>2
      <4> QED  BY <1>1, <4>1 DEF TypeOK
    <3>3. work' \in [Cpu -> 0 .. CountMod - 1]
      BY <1>1, <3>1, <3>2 DEF RequestsFit
    <3> QED  BY <1>1, <1>2, <3>3 DEF TypeOK
  <2> QED  BY <1>1, <1>2, <1>3, <2>1, <2>2, <2>3, <2>4, LoopTypes
<1>6. OthersKeep(c)
  BY <1>1, <1>2 DEF TypeOK, OthersKeep
<1>7. LoopFit(c)'
  BY <1>1, <1>2, <1>5 DEF TypeOK, LoopFit, InLoop, Idle, Live, Invalidating, block
<1>8. loc'[c] \in {"cache", "chain", "exec"} =>
        tb'[c] # None /\ Live(tb'[c]) /\ tbpc[tb'[c]] = pc'[c]
  BY <1>1, <1>2 DEF TypeOK, Live
<1>9. loc'[c] \notin Idle => ~Flushing
  BY <1>2 DEF Idle
<1> QED  BY <1>2, <1>3, <1>4, <1>5, <1>6, <1>7, <1>8, <1>9, LoopStep

(* What the types say of single values.                                    *)
Shapes ==
    /\ \A s \in Slot, n \in Exit :
          /\ jmp_dest[s][n].d \in Slot \cup {None}
          /\ target[s][n] \in Slot \cup {None}
    /\ \A t \in Slot : jmp_list[t] \subseteq Jump
    /\ alloc \subseteq Slot /\ htable \subseteq Slot
    /\ \A c \in Cpu :
          /\ tb[c] \in Slot \cup {None} /\ last_tb[c] \in Slot \cup {None}
          /\ inv[c] \in Slot \cup {None} /\ ptr[c] \in Slot \cup {None}
          /\ tb_exit[c] \in Exit /\ idx[c] \in Exit
          /\ ent[c] \in Jump \cup {<<>>}

(* A jump is a block and an exit.                                          *)
LEMMA JumpParts == \A j \in Jump : j[1] \in Slot /\ j[2] \in Exit /\ j = <<j[1], j[2]>>
BY DEF Jump

(* They follow from TypeOK.                                                *)
LEMMA ShapesHold == TypeOK => Shapes
<1> SUFFICES ASSUME TypeOK PROVE Shapes
  OBVIOUS
<1>1. ASSUME NEW s \in Slot, NEW n \in Exit
      PROVE  jmp_dest[s][n].d \in Slot \cup {None} /\ target[s][n] \in Slot \cup {None}
  BY DEF TypeOK
<1>2. /\ \A t \in Slot : jmp_list[t] \subseteq Jump
      /\ alloc \subseteq Slot /\ htable \subseteq Slot
  BY DEF TypeOK
<1>3. ASSUME NEW c \in Cpu
      PROVE  /\ tb[c] \in Slot \cup {None} /\ last_tb[c] \in Slot \cup {None}
             /\ inv[c] \in Slot \cup {None} /\ ptr[c] \in Slot \cup {None}
             /\ tb_exit[c] \in Exit /\ idx[c] \in Exit
             /\ ent[c] \in Jump \cup {<<>>}
  BY DEF TypeOK
<1> QED  BY <1>1, <1>2, <1>3 DEF Shapes

(* ListsExact, with a jump as a block and an exit.                         *)
ListedIsClaimed ==
    \A t \in Slot, s \in Slot, n \in Exit :
        <<s, n>> \in jmp_list[t] =>
            /\ jmp_dest[s][n].d = t
            /\ \/ target[s][n] = t
               \/ \E c \in Cpu : loc[c] = "clear" /\ inv[c] = t /\ ent[c] = <<s, n>>

ClaimedIsListed ==
    \A s \in Slot, n \in Exit :
        jmp_dest[s][n].d # None /\ ~jmp_dest[s][n].m =>
            \/ <<s, n>> \in jmp_list[jmp_dest[s][n].d]
            \/ \E c \in Cpu : /\ loc[c] = "patch" /\ tb[c] = jmp_dest[s][n].d
                              /\ last_tb[c] = s /\ tb_exit[c] = n

(* Both ways of saying it agree.                                          *)
LEMMA ListsSplit == TypeOK => (ListsExact <=> ListedIsClaimed /\ ClaimedIsListed)
<1> SUFFICES ASSUME TypeOK PROVE ListsExact <=> ListedIsClaimed /\ ClaimedIsListed
  OBVIOUS
<1>1. \A t \in Slot : jmp_list[t] \subseteq Jump
  BY DEF TypeOK
<1>2. ASSUME ListsExact PROVE ListedIsClaimed
  <2> SUFFICES ASSUME NEW t \in Slot, NEW s \in Slot, NEW n \in Exit,
                      <<s, n>> \in jmp_list[t]
               PROVE  /\ jmp_dest[s][n].d = t
                      /\ \/ target[s][n] = t
                         \/ \E c \in Cpu : loc[c] = "clear" /\ inv[c] = t /\ ent[c] = <<s, n>>
    BY DEF ListedIsClaimed
  <2>1. PICK j \in jmp_list[t] : j = <<s, n>>
    OBVIOUS
  <2>2. j[1] = s /\ j[2] = n
    BY <2>1
  <2> QED  BY <1>2, <2>1, <2>2 DEF ListsExact
<1>3. ASSUME ListsExact PROVE ClaimedIsListed
  <2> SUFFICES ASSUME NEW s \in Slot, NEW n \in Exit,
                      jmp_dest[s][n].d # None, ~jmp_dest[s][n].m
               PROVE  \/ <<s, n>> \in jmp_list[jmp_dest[s][n].d]
                      \/ \E c \in Cpu : /\ loc[c] = "patch" /\ tb[c] = jmp_dest[s][n].d
                                        /\ last_tb[c] = s /\ tb_exit[c] = n
    BY DEF ClaimedIsListed
  <2> DEFINE j == <<s, n>>
  <2>1. j \in Jump /\ j = <<s, n>> /\ j[1] = s /\ j[2] = n
    BY DEF Jump
  <2> HIDE DEF j
  <2>2. \/ j \in jmp_list[jmp_dest[s][n].d]
        \/ \E c \in Cpu : /\ loc[c] = "patch" /\ tb[c] = jmp_dest[s][n].d
                          /\ <<last_tb[c], tb_exit[c]>> = j
    BY <1>3, <2>1 DEF ListsExact
  <2> QED  BY <2>1, <2>2
<1>4. ASSUME ListedIsClaimed, ClaimedIsListed PROVE ListsExact
  <2>1. ASSUME NEW t \in Slot, NEW j \in jmp_list[t]
        PROVE  /\ jmp_dest[j[1]][j[2]].d = t
               /\ \/ target[j[1]][j[2]] = t
                  \/ \E c \in Cpu : loc[c] = "clear" /\ inv[c] = t /\ ent[c] = j
    <3>1. PICK s \in Slot, n \in Exit : j = <<s, n>>
      BY <1>1, <2>1 DEF Jump
    <3>2. j[1] = s /\ j[2] = n
      BY <3>1
    <3> QED  BY <1>4, <2>1, <3>1, <3>2 DEF ListedIsClaimed
  <2>2. ASSUME NEW j \in Jump,
               jmp_dest[j[1]][j[2]].d # None, ~jmp_dest[j[1]][j[2]].m
        PROVE  \/ j \in jmp_list[jmp_dest[j[1]][j[2]].d]
               \/ \E c \in Cpu : /\ loc[c] = "patch" /\ tb[c] = jmp_dest[j[1]][j[2]].d
                                 /\ <<last_tb[c], tb_exit[c]>> = j
    <3>1. PICK s \in Slot, n \in Exit : j = <<s, n>>
      BY <2>2 DEF Jump
    <3>2. j[1] = s /\ j[2] = n
      BY <3>1
    <3>3. \/ <<s, n>> \in jmp_list[jmp_dest[s][n].d]
          \/ \E c \in Cpu : /\ loc[c] = "patch" /\ tb[c] = jmp_dest[s][n].d
                            /\ last_tb[c] = s /\ tb_exit[c] = n
      BY <1>4, <2>2, <3>2 DEF ClaimedIsListed
    <3> QED  BY <3>1, <3>2, <3>3
  <2> QED  BY <2>1, <2>2 DEF ListsExact
<1> QED  BY <1>2, <1>3, <1>4

(* ... in the next state too.                                              *)
LEMMA ListsSplitNext ==
    TypeOK' => (ListsExact' <=> ListedIsClaimed' /\ ClaimedIsListed')
BY ListsSplit, PTL

(* Writing one of the two parts of a jump's destination.                   *)
LEMMA DestSet ==
    ASSUME NEW f \in [Slot -> [Exit -> [d : Slot \cup {None}, m : BOOLEAN]]],
           NEW s \in Slot, NEW n \in Exit, NEW t \in Slot \cup {None},
           NEW g, g = [f EXCEPT ![s][n].d = t]
    PROVE  /\ g \in [Slot -> [Exit -> [d : Slot \cup {None}, m : BOOLEAN]]]
           /\ \A q \in Slot, k \in Exit :
                     /\ g[q][k].m = f[q][k].m
                     /\ (q # s \/ k # n) => g[q][k].d = f[q][k].d
           /\ g[s][n].d = t
<1>1. g = [f EXCEPT ![s] = [f[s] EXCEPT ![n] = [f[s][n] EXCEPT !.d = t]]]
  OBVIOUS
<1>2. f[s][n] \in [d : Slot \cup {None}, m : BOOLEAN]
  OBVIOUS
<1>3. PICK r \in [d : Slot \cup {None}, m : BOOLEAN] :
         r = [f[s][n] EXCEPT !.d = t] /\ r.d = t /\ r.m = f[s][n].m
  BY <1>2
<1>4. g = [f EXCEPT ![s] = [f[s] EXCEPT ![n] = r]]
  BY <1>1, <1>3
<1>5. g[s][n] = r /\ \A q \in Slot, k \in Exit : (q # s \/ k # n) => g[q][k] = f[q][k]
  BY <1>4
<1>6. g \in [Slot -> [Exit -> [d : Slot \cup {None}, m : BOOLEAN]]]
  <2> DEFINE R == [d : Slot \cup {None}, m : BOOLEAN]
  <2>1. r \in R
    OBVIOUS
  <2>2. f \in [Slot -> [Exit -> R]]
    OBVIOUS
  <2> HIDE DEF R
  <2>3. [f[s] EXCEPT ![n] = r] \in [Exit -> R]
    BY <2>1, <2>2
  <2>4. g \in [Slot -> [Exit -> R]]
    BY <2>2, <2>3, <1>4
  <2> QED  BY <2>4 DEF R
<1> QED  BY <1>3, <1>5, <1>6

(* Setting its LSB.                                                        *)
LEMMA MarkSet ==
    ASSUME NEW f \in [Slot -> [Exit -> [d : Slot \cup {None}, m : BOOLEAN]]],
           NEW s \in Slot, NEW n \in Exit,
           NEW g, g = [f EXCEPT ![s][n].m = TRUE]
    PROVE  /\ g \in [Slot -> [Exit -> [d : Slot \cup {None}, m : BOOLEAN]]]
           /\ \A q \in Slot, k \in Exit : (q # s \/ k # n) => g[q][k] = f[q][k]
           /\ g[s][n].d = f[s][n].d
           /\ g[s][n].m
<1>1. PICK b \in BOOLEAN : b = TRUE
  OBVIOUS
<1>2. g = [f EXCEPT ![s] = [f[s] EXCEPT ![n] = [f[s][n] EXCEPT !.m = b]]]
  BY <1>1
<1>3. f[s][n] \in [d : Slot \cup {None}, m : BOOLEAN]
  OBVIOUS
<1>4. PICK r \in [d : Slot \cup {None}, m : BOOLEAN] :
         r = [d |-> f[s][n].d, m |-> b]
  BY <1>3
<1>5. r = [f[s][n] EXCEPT !.m = b]
  BY <1>3, <1>4
<1>6. g = [f EXCEPT ![s] = [f[s] EXCEPT ![n] = r]]
  BY <1>2, <1>5
<1>7. g[s][n] = r /\ \A q \in Slot, k \in Exit : (q # s \/ k # n) => g[q][k] = f[q][k]
  BY <1>6
<1>8. g \in [Slot -> [Exit -> [d : Slot \cup {None}, m : BOOLEAN]]]
  <2> DEFINE R == [d : Slot \cup {None}, m : BOOLEAN]
  <2>1. r \in R
    OBVIOUS
  <2>2. f \in [Slot -> [Exit -> R]]
    OBVIOUS
  <2> HIDE DEF R
  <2>3. [f[s] EXCEPT ![n] = r] \in [Exit -> R]
    BY <2>1, <2>2
  <2>4. g \in [Slot -> [Exit -> R]]
    BY <2>2, <2>3, <1>6
  <2> QED  BY <2>4 DEF R
<1>9. g[s][n].m
  BY <1>1, <1>4, <1>7, Zenon
<1>10. g[s][n].d = f[s][n].d
  BY <1>4, <1>7
<1> QED  BY <1>7, <1>8, <1>9, <1>10

(* Both keep its type.                                                     *)
LEMMA DestTypes ==
    ASSUME NEW f \in [Slot -> [Exit -> [d : Slot \cup {None}, m : BOOLEAN]]],
           NEW s \in Slot, NEW n \in Exit, NEW t \in Slot \cup {None}
    PROVE  /\ [f EXCEPT ![s][n].d = t]
                 \in [Slot -> [Exit -> [d : Slot \cup {None}, m : BOOLEAN]]]
           /\ [f EXCEPT ![s][n].m = TRUE]
                 \in [Slot -> [Exit -> [d : Slot \cup {None}, m : BOOLEAN]]]
<1>1. PICK g : g = [f EXCEPT ![s][n].d = t]
  OBVIOUS
<1>2. PICK h : h = [f EXCEPT ![s][n].m = TRUE]
  OBVIOUS
<1>3. g \in [Slot -> [Exit -> [d : Slot \cup {None}, m : BOOLEAN]]]
  BY <1>1, DestSet
<1>4. h \in [Slot -> [Exit -> [d : Slot \cup {None}, m : BOOLEAN]]]
  BY <1>2, MarkSet, Zenon
<1> QED  BY <1>1, <1>2, <1>3, <1>4, Zenon

(* A step of c that changes no jump and no list, with c neither patching   *)
(* nor clearing, keeps them exact.                                         *)
LEMMA ListsKept ==
    ASSUME ListedIsClaimed, ClaimedIsListed, NEW c \in Cpu,
           loc[c] \notin {"clear", "patch"},
           \A o \in Cpu \ {c} : loc'[o] = loc[o], \A o \in Cpu \ {c} : tb'[o] = tb[o],
           \A o \in Cpu \ {c} : inv'[o] = inv[o], \A o \in Cpu \ {c} : ent'[o] = ent[o],
           UNCHANGED <<jmp_dest, jmp_list, target, last_tb, tb_exit>>
    PROVE  ListedIsClaimed' /\ ClaimedIsListed'
<1>1. \A q \in Cpu : loc[q] \in {"clear", "patch"} =>
          /\ loc'[q] = loc[q] /\ tb'[q] = tb[q] /\ inv'[q] = inv[q] /\ ent'[q] = ent[q]
  OBVIOUS
<1>2. ListedIsClaimed'
  <2> SUFFICES ASSUME NEW u \in Slot, NEW v \in Slot, NEW k \in Exit,
                      (<<v, k>> \in jmp_list[u])'
               PROVE  (/\ jmp_dest[v][k].d = u
                       /\ \/ target[v][k] = u
                          \/ \E q \in Cpu : loc[q] = "clear" /\ inv[q] = u
                                            /\ ent[q] = <<v, k>>)'
    BY DEF ListedIsClaimed
  <2>0. <<v, k>> \in jmp_list[u]
    OBVIOUS
  <2>1. /\ jmp_dest[v][k].d = u
        /\ \/ target[v][k] = u
           \/ \E q \in Cpu : loc[q] = "clear" /\ inv[q] = u /\ ent[q] = <<v, k>>
    BY <2>0 DEF ListedIsClaimed
  <2> QED  BY <1>1, <2>1
<1>3. ClaimedIsListed'
  <2> SUFFICES ASSUME NEW v \in Slot, NEW k \in Exit,
                      (jmp_dest[v][k].d # None /\ ~jmp_dest[v][k].m)'
               PROVE  (\/ <<v, k>> \in jmp_list[jmp_dest[v][k].d]
                       \/ \E q \in Cpu : /\ loc[q] = "patch" /\ tb[q] = jmp_dest[v][k].d
                                         /\ last_tb[q] = v /\ tb_exit[q] = k)'
    BY DEF ClaimedIsListed
  <2>1. \/ <<v, k>> \in jmp_list[jmp_dest[v][k].d]
        \/ \E q \in Cpu : /\ loc[q] = "patch" /\ tb[q] = jmp_dest[v][k].d
                          /\ last_tb[q] = v /\ tb_exit[q] = k
    BY DEF ClaimedIsListed
  <2> QED  BY <1>1, <2>1
<1> QED  BY <1>2, <1>3

(* The same for a jump that is being removed from a list.                  *)
LEMMA RemovalKept ==
    ASSUME RemovalReady, NEW c \in Cpu,
           loc[c] \notin {"remove", "patch"}, loc'[c] # "remove",
           \A o \in Cpu \ {c} : loc'[o] = loc[o], \A o \in Cpu \ {c} : tb'[o] = tb[o],
           \A o \in Cpu \ {c} : inv'[o] = inv[o], \A o \in Cpu \ {c} : idx'[o] = idx[o],
           \A o \in Cpu \ {c} : ptr'[o] = ptr[o],
           UNCHANGED <<jmp_dest, jmp_list, invalid, last_tb, tb_exit>>
    PROVE  RemovalReady'
<1> SUFFICES ASSUME NEW o \in Cpu, loc'[o] = "remove"
             PROVE  (LET dest == jmp_dest[inv[o]][idx[o]]
                     IN  /\ dest.m
                         /\ \/ /\ dest.d = ptr[o]
                               /\ \/ <<inv[o], idx[o]>> \in jmp_list[ptr[o]]
                                  \/ \E q \in Cpu :
                                        /\ loc[q] = "patch" /\ tb[q] = ptr[o]
                                        /\ last_tb[q] = inv[o] /\ tb_exit[q] = idx[o]
                            \/ dest.d = None /\ invalid[ptr[o]])'
  BY DEF RemovalReady
<1>1. /\ o # c /\ loc[o] = "remove"
      /\ inv'[o] = inv[o] /\ idx'[o] = idx[o] /\ ptr'[o] = ptr[o]
  OBVIOUS
<1>2. \A q \in Cpu : loc[q] = "patch" => loc'[q] = "patch" /\ tb'[q] = tb[q]
  OBVIOUS
<1>3. /\ jmp_dest[inv[o]][idx[o]].m
      /\ \/ /\ jmp_dest[inv[o]][idx[o]].d = ptr[o]
            /\ \/ <<inv[o], idx[o]>> \in jmp_list[ptr[o]]
               \/ \E q \in Cpu :
                     /\ loc[q] = "patch" /\ tb[q] = ptr[o]
                     /\ last_tb[q] = inv[o] /\ tb_exit[q] = idx[o]
         \/ jmp_dest[inv[o]][idx[o]].d = None /\ invalid[ptr[o]]
  BY <1>1, Zenon DEF RemovalReady
<1> QED  BY <1>1, <1>2, <1>3

(* The entry of the cache is written for the pc of the vCPU.               *)
LEMMA CacheWriteStep ==
    ASSUME IInv, NEW c \in Cpu, CacheWrite(c)
    PROVE  IInv'
<1> USE TbCacheAssumption
<1>1. TypeOK /\ RequestsFit /\ LocalsFit /\ FoundLive /\ JumpsLead
      /\ JumpsListed /\ PatchHeld /\ MarkedOnce /\ RemovalReady /\ FlushAlone
      /\ Published /\ RunsItsPc /\ ListsExact
  BY DEF IInv
<1>s. Shapes /\ ListedIsClaimed /\ ClaimedIsListed
  BY <1>1, ShapesHold, ListsSplit
<1>2. /\ loc[c] = "cache" /\ loc' = [loc EXCEPT ![c] = "chain"]
      /\ jmp_cache' = [jmp_cache EXCEPT ![c][pc[c]] = tb[c]]
      /\ UNCHANGED <<user, alloc, tbpc, invalid, jmp_dest, jmp_list, target,
                     htable, tb_flush_count, work_list, work, pc, tb,
                     last_tb, tb_exit, inv, idx, ptr, ent>>
  BY <1>1 DEF TypeOK, CacheWrite, Goto, run, flush, block, invloc
<1>3. /\ loc[c] = "cache" /\ loc'[c] = "chain"
      /\ \A o \in Cpu \ {c} : loc'[o] = loc[o]
      /\ pc[c] \in Pc
      /\ \A o \in Cpu, p \in Pc :
        \/ jmp_cache'[o][p] = jmp_cache[o][p]
        \/ o = c /\ p = pc[c] /\ jmp_cache'[o][p] = tb[c]
      /\ ~Flushing
      /\ UNCHANGED <<user, alloc, tbpc, invalid, jmp_dest, jmp_list, target,
                     htable, tb_flush_count, work_list, work, pc, tb,
                     last_tb, tb_exit, inv, idx, ptr, ent>>
  <2>1. loc[c] = "cache" /\ loc'[c] = "chain"
    BY <1>1, <1>2 DEF TypeOK
  <2>2. \A o \in Cpu \ {c} : loc'[o] = loc[o]
    BY <1>1, <1>2 DEF TypeOK
  <2>3. pc[c] \in Pc
    BY <1>1, <1>2 DEF LocalsFit, LoopFit, InLoop
  <2>4. \A o \in Cpu, p \in Pc :
          \/ jmp_cache'[o][p] = jmp_cache[o][p]
          \/ o = c /\ p = pc[c] /\ jmp_cache'[o][p] = tb[c]
    BY <1>1, <1>2 DEF TypeOK
  <2>5. ~Flushing
    BY <1>1, <1>2, InLoopNoFlush DEF InLoop
  <2>6. UNCHANGED <<user, alloc, tbpc, invalid, jmp_dest, jmp_list, target,
                       htable, tb_flush_count, work_list, work, pc, tb,
                       last_tb, tb_exit, inv, idx, ptr, ent>>
    BY <1>2
  <2> QED  BY <2>1, <2>2, <2>3, <2>4, <2>5, <2>6
<1>4. TypeOK'
  <2>1. loc' \in [Cpu -> Loc]
    BY <1>1, <1>2 DEF TypeOK, Loc, Invalidating
  <2>2. jmp_cache' \in [Cpu -> [Pc -> Slot \cup {None}]]
    BY <1>1, <1>2 DEF TypeOK
  <2> QED  BY <1>1, <1>2, <2>1, <2>2 DEF TypeOK
<1>5. RequestsFit'
  BY <1>1, <1>3 DEF RequestsFit
<1>6. LocalsFit'
  BY <1>1, <1>3 DEF LocalsFit, LoopFit, InvalidationFit, InLoop, Live, Idle,
      Invalidating
<1>7. FoundLive'
  BY <1>1, <1>3 DEF FoundLive, Live, RunsItsPc
<1>8. JumpsLead'
  BY <1>1, <1>3 DEF JumpsLead, Live
<1>9. JumpsListed'
  BY <1>1, <1>3 DEF JumpsListed
<1>10. PatchHeld'
  BY <1>1, <1>3 DEF PatchHeld
<1>11. MarkedOnce'
  BY <1>1, <1>3 DEF MarkedOnce
<1>12. RemovalReady'
  BY <1>1, <1>3, RemovalKept
<1>13. FlushAlone'
  BY <1>1, <1>3 DEF FlushAlone, InLoop, Invalidating, Flushing
<1>14. Published'
  BY <1>1, <1>3 DEF Published, Flushing, Live
<1>15. RunsItsPc'
  BY <1>1, <1>3 DEF RunsItsPc, Live
<1>16. ListsExact'
  <2>1. ListedIsClaimed' /\ ClaimedIsListed'
    BY <1>s, <1>3, ListsKept
  <2> QED  BY <1>4, <2>1, ListsSplitNext
<1> QED  BY <1>4, <1>5, <1>6, <1>7, <1>8, <1>9, <1>10, <1>11, <1>12,
             <1>13, <1>14, <1>15, <1>16 DEF IInv

(* A block taken from the buffer is nobody else's.                         *)
LEMMA GenStartStep ==
    ASSUME IInv, NEW c \in Cpu, GenStart(c)
    PROVE  IInv'
<1> USE TbCacheAssumption
<1>1. TypeOK /\ RequestsFit /\ LocalsFit /\ FoundLive /\ JumpsLead
      /\ JumpsListed /\ PatchHeld /\ MarkedOnce /\ RemovalReady /\ FlushAlone
      /\ Published /\ RunsItsPc /\ ListsExact
  BY DEF IInv
<1>s. Shapes /\ ListedIsClaimed /\ ClaimedIsListed
  BY <1>1, ShapesHold, ListsSplit
<1>0. PICK t \in Slot \ alloc : alloc' = alloc \cup {t} /\ tb' = [tb EXCEPT ![c] = t]
  BY DEF GenStart
<1>2. /\ loc[c] = "gen" /\ loc' = [loc EXCEPT ![c] = "trans"]
      /\ alloc' = alloc \cup {t} /\ tb' = [tb EXCEPT ![c] = t]
      /\ UNCHANGED <<user, tbpc, invalid, jmp_dest, jmp_list, target, htable,
                     jmp_cache, tb_flush_count, work_list, work, pc, last_tb,
                     tb_exit, inv, idx, ptr, ent>>
  BY <1>0, <1>1 DEF TypeOK, GenStart, Goto, flush, invloc
<1>3. /\ loc[c] = "gen" /\ loc'[c] = "trans"
      /\ \A o \in Cpu \ {c} : loc'[o] = loc[o]
      /\ pc[c] \in Pc
      /\ tb'[c] = t
      /\ \A o \in Cpu \ {c} : tb'[o] = tb[o]
      /\ alloc' = alloc \cup {t} /\ t \notin alloc /\ t \in Slot
      /\ tbpc[t] = None
      /\ ~Flushing
      /\ UNCHANGED <<user, tbpc, invalid, jmp_dest, jmp_list, target, htable,
                     jmp_cache, tb_flush_count, work_list, work, pc, last_tb,
                     tb_exit, inv, idx, ptr, ent>>
  <2>1. loc[c] = "gen" /\ loc'[c] = "trans"
    BY <1>1, <1>2 DEF TypeOK
  <2>2. \A o \in Cpu \ {c} : loc'[o] = loc[o]
    BY <1>1, <1>2 DEF TypeOK
  <2>3. pc[c] \in Pc
    BY <1>1, <1>2 DEF LocalsFit, LoopFit, InLoop
  <2>4. tb'[c] = t
    BY <1>1, <1>2 DEF TypeOK
  <2>5. \A o \in Cpu \ {c} : tb'[o] = tb[o]
    BY <1>1, <1>2 DEF TypeOK
  <2>6. alloc' = alloc \cup {t} /\ t \notin alloc /\ t \in Slot
    BY <1>2, <1>0
  <2>7. tbpc[t] = None
    BY <1>0, <1>1 DEF FoundLive
  <2>8. ~Flushing
    BY <1>1, <1>2, InLoopNoFlush DEF InLoop
  <2>9. UNCHANGED <<user, tbpc, invalid, jmp_dest, jmp_list, target, htable,
                       jmp_cache, tb_flush_count, work_list, work, pc, last_tb,
                       tb_exit, inv, idx, ptr, ent>>
    BY <1>2
  <2> QED  BY <2>1, <2>2, <2>3, <2>4, <2>5, <2>6, <2>7, <2>8, <2>9
<1>4. TypeOK'
  <2>1. loc' \in [Cpu -> Loc]
    BY <1>1, <1>2 DEF TypeOK, Loc, Invalidating
  <2>2. tb' \in [Cpu -> Slot \cup {None}]
    BY <1>1, <1>2 DEF TypeOK
  <2>3. alloc' \subseteq Slot
    BY <1>1, <1>2 DEF TypeOK
  <2> QED  BY <1>1, <1>2, <2>1, <2>2, <2>3 DEF TypeOK
<1>5. RequestsFit'
  BY <1>1, <1>3 DEF RequestsFit
<1>6. LocalsFit'
  BY <1>1, <1>3 DEF LocalsFit, LoopFit, InvalidationFit, InLoop, Live, Idle,
      Invalidating
<1>7. FoundLive'
  BY <1>1, <1>3 DEF FoundLive, Live
<1>8. JumpsLead'
  BY <1>1, <1>3 DEF JumpsLead, Live
<1>9. JumpsListed'
  BY <1>1, <1>3 DEF JumpsListed
<1>10. PatchHeld'
  BY <1>1, <1>3 DEF PatchHeld
<1>11. MarkedOnce'
  BY <1>1, <1>3 DEF MarkedOnce
<1>12. RemovalReady'
  BY <1>1, <1>3, RemovalKept
<1>13. FlushAlone'
  BY <1>1, <1>3 DEF FlushAlone, InLoop, Invalidating, Flushing
<1>14. Published'
  BY <1>1, <1>3 DEF Published, Flushing, Live
<1>15. RunsItsPc'
  BY <1>1, <1>3 DEF RunsItsPc, Live
<1>16. ListsExact'
  <2>1. ListedIsClaimed' /\ ClaimedIsListed'
    BY <1>s, <1>3, ListsKept
  <2> QED  BY <1>4, <2>1, ListsSplitNext
<1> QED  BY <1>4, <1>5, <1>6, <1>7, <1>8, <1>9, <1>10, <1>11, <1>12,
             <1>13, <1>14, <1>15, <1>16 DEF IInv

(* The two outcomes of tb_link_page.                                       *)
Publishes(c) ==
    /\ loc[c] = "trans" /\ loc' = [loc EXCEPT ![c] = "cache"]
    /\ tbpc' = [tbpc EXCEPT ![tb[c]] = pc[c]]
    /\ invalid' = [invalid EXCEPT ![tb[c]] = FALSE]
    /\ jmp_dest' = [jmp_dest EXCEPT ![tb[c]] = [n \in Exit |-> Unset]]
    /\ jmp_list' = [jmp_list EXCEPT ![tb[c]] = {}]
    /\ target' = [target EXCEPT ![tb[c]] = [n \in Exit |-> None]]
    /\ htable' = htable \cup {tb[c]}
    /\ UNCHANGED <<user, alloc, tb, jmp_cache, flush, pc, last_tb, tb_exit, invloc>>

GivesBack(c) ==
    /\ loc[c] = "trans" /\ loc' = [loc EXCEPT ![c] = "cache"]
    /\ \E u \in htable : Matches(u, pc[c]) /\ tb' = [tb EXCEPT ![c] = u]
    /\ alloc' = alloc \ {tb[c]}
    /\ UNCHANGED <<user, tbpc, invalid, jmp_dest, jmp_list, target, htable,
                   jmp_cache, flush, pc, last_tb, tb_exit, invloc>>

(* A block is published: before, it had no pc, and so no jump led from it   *)
(* or to it and no list held one.                                          *)
LEMMA PublishStep ==
    ASSUME IInv, NEW c \in Cpu, Publishes(c)
    PROVE  IInv'
<1> USE TbCacheAssumption
<1>1. TypeOK /\ RequestsFit /\ LocalsFit /\ FoundLive /\ JumpsLead
      /\ JumpsListed /\ PatchHeld /\ MarkedOnce /\ RemovalReady /\ FlushAlone
      /\ Published /\ RunsItsPc /\ ListsExact
  BY DEF IInv
<1>s. Shapes /\ ListedIsClaimed /\ ClaimedIsListed
  BY <1>1, ShapesHold, ListsSplit
<1>t. jmp_dest \in [Slot -> [Exit -> [d : Slot \cup {None}, m : BOOLEAN]]]
  BY <1>1 DEF TypeOK
<1>0. PICK t \in Slot : t = tb[c] /\ t \in alloc /\ tbpc[t] = None /\ t # None
  BY <1>1 DEF TypeOK, LocalsFit, LoopFit, Publishes
<1>2. /\ loc[c] = "trans" /\ loc' = [loc EXCEPT ![c] = "cache"]
      /\ tbpc' = [tbpc EXCEPT ![t] = pc[c]] /\ invalid' = [invalid EXCEPT ![t] = FALSE]
      /\ jmp_dest' = [jmp_dest EXCEPT ![t] = [n \in Exit |-> Unset]]
      /\ jmp_list' = [jmp_list EXCEPT ![t] = {}]
      /\ target' = [target EXCEPT ![t] = [n \in Exit |-> None]]
      /\ htable' = htable \cup {t}
      /\ UNCHANGED <<user, alloc, jmp_cache, tb_flush_count, work_list, work,
                     pc, tb, last_tb, tb_exit, inv, idx, ptr, ent>>
  BY <1>0 DEF Publishes, flush, invloc
<1>3. /\ loc[c] = "trans" /\ loc'[c] = "cache"
      /\ \A o \in Cpu \ {c} : loc'[o] = loc[o]
      /\ pc[c] \in Pc
      /\ tb[c] = t /\ t \in Slot /\ t \in alloc /\ tbpc[t] = None /\ t # None
      /\ \A o \in Cpu \ {c} : loc[o] = "trans" => tb[o] # t
      /\ tbpc'[t] = pc[c] /\ \A u \in Slot \ {t} : tbpc'[u] = tbpc[u]
      /\ ~invalid'[t]
      /\ \A u \in Slot \ {t} : invalid'[u] = invalid[u]
      /\ htable' = htable \cup {t}
      /\ ~Flushing
      /\ \A s \in Slot, n \in Exit : jmp_dest'[s][n].d = jmp_dest[s][n].d
      /\ \A s \in Slot \ {t}, n \in Exit : jmp_dest'[s][n].m = jmp_dest[s][n].m
      /\ \A n \in Exit : ~jmp_dest'[t][n].m
      /\ \A s \in Slot, n \in Exit : target'[s][n] = target[s][n]
      /\ \A u \in Slot : jmp_list'[u] = jmp_list[u]
      /\ \A n \in Exit : jmp_dest[t][n].d = None /\ target[t][n] = None
      /\ \A o \in Cpu : inv[o] # t /\ last_tb[o] # t /\ ptr[o] # t
      /\ \A o \in Cpu : loc[o] = "patch" => last_tb[o] # None /\ tb[o] # None /\ tb[o] # t
      /\ \A o \in Cpu : loc[o] = "remove" => inv[o] # None /\ ptr[o] # None
      /\ UNCHANGED <<user, alloc, jmp_cache, tb_flush_count, work_list, work,
                     pc, tb, last_tb, tb_exit, inv, idx, ptr, ent>>
  <2>1. loc[c] = "trans" /\ loc'[c] = "cache"
    BY <1>1, <1>2 DEF TypeOK
  <2>2. \A o \in Cpu \ {c} : loc'[o] = loc[o]
    BY <1>1, <1>2 DEF TypeOK
  <2>3. pc[c] \in Pc
    BY <1>1, <1>2 DEF LocalsFit, LoopFit, InLoop
  <2>4. tb[c] = t /\ t \in Slot /\ t \in alloc /\ tbpc[t] = None /\ t # None
    BY <1>0
  <2>5. \A o \in Cpu \ {c} : loc[o] = "trans" => tb[o] # t
    BY <1>0, <1>1, <1>2 DEF LocalsFit, LoopFit
  <2>6. tbpc'[t] = pc[c] /\ \A u \in Slot \ {t} : tbpc'[u] = tbpc[u]
    BY <1>0, <1>1, <1>2 DEF TypeOK
  <2>7. ~invalid'[t]
    BY <1>0, <1>1, <1>2 DEF TypeOK
  <2>8. \A u \in Slot \ {t} : invalid'[u] = invalid[u]
    BY <1>0, <1>1, <1>2 DEF TypeOK
  <2>9. htable' = htable \cup {t}
    BY <1>2
  <2>10. ~Flushing
    BY <1>1, <1>2, InLoopNoFlush DEF InLoop
  <2>11. \A s \in Slot, n \in Exit : jmp_dest'[s][n].d = jmp_dest[s][n].d
    BY <1>0, <1>1, <1>2 DEF TypeOK, JumpsLead, Live, Unset
  <2>12. \A s \in Slot \ {t}, n \in Exit : jmp_dest'[s][n].m = jmp_dest[s][n].m
    BY <1>0, <1>1, <1>2 DEF TypeOK
  <2>13. \A n \in Exit : ~jmp_dest'[t][n].m
    BY <1>0, <1>1, <1>2 DEF TypeOK, Unset
  <2>14. \A s \in Slot, n \in Exit : target'[s][n] = target[s][n]
    BY <1>0, <1>1, <1>2 DEF TypeOK, JumpsLead, Live
  <2>15. \A u \in Slot : jmp_list'[u] = jmp_list[u]
    <3>1. jmp_list[t] = {}
      <4> SUFFICES ASSUME NEW j \in jmp_list[t] PROVE FALSE
        OBVIOUS
      <4>1. j[1] \in Slot /\ j[2] \in Exit
        BY <1>0, <1>1 DEF TypeOK, Jump
      <4>2. jmp_dest[j[1]][j[2]].d = t
        BY <1>0, <1>1 DEF ListsExact
      <4> QED  BY <1>0, <1>1, <4>1, <4>2 DEF JumpsLead, Live
    <3> QED  BY <1>0, <1>1, <1>2, <3>1 DEF TypeOK
  <2>16. \A n \in Exit : jmp_dest[t][n].d = None /\ target[t][n] = None
    BY <1>0, <1>1 DEF JumpsLead, Live
  <2>17. \A o \in Cpu : inv[o] # t /\ last_tb[o] # t /\ ptr[o] # t
    BY <1>0, <1>1 DEF LocalsFit, LoopFit, InvalidationFit, Live
  <2>18. \A o \in Cpu : loc[o] = "patch" => last_tb[o] # None /\ tb[o] # None /\ tb[o] # t
    BY <1>0, <1>1, <1>2 DEF RunsItsPc, Live, PatchHeld
  <2>19. \A o \in Cpu : loc[o] = "remove" => inv[o] # None /\ ptr[o] # None
    BY <1>1 DEF LocalsFit, InvalidationFit, Invalidating
  <2>20. UNCHANGED <<user, alloc, jmp_cache, tb_flush_count, work_list, work,
                       pc, tb, last_tb, tb_exit, inv, idx, ptr, ent>>
    BY <1>2
  <2> QED  BY <2>1, <2>2, <2>3, <2>4, <2>5, <2>6, <2>7, <2>8, <2>9, <2>10,
              <2>11, <2>12, <2>13, <2>14, <2>15, <2>16, <2>17, <2>18, <2>19,
              <2>20
<1>4. TypeOK'
  <2>1. loc' \in [Cpu -> Loc]
    BY <1>1, <1>2 DEF TypeOK, Loc, Invalidating
  <2>2. htable' \subseteq Slot
    BY <1>1, <1>2 DEF TypeOK
  <2>3. tbpc' \in [Slot -> Pc \cup {None}]
    BY <1>1, <1>2 DEF TypeOK
  <2>4. invalid' \in [Slot -> BOOLEAN]
    BY <1>1, <1>2 DEF TypeOK
  <2>5. jmp_dest' \in [Slot -> [Exit -> [d : Slot \cup {None}, m : BOOLEAN]]]
    BY <1>1, <1>2 DEF TypeOK, Unset
  <2>6. jmp_list' \in [Slot -> SUBSET Jump]
    BY <1>1, <1>2 DEF TypeOK
  <2>7. target' \in [Slot -> [Exit -> Slot \cup {None}]]
    BY <1>1, <1>2 DEF TypeOK
  <2> QED  BY <1>1, <1>2, <2>1, <2>2, <2>3, <2>4, <2>5, <2>6, <2>7 DEF TypeOK
<1>5. RequestsFit'
  BY <1>1, <1>3 DEF RequestsFit
<1>6. LocalsFit'
  <2>1. ASSUME NEW o \in Cpu PROVE LoopFit(o)'
    <3>1. LoopFit(o)
      BY <1>1 DEF LocalsFit
    <3> QED  BY <3>1, <1>3, <1>s
             DEF LoopFit, InLoop, Live, Idle, Invalidating, Shapes
  <2>2. ASSUME NEW o \in Cpu PROVE InvalidationFit(o)'
    <3>1. InvalidationFit(o)
      BY <1>1 DEF LocalsFit
    <3> QED  BY <3>1, <1>3, <1>s
             DEF InvalidationFit, Live, Invalidating, Shapes
  <2> QED  BY <2>1, <2>2 DEF LocalsFit
<1>7. FoundLive'
  BY <1>1, <1>3 DEF FoundLive, Live, TypeOK
<1>8. JumpsLead'
  BY <1>1, <1>3, <1>s DEF JumpsLead, Live, Shapes
<1>9. JumpsListed'
  BY <1>1, <1>3, <1>s DEF JumpsListed, Shapes
<1>10. PatchHeld'
  <2> SUFFICES ASSUME NEW o \in Cpu
               PROVE  (/\ loc[o] = "patch" =>
                             /\ last_tb[o] # None /\ ~invalid[tb[o]]
                             /\ jmp_dest[last_tb[o]][tb_exit[o]].d = tb[o]
                       /\ loc[o] = "clear" =>
                             /\ ent[o] \in jmp_list[inv[o]]
                             /\ target[ent[o][1]][ent[o][2]] = None)'
    BY DEF PatchHeld
  <2>1. /\ loc[o] = "patch" =>
              /\ last_tb[o] # None /\ ~invalid[tb[o]]
              /\ jmp_dest[last_tb[o]][tb_exit[o]].d = tb[o]
        /\ loc[o] = "clear" =>
              /\ ent[o] \in jmp_list[inv[o]]
              /\ target[ent[o][1]][ent[o][2]] = None
    BY <1>1, Zenon DEF PatchHeld
  <2>2. loc'[o] = "patch" =>
              /\ last_tb'[o] # None /\ ~invalid'[tb'[o]]
              /\ jmp_dest'[last_tb'[o]][tb_exit'[o]].d = tb'[o]
    BY <2>1, <1>3, <1>s DEF Shapes
  <2>3. loc'[o] = "clear" =>
              /\ ent'[o] \in jmp_list'[inv'[o]]
              /\ target'[ent'[o][1]][ent'[o][2]] = None
    <3>1. loc'[o] = "clear" => loc[o] = "clear"
      BY <1>3
    <3>2. loc[o] = "clear" => inv[o] # None /\ ent[o] # <<>>
      BY <1>1 DEF LocalsFit, InvalidationFit, Invalidating
    <3>3. loc[o] = "clear" =>
              inv[o] \in Slot /\ ent[o][1] \in Slot /\ ent[o][2] \in Exit
      BY <1>s, <3>2, JumpParts DEF Shapes
    <3> QED  BY <2>1, <1>3, <3>1, <3>3, <1>s DEF Shapes
  <2> QED  BY <2>2, <2>3
<1>11. MarkedOnce'
  <2>1. (\A t_1 \in htable, k \in Exit : ~jmp_dest[t_1][k].m)'
    BY <1>1, <1>3, <1>s DEF MarkedOnce, TypeOK, Shapes
  <2>2. ASSUME NEW o \in Cpu, NEW k \in Exit,
               (\/ loc[o] \in {"uncache", "detach"} /\ k >= idx[o]
                \/ loc[o] = "remove" /\ k > idx[o])'
        PROVE  ~jmp_dest'[inv'[o]][k].m
    <3>1. inv[o] # None => ~jmp_dest[inv[o]][k].m
      BY <2>2, <1>1, <1>3, <1>s DEF MarkedOnce, TypeOK, Shapes
    <3>2. inv[o] # None
      BY <2>2, <1>1, <1>3 DEF LocalsFit, InvalidationFit, Invalidating
    <3> QED  BY <3>1, <3>2, <2>2, <1>1, <1>3, <1>s DEF MarkedOnce, TypeOK, Shapes
  <2> QED  BY <2>1, <2>2 DEF MarkedOnce
<1>12. RemovalReady'
  <2> SUFFICES ASSUME NEW o \in Cpu, loc'[o] = "remove"
               PROVE  (LET dest == jmp_dest[inv[o]][idx[o]]
                       IN  /\ dest.m
                           /\ \/ /\ dest.d = ptr[o]
                                 /\ \/ <<inv[o], idx[o]>> \in jmp_list[ptr[o]]
                                    \/ \E q \in Cpu :
                                          /\ loc[q] = "patch" /\ tb[q] = ptr[o]
                                          /\ last_tb[q] = inv[o] /\ tb_exit[q] = idx[o]
                              \/ dest.d = None /\ invalid[ptr[o]])'
    BY DEF RemovalReady
  <2>1. o # c /\ loc[o] = "remove"
    BY <1>3
  <2>2. \A q \in Cpu : loc[q] = "patch" => q # c /\ loc'[q] = "patch"
    BY <1>3
  <2>3. /\ jmp_dest[inv[o]][idx[o]].m
        /\ \/ /\ jmp_dest[inv[o]][idx[o]].d = ptr[o]
              /\ \/ <<inv[o], idx[o]>> \in jmp_list[ptr[o]]
                 \/ \E q \in Cpu :
                       /\ loc[q] = "patch" /\ tb[q] = ptr[o]
                       /\ last_tb[q] = inv[o] /\ tb_exit[q] = idx[o]
           \/ jmp_dest[inv[o]][idx[o]].d = None /\ invalid[ptr[o]]
    BY <1>1, <2>1, Zenon DEF RemovalReady
  <2> QED  BY <1>3, <2>1, <2>2, <2>3, <1>s DEF Shapes
<1>13. FlushAlone'
  BY <1>1, <1>3 DEF FlushAlone, InLoop, Invalidating, Flushing
<1>14. Published'
  BY <1>1, <1>3 DEF Published, Flushing, Live
<1>15. RunsItsPc'
  BY <1>1, <1>3, <1>s DEF RunsItsPc, Live, Shapes
<1>16. ListsExact'
  <2>1. \A q \in Cpu : loc[q] \in {"clear", "patch"} => q # c /\ loc'[q] = loc[q]
    BY <1>3
  <2>2. ListedIsClaimed'
    <3> SUFFICES ASSUME NEW u \in Slot, NEW v \in Slot, NEW k \in Exit,
                        (<<v, k>> \in jmp_list[u])'
                 PROVE  (/\ jmp_dest[v][k].d = u
                         /\ \/ target[v][k] = u
                            \/ \E q \in Cpu : loc[q] = "clear" /\ inv[q] = u
                                              /\ ent[q] = <<v, k>>)'
      BY DEF ListedIsClaimed
    <3>1. /\ jmp_dest[v][k].d = u
          /\ \/ target[v][k] = u
             \/ \E q \in Cpu : loc[q] = "clear" /\ inv[q] = u /\ ent[q] = <<v, k>>
      <4>1. <<v, k>> \in jmp_list[u]
        BY <1>3
      <4> QED  BY <1>s, <4>1, Zenon DEF ListedIsClaimed
    <3> QED  BY <2>1, <3>1, <1>s, <1>3, <1>s DEF Shapes
  <2>3. ClaimedIsListed'
    <3> SUFFICES ASSUME NEW v \in Slot, NEW k \in Exit,
                        (jmp_dest[v][k].d # None /\ ~jmp_dest[v][k].m)'
                 PROVE  (\/ <<v, k>> \in jmp_list[jmp_dest[v][k].d]
                         \/ \E q \in Cpu : /\ loc[q] = "patch" /\ tb[q] = jmp_dest[v][k].d
                                           /\ last_tb[q] = v /\ tb_exit[q] = k)'
      BY DEF ClaimedIsListed
    <3>1. \/ <<v, k>> \in jmp_list[jmp_dest[v][k].d]
          \/ \E q \in Cpu : /\ loc[q] = "patch" /\ tb[q] = jmp_dest[v][k].d
                            /\ last_tb[q] = v /\ tb_exit[q] = k
      <4>1. jmp_dest[v][k].d # None /\ ~jmp_dest[v][k].m
        BY <1>3
      <4> QED  BY <1>s, <4>1 DEF ClaimedIsListed
    <3> QED  BY <2>1, <3>1, <1>s, <1>3, <1>s DEF Shapes
  <2> QED  BY <1>4, <2>2, <2>3, ListsSplitNext
<1> QED  BY <1>4, <1>5, <1>6, <1>7, <1>8, <1>9, <1>10, <1>11, <1>12,
             <1>13, <1>14, <1>15, <1>16 DEF IInv

(* Another vCPU was first: the block is given back.                        *)
LEMMA GiveBackStep ==
    ASSUME IInv, NEW c \in Cpu, GivesBack(c)
    PROVE  IInv'
<1> USE TbCacheAssumption
<1>1. TypeOK /\ RequestsFit /\ LocalsFit /\ FoundLive /\ JumpsLead
      /\ JumpsListed /\ PatchHeld /\ MarkedOnce /\ RemovalReady /\ FlushAlone
      /\ Published /\ RunsItsPc /\ ListsExact
  BY DEF IInv
<1>s. Shapes /\ ListedIsClaimed /\ ClaimedIsListed
  BY <1>1, ShapesHold, ListsSplit
<1>0. PICK t \in Slot : t = tb[c] /\ t \in alloc /\ tbpc[t] = None /\ t # None
  BY <1>1 DEF TypeOK, LocalsFit, LoopFit, GivesBack
<1>u. PICK u \in htable : Matches(u, pc[c]) /\ tb' = [tb EXCEPT ![c] = u]
  BY DEF GivesBack
<1>2. /\ loc[c] = "trans" /\ loc' = [loc EXCEPT ![c] = "cache"]
      /\ tb' = [tb EXCEPT ![c] = u] /\ alloc' = alloc \ {t}
      /\ UNCHANGED <<user, tbpc, invalid, jmp_dest, jmp_list, target, htable,
                     jmp_cache, tb_flush_count, work_list, work, pc, last_tb,
                     tb_exit, inv, idx, ptr, ent>>
  BY <1>0, <1>u DEF GivesBack, flush, invloc
<1>3. /\ loc[c] = "trans" /\ loc'[c] = "cache"
      /\ \A o \in Cpu \ {c} : loc'[o] = loc[o]
      /\ pc[c] \in Pc
      /\ tb'[c] = u
      /\ \A o \in Cpu \ {c} : tb'[o] = tb[o]
      /\ alloc' = alloc \ {t} /\ tbpc[t] = None
      /\ Live(u) /\ tbpc[u] = pc[c] /\ u # None
      /\ \A o \in Cpu \ {c} : loc[o] = "trans" => tb[o] # t
      /\ ~Flushing
      /\ UNCHANGED <<user, tbpc, invalid, jmp_dest, jmp_list, target, htable,
                     jmp_cache, tb_flush_count, work_list, work, pc, last_tb,
                     tb_exit, inv, idx, ptr, ent>>
  <2>1. loc[c] = "trans" /\ loc'[c] = "cache"
    BY <1>1, <1>2 DEF TypeOK
  <2>2. \A o \in Cpu \ {c} : loc'[o] = loc[o]
    BY <1>1, <1>2 DEF TypeOK
  <2>3. pc[c] \in Pc
    BY <1>1, <1>2 DEF LocalsFit, LoopFit, InLoop
  <2>4. tb'[c] = u
    BY <1>1, <1>2 DEF TypeOK
  <2>5. \A o \in Cpu \ {c} : tb'[o] = tb[o]
    BY <1>1, <1>2 DEF TypeOK
  <2>6. alloc' = alloc \ {t} /\ tbpc[t] = None
    BY <1>0, <1>2
  <2>7. Live(u) /\ tbpc[u] = pc[c] /\ u # None
    BY <1>u, <1>1 DEF FoundLive, Matches, TypeOK
  <2>8. \A o \in Cpu \ {c} : loc[o] = "trans" => tb[o] # t
    BY <1>0, <1>1, <1>2 DEF LocalsFit, LoopFit
  <2>9. ~Flushing
    BY <1>1, <1>2, InLoopNoFlush DEF InLoop
  <2>10. UNCHANGED <<user, tbpc, invalid, jmp_dest, jmp_list, target, htable,
                       jmp_cache, tb_flush_count, work_list, work, pc, last_tb,
                       tb_exit, inv, idx, ptr, ent>>
    BY <1>2
  <2> QED  BY <2>1, <2>2, <2>3, <2>4, <2>5, <2>6, <2>7, <2>8, <2>9, <2>10
<1>4. TypeOK'
  <2>1. loc' \in [Cpu -> Loc]
    BY <1>1, <1>2 DEF TypeOK, Loc, Invalidating
  <2>2. tb' \in [Cpu -> Slot \cup {None}]
    BY <1>1, <1>2 DEF TypeOK
  <2>3. alloc' \subseteq Slot
    BY <1>1, <1>2 DEF TypeOK
  <2> QED  BY <1>1, <1>2, <2>1, <2>2, <2>3 DEF TypeOK
<1>5. RequestsFit'
  BY <1>1, <1>3 DEF RequestsFit
<1>6. LocalsFit'
  BY <1>1, <1>3 DEF LocalsFit, LoopFit, InvalidationFit, InLoop, Live, Idle,
      Invalidating
<1>7. FoundLive'
  BY <1>1, <1>3 DEF FoundLive, Live
<1>8. JumpsLead'
  BY <1>1, <1>3 DEF JumpsLead, Live
<1>9. JumpsListed'
  BY <1>1, <1>3 DEF JumpsListed
<1>10. PatchHeld'
  BY <1>1, <1>3 DEF PatchHeld
<1>11. MarkedOnce'
  BY <1>1, <1>3 DEF MarkedOnce
<1>12. RemovalReady'
  BY <1>1, <1>3, RemovalKept
<1>13. FlushAlone'
  BY <1>1, <1>3 DEF FlushAlone, InLoop, Invalidating, Flushing
<1>14. Published'
  BY <1>1, <1>3 DEF Published, Flushing, Live
<1>15. RunsItsPc'
  BY <1>1, <1>3 DEF RunsItsPc, Live
<1>16. ListsExact'
  <2>1. ListedIsClaimed' /\ ClaimedIsListed'
    BY <1>s, <1>3, ListsKept
  <2> QED  BY <1>4, <2>1, ListsSplitNext
<1> QED  BY <1>4, <1>5, <1>6, <1>7, <1>8, <1>9, <1>10, <1>11, <1>12,
             <1>13, <1>14, <1>15, <1>16 DEF IInv

(* tb_link_page does the one or the other.                                 *)
LEMMA LinkStep ==
    ASSUME IInv, NEW c \in Cpu, tb_link_page(c)
    PROVE  IInv'
<1>1. CASE /\ tbpc' = [tbpc EXCEPT ![tb[c]] = pc[c]]
           /\ invalid' = [invalid EXCEPT ![tb[c]] = FALSE]
           /\ jmp_dest' = [jmp_dest EXCEPT ![tb[c]] = [n \in Exit |-> Unset]]
           /\ jmp_list' = [jmp_list EXCEPT ![tb[c]] = {}]
           /\ target' = [target EXCEPT ![tb[c]] = [n \in Exit |-> None]]
           /\ htable' = htable \cup {tb[c]}
           /\ UNCHANGED <<alloc, tb>>
  <2>1. Publishes(c)
    BY <1>1 DEF tb_link_page, Publishes, Goto
  <2> QED  BY <2>1, PublishStep
<1>2. CASE /\ \E u \in {u \in htable : Matches(u, pc[c])} : tb' = [tb EXCEPT ![c] = u]
           /\ alloc' = alloc \ {tb[c]}
           /\ UNCHANGED <<tbpc, invalid, jmp_dest, jmp_list, target, htable>>
  <2>1. GivesBack(c)
    BY <1>2 DEF tb_link_page, GivesBack, Goto
  <2> QED  BY <2>1, GiveBackStep
<1> QED  BY <1>1, <1>2 DEF tb_link_page

(* A jump is claimed: it was null, and so neither listed nor marked.        *)
LEMMA ClaimStep ==
    ASSUME IInv, NEW c \in Cpu, AddJumpClaim(c)
    PROVE  IInv'
<1> USE TbCacheAssumption
<1>1. TypeOK /\ RequestsFit /\ LocalsFit /\ FoundLive /\ JumpsLead
      /\ JumpsListed /\ PatchHeld /\ MarkedOnce /\ RemovalReady /\ FlushAlone
      /\ Published /\ RunsItsPc /\ ListsExact
  BY DEF IInv
<1>s. Shapes /\ ListedIsClaimed /\ ClaimedIsListed
  BY <1>1, ShapesHold, ListsSplit
<1>t. jmp_dest \in [Slot -> [Exit -> [d : Slot \cup {None}, m : BOOLEAN]]]
  BY <1>1 DEF TypeOK
<1>0. PICK s \in Slot, n \in Exit, t \in Slot :
        s = last_tb[c] /\ n = tb_exit[c] /\ t = tb[c]
  BY <1>1, TbCacheAssumption DEF AddJumpClaim, TypeOK, RunsItsPc
<1>2. /\ loc[c] = "chain" /\ loc' = [loc EXCEPT ![c] = "patch"]
      /\ ~invalid[t] /\ jmp_dest[s][n] = Unset
      /\ jmp_dest' = [jmp_dest EXCEPT ![s][n].d = t]
      /\ UNCHANGED <<user, alloc, tbpc, invalid, jmp_list, target, htable,
                     jmp_cache, tb_flush_count, work_list, work, pc, tb,
                     last_tb, tb_exit, inv, idx, ptr, ent>>
  BY <1>0, <1>1 DEF AddJumpClaim, MayClaim, Goto, flush, run, invloc
<1>d. t \in Slot \cup {None}
  BY <1>0
<1>3. /\ loc[c] = "chain" /\ loc'[c] = "patch"
      /\ \A o \in Cpu \ {c} : loc'[o] = loc[o]
      /\ last_tb[c] = s /\ tb_exit[c] = n /\ tb[c] = t /\ s # None /\ t # None
      /\ ~invalid[t] /\ jmp_dest[s][n].d = None /\ ~jmp_dest[s][n].m
      /\ jmp_dest'[s][n].d = t
      /\ \A q \in Slot, k \in Exit : jmp_dest'[q][k].m = jmp_dest[q][k].m
      /\ \A q \in Slot, k \in Exit :
        (q # s \/ k # n) => jmp_dest'[q][k].d = jmp_dest[q][k].d
      /\ Live(s) /\ Live(t) /\ tbpc[t] = Succ(tbpc[s], n)
      /\ \A o \in Cpu : loc[o] = "patch" => last_tb[o] # None /\ tb[o] # None
      /\ \A o \in Cpu : loc[o] = "remove" => inv[o] # None /\ ptr[o] # None
      /\ pc[c] \in Pc
      /\ ~Flushing
      /\ UNCHANGED <<user, alloc, tbpc, invalid, jmp_list, target, htable,
                     jmp_cache, tb_flush_count, work_list, work, pc, tb,
                     last_tb, tb_exit, inv, idx, ptr, ent>>
  <2>1. loc[c] = "chain" /\ loc'[c] = "patch"
    BY <1>1, <1>2 DEF TypeOK
  <2>2. \A o \in Cpu \ {c} : loc'[o] = loc[o]
    BY <1>1, <1>2 DEF TypeOK
  <2>3. last_tb[c] = s /\ tb_exit[c] = n /\ tb[c] = t /\ s # None /\ t # None
    BY <1>0
  <2>4. ~invalid[t] /\ jmp_dest[s][n].d = None /\ ~jmp_dest[s][n].m
    BY <1>2 DEF Unset
  <2>5. jmp_dest'[s][n].d = t
    BY <1>t, <1>2, DestSet
  <2>6. \A q \in Slot, k \in Exit : jmp_dest'[q][k].m = jmp_dest[q][k].m
    BY <1>t, <1>2, DestSet
  <2>7. \A q \in Slot, k \in Exit :
          (q # s \/ k # n) => jmp_dest'[q][k].d = jmp_dest[q][k].d
    BY <1>t, <1>2, DestSet
  <2>8. Live(s) /\ Live(t) /\ tbpc[t] = Succ(tbpc[s], n)
    BY <1>0, <1>1, <1>2 DEF LocalsFit, LoopFit, RunsItsPc
  <2>9. \A o \in Cpu : loc[o] = "patch" => last_tb[o] # None /\ tb[o] # None
    BY <1>1 DEF RunsItsPc, PatchHeld
  <2>10. \A o \in Cpu : loc[o] = "remove" => inv[o] # None /\ ptr[o] # None
    BY <1>1 DEF LocalsFit, InvalidationFit, Invalidating
  <2>11. pc[c] \in Pc
    BY <1>1, <1>2 DEF LocalsFit, LoopFit, InLoop
  <2>12. ~Flushing
    BY <1>1, <1>2, InLoopNoFlush DEF InLoop
  <2>13. UNCHANGED <<user, alloc, tbpc, invalid, jmp_list, target, htable,
                       jmp_cache, tb_flush_count, work_list, work, pc, tb,
                       last_tb, tb_exit, inv, idx, ptr, ent>>
    BY <1>2
  <2> QED  BY <2>1, <2>2, <2>3, <2>4, <2>5, <2>6, <2>7, <2>8, <2>9, <2>10,
              <2>11, <2>12, <2>13
<1>4. TypeOK'
  <2>1. loc' \in [Cpu -> Loc]
    BY <1>1, <1>2 DEF TypeOK, Loc, Invalidating
  <2>2. jmp_dest' \in [Slot -> [Exit -> [d : Slot \cup {None}, m : BOOLEAN]]]
    BY <1>d, <1>2, <1>t, DestTypes, Zenon
  <2> QED  BY <1>1, <1>2, <2>1, <2>2 DEF TypeOK
<1>5. RequestsFit'
  BY <1>1, <1>3 DEF RequestsFit
<1>6. LocalsFit'
  BY <1>1, <1>3 DEF LocalsFit, LoopFit, InvalidationFit, InLoop, Live, Idle,
      Invalidating
<1>7. FoundLive'
  BY <1>1, <1>3 DEF FoundLive, Live
<1>8. JumpsLead'
  BY <1>1, <1>3, <1>s DEF JumpsLead, Live, Shapes
<1>9. JumpsListed'
  BY <1>1, <1>3 DEF JumpsListed
<1>10. PatchHeld'
  <2> SUFFICES ASSUME NEW o \in Cpu
               PROVE  (/\ loc[o] = "patch" =>
                             /\ last_tb[o] # None /\ ~invalid[tb[o]]
                             /\ jmp_dest[last_tb[o]][tb_exit[o]].d = tb[o]
                       /\ loc[o] = "clear" =>
                             /\ ent[o] \in jmp_list[inv[o]]
                             /\ target[ent[o][1]][ent[o][2]] = None)'
    BY DEF PatchHeld
  <2>1. /\ loc[o] = "patch" =>
              /\ last_tb[o] # None /\ ~invalid[tb[o]]
              /\ jmp_dest[last_tb[o]][tb_exit[o]].d = tb[o]
        /\ loc[o] = "clear" =>
              /\ ent[o] \in jmp_list[inv[o]]
              /\ target[ent[o][1]][ent[o][2]] = None
    BY <1>1, Zenon DEF PatchHeld
  <2>2. loc'[o] = "patch" =>
              /\ last_tb'[o] # None /\ ~invalid'[tb'[o]]
              /\ jmp_dest'[last_tb'[o]][tb_exit'[o]].d = tb'[o]
    BY <2>1, <1>3, <1>s DEF Shapes
  <2>3. loc'[o] = "clear" =>
              /\ ent'[o] \in jmp_list'[inv'[o]]
              /\ target'[ent'[o][1]][ent'[o][2]] = None
    <3>1. loc'[o] = "clear" => loc[o] = "clear"
      BY <1>3
    <3>2. loc[o] = "clear" => inv[o] # None /\ ent[o] # <<>>
      BY <1>1 DEF LocalsFit, InvalidationFit, Invalidating
    <3>3. loc[o] = "clear" =>
              inv[o] \in Slot /\ ent[o][1] \in Slot /\ ent[o][2] \in Exit
      BY <1>s, <3>2, JumpParts DEF Shapes
    <3> QED  BY <2>1, <1>3, <3>1, <3>3, <1>s DEF Shapes
  <2> QED  BY <2>2, <2>3
<1>11. MarkedOnce'
  <2>1. (\A t_1 \in htable, k \in Exit : ~jmp_dest[t_1][k].m)'
    BY <1>1, <1>3, <1>s DEF MarkedOnce, Shapes
  <2>2. ASSUME NEW o \in Cpu, NEW k \in Exit,
               (\/ loc[o] \in {"uncache", "detach"} /\ k >= idx[o]
                \/ loc[o] = "remove" /\ k > idx[o])'
        PROVE  ~jmp_dest'[inv'[o]][k].m
    <3>1. inv[o] # None => ~jmp_dest[inv[o]][k].m
      BY <2>2, <1>1, <1>3, <1>s DEF MarkedOnce, Shapes
    <3>2. inv[o] # None
      BY <2>2, <1>1, <1>3 DEF LocalsFit, InvalidationFit, Invalidating
    <3> QED  BY <3>1, <3>2, <2>2, <1>1, <1>3, <1>s DEF MarkedOnce, Shapes
  <2> QED  BY <2>1, <2>2 DEF MarkedOnce
<1>12. RemovalReady'
  <2> SUFFICES ASSUME NEW o \in Cpu, loc'[o] = "remove"
               PROVE  (LET dest == jmp_dest[inv[o]][idx[o]]
                       IN  /\ dest.m
                           /\ \/ /\ dest.d = ptr[o]
                                 /\ \/ <<inv[o], idx[o]>> \in jmp_list[ptr[o]]
                                    \/ \E q \in Cpu :
                                          /\ loc[q] = "patch" /\ tb[q] = ptr[o]
                                          /\ last_tb[q] = inv[o] /\ tb_exit[q] = idx[o]
                              \/ dest.d = None /\ invalid[ptr[o]])'
    BY DEF RemovalReady
  <2>1. o # c /\ loc[o] = "remove"
    BY <1>3
  <2>2. \A q \in Cpu : loc[q] = "patch" => q # c /\ loc'[q] = "patch"
    BY <1>3
  <2>3. /\ jmp_dest[inv[o]][idx[o]].m
        /\ \/ /\ jmp_dest[inv[o]][idx[o]].d = ptr[o]
              /\ \/ <<inv[o], idx[o]>> \in jmp_list[ptr[o]]
                 \/ \E q \in Cpu :
                       /\ loc[q] = "patch" /\ tb[q] = ptr[o]
                       /\ last_tb[q] = inv[o] /\ tb_exit[q] = idx[o]
           \/ jmp_dest[inv[o]][idx[o]].d = None /\ invalid[ptr[o]]
    BY <1>1, <2>1, Zenon DEF RemovalReady
  <2> QED  BY <1>3, <2>1, <2>2, <2>3, <1>s DEF Shapes
<1>13. FlushAlone'
  BY <1>1, <1>3 DEF FlushAlone, InLoop, Invalidating, Flushing
<1>14. Published'
  BY <1>1, <1>3 DEF Published, Flushing, Live
<1>15. RunsItsPc'
  BY <1>1, <1>3 DEF RunsItsPc, Live
<1>16. ListsExact'
  <2>1. \A q \in Cpu : loc[q] \in {"clear", "patch"} => q # c /\ loc'[q] = loc[q]
    BY <1>3
  <2>2. ListedIsClaimed'
    <3> SUFFICES ASSUME NEW u \in Slot, NEW v \in Slot, NEW k \in Exit,
                        (<<v, k>> \in jmp_list[u])'
                 PROVE  (/\ jmp_dest[v][k].d = u
                         /\ \/ target[v][k] = u
                            \/ \E q \in Cpu : loc[q] = "clear" /\ inv[q] = u
                                              /\ ent[q] = <<v, k>>)'
      BY DEF ListedIsClaimed
    <3>1. /\ jmp_dest[v][k].d = u
          /\ \/ target[v][k] = u
             \/ \E q \in Cpu : loc[q] = "clear" /\ inv[q] = u /\ ent[q] = <<v, k>>
      <4>1. <<v, k>> \in jmp_list[u]
        BY <1>3
      <4> QED  BY <1>s, <4>1, Zenon DEF ListedIsClaimed
    <3> QED  BY <2>1, <3>1, <1>s, <1>3, <1>s DEF Shapes
  <2>3. ClaimedIsListed'
    <3> SUFFICES ASSUME NEW v \in Slot, NEW k \in Exit,
                        (jmp_dest[v][k].d # None /\ ~jmp_dest[v][k].m)'
                 PROVE  (\/ <<v, k>> \in jmp_list[jmp_dest[v][k].d]
                         \/ \E q \in Cpu : /\ loc[q] = "patch" /\ tb[q] = jmp_dest[v][k].d
                                           /\ last_tb[q] = v /\ tb_exit[q] = k)'
      BY DEF ClaimedIsListed
    <3>1. CASE v = s /\ k = n
      BY <3>1, <1>3
    <3>2. CASE v # s \/ k # n
      <4>1. \/ <<v, k>> \in jmp_list[jmp_dest[v][k].d]
            \/ \E q \in Cpu : /\ loc[q] = "patch" /\ tb[q] = jmp_dest[v][k].d
                              /\ last_tb[q] = v /\ tb_exit[q] = k
        <5>1. jmp_dest[v][k].d # None /\ ~jmp_dest[v][k].m
          BY <3>2, <1>3
        <5> QED  BY <1>s, <5>1 DEF ClaimedIsListed
      <4> QED  BY <2>1, <4>1, <1>s, <1>3, <1>s DEF Shapes
    <3> QED  BY <3>1, <3>2
  <2> QED  BY <1>4, <2>2, <2>3, ListsSplitNext
<1> QED  BY <1>4, <1>5, <1>6, <1>7, <1>8, <1>9, <1>10, <1>11, <1>12,
             <1>13, <1>14, <1>15, <1>16 DEF IInv

(* It is patched and listed.  Nobody is unlinking it: its destination was  *)
(* valid when it was locked and still is.                                  *)
LEMMA PatchStep ==
    ASSUME IInv, NEW c \in Cpu, AddJumpPatch(c)
    PROVE  IInv'
<1> USE TbCacheAssumption
<1>1. TypeOK /\ RequestsFit /\ LocalsFit /\ FoundLive /\ JumpsLead
      /\ JumpsListed /\ PatchHeld /\ MarkedOnce /\ RemovalReady /\ FlushAlone
      /\ Published /\ RunsItsPc /\ ListsExact
  BY DEF IInv
<1>s. Shapes /\ ListedIsClaimed /\ ClaimedIsListed
  BY <1>1, ShapesHold, ListsSplit
<1>0. PICK s \in Slot, n \in Exit, t \in Slot :
        s = last_tb[c] /\ n = tb_exit[c] /\ t = tb[c]
  BY <1>1, TbCacheAssumption DEF AddJumpPatch, TypeOK, RunsItsPc, PatchHeld
<1>2. /\ loc[c] = "patch" /\ loc' = [loc EXCEPT ![c] = "exec"]
      /\ target' = [target EXCEPT ![s][n] = t]
      /\ jmp_list' = [jmp_list EXCEPT ![t] = jmp_list[t] \cup {<<s, n>>}]
      /\ last_tb' = [last_tb EXCEPT ![c] = None] /\ tb_exit' = [tb_exit EXCEPT ![c] = 0]
      /\ UNCHANGED <<user, alloc, tbpc, invalid, jmp_dest, htable, jmp_cache,
                     tb_flush_count, work_list, work, pc, tb, inv, idx, ptr,
                     ent>>
  BY <1>0, <1>1 DEF AddJumpPatch, Goto, flush, run, invloc
<1>3. /\ loc[c] = "patch" /\ loc'[c] = "exec"
      /\ \A o \in Cpu \ {c} : loc'[o] = loc[o]
      /\ last_tb[c] = s /\ tb_exit[c] = n /\ tb[c] = t /\ s # None /\ t # None
      /\ ~invalid[t] /\ jmp_dest[s][n].d = t
      /\ target'[s][n] = t
      /\ \A q \in Slot, k \in Exit : (q # s \/ k # n) => target'[q][k] = target[q][k]
      /\ jmp_list'[t] = jmp_list[t] \cup {<<s, n>>}
      /\ \A u \in Slot \ {t} : jmp_list'[u] = jmp_list[u]
      /\ last_tb'[c] = None /\ tb_exit'[c] = 0
      /\ \A o \in Cpu \ {c} : last_tb'[o] = last_tb[o]
      /\ \A o \in Cpu \ {c} : tb_exit'[o] = tb_exit[o]
      /\ Live(s) /\ Live(t) /\ tbpc[t] = Succ(tbpc[s], n)
      /\ \A o \in Cpu : loc[o] = "remove" => inv[o] # None /\ ptr[o] # None
      /\ \A o \in Cpu : loc[o] = "patch" => last_tb[o] # None /\ tb[o] # None
      /\ \A o \in Cpu : loc[o] \in Invalidating => inv[o] # t
      /\ pc[c] \in Pc
      /\ ~Flushing
      /\ UNCHANGED <<user, alloc, tbpc, invalid, jmp_dest, htable, jmp_cache,
                     tb_flush_count, work_list, work, pc, tb, inv, idx, ptr,
                     ent>>
  <2>1. loc[c] = "patch" /\ loc'[c] = "exec"
    BY <1>1, <1>2 DEF TypeOK
  <2>2. \A o \in Cpu \ {c} : loc'[o] = loc[o]
    BY <1>1, <1>2 DEF TypeOK
  <2>3. last_tb[c] = s /\ tb_exit[c] = n /\ tb[c] = t /\ s # None /\ t # None
    BY <1>0
  <2>4. ~invalid[t] /\ jmp_dest[s][n].d = t
    BY <1>0, <1>1, <1>2 DEF PatchHeld
  <2>5. target'[s][n] = t
    BY <1>1, <1>2 DEF TypeOK
  <2>6. \A q \in Slot, k \in Exit : (q # s \/ k # n) => target'[q][k] = target[q][k]
    BY <1>1, <1>2 DEF TypeOK
  <2>7. jmp_list'[t] = jmp_list[t] \cup {<<s, n>>}
    BY <1>1, <1>2 DEF TypeOK
  <2>8. \A u \in Slot \ {t} : jmp_list'[u] = jmp_list[u]
    BY <1>1, <1>2 DEF TypeOK
  <2>9. last_tb'[c] = None /\ tb_exit'[c] = 0
    BY <1>1, <1>2 DEF TypeOK
  <2>10. \A o \in Cpu \ {c} : last_tb'[o] = last_tb[o]
    BY <1>1, <1>2 DEF TypeOK
  <2>11. \A o \in Cpu \ {c} : tb_exit'[o] = tb_exit[o]
    BY <1>1, <1>2 DEF TypeOK
  <2>12. Live(s) /\ Live(t) /\ tbpc[t] = Succ(tbpc[s], n)
    BY <1>0, <1>1, <1>2 DEF LocalsFit, LoopFit, RunsItsPc
  <2>13. \A o \in Cpu : loc[o] = "remove" => inv[o] # None /\ ptr[o] # None
    BY <1>1 DEF LocalsFit, InvalidationFit, Invalidating
  <2>14. \A o \in Cpu : loc[o] = "patch" => last_tb[o] # None /\ tb[o] # None
    BY <1>1 DEF RunsItsPc, PatchHeld
  <2>15. \A o \in Cpu : loc[o] \in Invalidating => inv[o] # t
    BY <1>0, <1>1, <1>2 DEF LocalsFit, InvalidationFit, PatchHeld
  <2>16. pc[c] \in Pc
    BY <1>1, <1>2 DEF LocalsFit, LoopFit, InLoop
  <2>17. ~Flushing
    BY <1>1, <1>2, InLoopNoFlush DEF InLoop
  <2>18. UNCHANGED <<user, alloc, tbpc, invalid, jmp_dest, htable, jmp_cache,
                       tb_flush_count, work_list, work, pc, tb, inv, idx, ptr,
                       ent>>
    BY <1>2
  <2> QED  BY <2>1, <2>2, <2>3, <2>4, <2>5, <2>6, <2>7, <2>8, <2>9, <2>10,
              <2>11, <2>12, <2>13, <2>14, <2>15, <2>16, <2>17, <2>18
<1>4. TypeOK'
  <2>1. loc' \in [Cpu -> Loc]
    BY <1>1, <1>2 DEF TypeOK, Loc, Invalidating
  <2>2. target' \in [Slot -> [Exit -> Slot \cup {None}]]
    BY <1>1, <1>2 DEF TypeOK
  <2>3. jmp_list' \in [Slot -> SUBSET Jump]
    BY <1>1, <1>2 DEF TypeOK, Jump
  <2>4. last_tb' \in [Cpu -> Slot \cup {None}]
    BY <1>1, <1>2 DEF TypeOK
  <2>5. tb_exit' \in [Cpu -> Exit]
    BY <1>1, <1>2 DEF TypeOK, Exit
  <2> QED  BY <1>1, <1>2, <2>1, <2>2, <2>3, <2>4, <2>5 DEF TypeOK
<1>5. RequestsFit'
  BY <1>1, <1>3 DEF RequestsFit
<1>6. LocalsFit'
  <2>1. ASSUME NEW o \in Cpu PROVE LoopFit(o)'
    <3>1. LoopFit(o)
      BY <1>1 DEF LocalsFit
    <3> QED  BY <3>1, <1>3, <1>s
             DEF LoopFit, InLoop, Live, Idle, Invalidating, Shapes
  <2>2. ASSUME NEW o \in Cpu PROVE InvalidationFit(o)'
    <3>1. InvalidationFit(o)
      BY <1>1 DEF LocalsFit
    <3> QED  BY <3>1, <1>3, <1>s
             DEF InvalidationFit, Live, Invalidating, Shapes
  <2> QED  BY <2>1, <2>2 DEF LocalsFit
<1>7. FoundLive'
  BY <1>1, <1>3 DEF FoundLive, Live
<1>8. JumpsLead'
  BY <1>1, <1>3, <1>s DEF JumpsLead, Live, Shapes
<1>9. JumpsListed'
  BY <1>1, <1>3, <1>s DEF JumpsListed, Shapes
<1>10. PatchHeld'
  <2> SUFFICES ASSUME NEW o \in Cpu
               PROVE  (/\ loc[o] = "patch" =>
                             /\ last_tb[o] # None /\ ~invalid[tb[o]]
                             /\ jmp_dest[last_tb[o]][tb_exit[o]].d = tb[o]
                       /\ loc[o] = "clear" =>
                             /\ ent[o] \in jmp_list[inv[o]]
                             /\ target[ent[o][1]][ent[o][2]] = None)'
    BY DEF PatchHeld
  <2>1. /\ loc[o] = "patch" =>
              /\ last_tb[o] # None /\ ~invalid[tb[o]]
              /\ jmp_dest[last_tb[o]][tb_exit[o]].d = tb[o]
        /\ loc[o] = "clear" =>
              /\ ent[o] \in jmp_list[inv[o]]
              /\ target[ent[o][1]][ent[o][2]] = None
    BY <1>1, Zenon DEF PatchHeld
  <2>2. loc'[o] = "patch" =>
              /\ last_tb'[o] # None /\ ~invalid'[tb'[o]]
              /\ jmp_dest'[last_tb'[o]][tb_exit'[o]].d = tb'[o]
    BY <2>1, <1>3, <1>s DEF Shapes
  <2>3. loc'[o] = "clear" =>
              /\ ent'[o] \in jmp_list'[inv'[o]]
              /\ target'[ent'[o][1]][ent'[o][2]] = None
    <3>1. SUFFICES ASSUME loc'[o] = "clear"
                   PROVE  /\ ent'[o] \in jmp_list'[inv'[o]]
                          /\ target'[ent'[o][1]][ent'[o][2]] = None
      OBVIOUS
    <3>2. loc[o] = "clear" /\ inv[o] # t
      BY <3>1, <1>3 DEF Invalidating
    <3>3. inv[o] # None
      BY <3>2, <1>1 DEF LocalsFit, InvalidationFit, Invalidating
    <3>4. PICK v \in Slot, k \in Exit : ent[o] = <<v, k>>
      BY <1>s, <2>1, <3>2, <3>3 DEF Shapes, Jump
    <3>5. jmp_dest[v][k].d = inv[o]
      BY <1>s, <2>1, <3>2, <3>3, <3>4 DEF Shapes, ListedIsClaimed
    <3>6. target'[v][k] = target[v][k] /\ jmp_list'[inv[o]] = jmp_list[inv[o]]
      BY <1>s, <1>3, <3>2, <3>3, <3>5 DEF Shapes
    <3> QED  BY <2>1, <1>3, <3>2, <3>4, <3>6
  <2> QED  BY <2>2, <2>3
<1>11. MarkedOnce'
  BY <1>1, <1>3 DEF MarkedOnce
<1>12. RemovalReady'
  <2> SUFFICES ASSUME NEW o \in Cpu, loc'[o] = "remove"
               PROVE  (LET dest == jmp_dest[inv[o]][idx[o]]
                       IN  /\ dest.m
                           /\ \/ /\ dest.d = ptr[o]
                                 /\ \/ <<inv[o], idx[o]>> \in jmp_list[ptr[o]]
                                    \/ \E q \in Cpu :
                                          /\ loc[q] = "patch" /\ tb[q] = ptr[o]
                                          /\ last_tb[q] = inv[o] /\ tb_exit[q] = idx[o]
                              \/ dest.d = None /\ invalid[ptr[o]])'
    BY DEF RemovalReady
  <2>1. o # c /\ loc[o] = "remove" /\ inv[o] \in Slot /\ ptr[o] \in Slot
    BY <1>s, <1>3 DEF Shapes
  <2>2. /\ jmp_dest[inv[o]][idx[o]].m
        /\ \/ /\ jmp_dest[inv[o]][idx[o]].d = ptr[o]
              /\ \/ <<inv[o], idx[o]>> \in jmp_list[ptr[o]]
                 \/ \E q \in Cpu :
                       /\ loc[q] = "patch" /\ tb[q] = ptr[o]
                       /\ last_tb[q] = inv[o] /\ tb_exit[q] = idx[o]
           \/ jmp_dest[inv[o]][idx[o]].d = None /\ invalid[ptr[o]]
    BY <1>1, <2>1, Zenon DEF RemovalReady
  <2>3. jmp_list[ptr[o]] \subseteq jmp_list'[ptr[o]]
    BY <2>1, <1>3
  <2>4. ASSUME NEW q \in Cpu, loc[q] = "patch", tb[q] = ptr[o],
               last_tb[q] = inv[o], tb_exit[q] = idx[o]
        PROVE  \/ <<inv[o], idx[o]>> \in jmp_list'[ptr[o]]
               \/ loc'[q] = "patch" /\ last_tb'[q] = last_tb[q] /\ tb_exit'[q] = tb_exit[q]
    BY <2>4, <1>3
  <2> QED  BY <2>1, <2>2, <2>3, <2>4, <1>3
<1>13. FlushAlone'
  BY <1>1, <1>3 DEF FlushAlone, InLoop, Invalidating, Flushing
<1>14. Published'
  BY <1>1, <1>3, <1>s DEF Published, Flushing, Live, Shapes
<1>15. RunsItsPc'
  BY <1>1, <1>3 DEF RunsItsPc, Live
<1>16. ListsExact'
  <2>1. \A q \in Cpu : loc[q] = "clear" => q # c /\ loc'[q] = "clear"
    BY <1>3
  <2>2. ListedIsClaimed'
    <3> SUFFICES ASSUME NEW u \in Slot, NEW v \in Slot, NEW k \in Exit,
                        (<<v, k>> \in jmp_list[u])'
                 PROVE  (/\ jmp_dest[v][k].d = u
                         /\ \/ target[v][k] = u
                            \/ \E q \in Cpu : loc[q] = "clear" /\ inv[q] = u
                                              /\ ent[q] = <<v, k>>)'
      BY DEF ListedIsClaimed
    <3>1. CASE v = s /\ k = n
      <4>1. <<s, n>> \in jmp_list[u] => jmp_dest[s][n].d = u
        BY <1>s DEF ListedIsClaimed
      <4>2. u # t => <<s, n>> \in jmp_list[u]
        BY <3>1, <1>3
      <4>3. u = t
        BY <4>1, <4>2, <1>3
      <4> QED  BY <3>1, <4>3, <1>3
    <3>2. CASE v # s \/ k # n
      <4>1. <<v, k>> \in jmp_list[u]
        BY <3>2, <1>3
      <4>2. /\ jmp_dest[v][k].d = u
            /\ \/ target[v][k] = u
               \/ \E q \in Cpu : loc[q] = "clear" /\ inv[q] = u /\ ent[q] = <<v, k>>
        BY <1>s, <4>1 DEF ListedIsClaimed
      <4> QED  BY <2>1, <3>2, <4>2, <1>3
    <3> QED  BY <3>1, <3>2
  <2>3. ClaimedIsListed'
    <3> SUFFICES ASSUME NEW v \in Slot, NEW k \in Exit,
                        (jmp_dest[v][k].d # None /\ ~jmp_dest[v][k].m)'
                 PROVE  (\/ <<v, k>> \in jmp_list[jmp_dest[v][k].d]
                         \/ \E q \in Cpu : /\ loc[q] = "patch" /\ tb[q] = jmp_dest[v][k].d
                                           /\ last_tb[q] = v /\ tb_exit[q] = k)'
      BY DEF ClaimedIsListed
    <3>1. CASE v = s /\ k = n
      BY <3>1, <1>3
    <3>2. CASE v # s \/ k # n
      <4>1. \/ <<v, k>> \in jmp_list[jmp_dest[v][k].d]
            \/ \E q \in Cpu : /\ loc[q] = "patch" /\ tb[q] = jmp_dest[v][k].d
                              /\ last_tb[q] = v /\ tb_exit[q] = k
        BY <1>s, <1>3 DEF ClaimedIsListed
      <4>2. jmp_list[jmp_dest[v][k].d] \subseteq jmp_list'[jmp_dest[v][k].d]
        BY <1>s, <1>3 DEF Shapes
      <4> QED  BY <3>2, <4>1, <4>2, <1>3
    <3> QED  BY <3>1, <3>2
  <2> QED  BY <1>4, <2>2, <2>3, ListsSplitNext
<1> QED  BY <1>4, <1>5, <1>6, <1>7, <1>8, <1>9, <1>10, <1>11, <1>12,
             <1>13, <1>14, <1>15, <1>16 DEF IInv

(* An invalidation starts.  The memory lock keeps any other from working   *)
(* on the same block, and jmp_lock a jump from being patched to it.        *)
LEMMA InvalidateStep ==
    ASSUME IInv, NEW c \in Cpu, InvalidateStart(c)
    PROVE  IInv'
<1> USE TbCacheAssumption
<1>1. TypeOK /\ RequestsFit /\ LocalsFit /\ FoundLive /\ JumpsLead
      /\ JumpsListed /\ PatchHeld /\ MarkedOnce /\ RemovalReady /\ FlushAlone
      /\ Published /\ RunsItsPc /\ ListsExact
  BY DEF IInv
<1>s. Shapes /\ ListedIsClaimed /\ ClaimedIsListed
  BY <1>1, ShapesHold, ListsSplit
<1>0. PICK t \in alloc : /\ tbpc[t] # None /\ ~MemLocked(tbpc[t]) /\ ~JmpLocked(t)
                         /\ inv' = [inv EXCEPT ![c] = t]
                         /\ invalid' = [invalid EXCEPT ![t] = TRUE]
  BY DEF InvalidateStart
<1>2. /\ loc[c] \in {"out", "exec"} /\ loc' = [loc EXCEPT ![c] = "unhash"]
      /\ inv' = [inv EXCEPT ![c] = t] /\ invalid' = [invalid EXCEPT ![t] = TRUE]
      /\ UNCHANGED <<user, alloc, tbpc, jmp_dest, jmp_list, target, htable,
                     jmp_cache, tb_flush_count, work_list, work, pc, tb,
                     last_tb, tb_exit, idx, ptr, ent>>
  BY <1>0, <1>1 DEF InvalidateStart, Goto, flush, run
<1>3. /\ loc[c] \in {"out", "exec"} /\ loc'[c] = "unhash"
      /\ \A o \in Cpu \ {c} : loc'[o] = loc[o]
      /\ t \in alloc /\ t \in Slot /\ t # None /\ tbpc[t] # None
      /\ inv'[c] = t
      /\ \A o \in Cpu \ {c} : inv'[o] = inv[o]
      /\ invalid'[t]
      /\ \A u \in Slot \ {t} : invalid'[u] = invalid[u]
      /\ inv[c] = None /\ ptr[c] = None /\ ent[c] = <<>> /\ idx[c] = 0 /\ last_tb[c] = None
      /\ \A o \in Cpu : inv[o] # t
      /\ \A o \in Cpu : loc[o] = "patch" => tb[o] # t
      /\ loc[c] = "out" => tb[c] = None
      /\ loc[c] = "exec" => ~Flushing
      /\ user => ~Flushing
      /\ loc[c] = "exec" =>
        tb[c] # None /\ Live(tb[c]) /\ tbpc[tb[c]] = pc[c] /\ pc[c] \in Pc
      /\ \A o \in Cpu : loc[o] = "remove" => inv[o] # None /\ ptr[o] # None
      /\ \A o \in Cpu : loc[o] = "patch" => last_tb[o] # None /\ tb[o] # None
      /\ UNCHANGED <<user, alloc, tbpc, jmp_dest, jmp_list, target, htable,
                     jmp_cache, tb_flush_count, work_list, work, pc, tb,
                     last_tb, tb_exit, idx, ptr, ent>>
  <2>1. loc[c] \in {"out", "exec"} /\ loc'[c] = "unhash"
    BY <1>1, <1>2 DEF TypeOK
  <2>2. \A o \in Cpu \ {c} : loc'[o] = loc[o]
    BY <1>1, <1>2 DEF TypeOK
  <2>3. t \in alloc /\ t \in Slot /\ t # None /\ tbpc[t] # None
    BY <1>0, <1>1 DEF TypeOK
  <2>4. inv'[c] = t
    BY <1>1, <1>2 DEF TypeOK
  <2>5. \A o \in Cpu \ {c} : inv'[o] = inv[o]
    BY <1>1, <1>2 DEF TypeOK
  <2>6. invalid'[t]
    BY <1>0, <1>1, <1>2, Zenon DEF TypeOK
  <2>7. \A u \in Slot \ {t} : invalid'[u] = invalid[u]
    BY <1>0, <1>1, <1>2 DEF TypeOK
  <2>8. inv[c] = None /\ ptr[c] = None /\ ent[c] = <<>> /\ idx[c] = 0 /\ last_tb[c] = None
    BY <1>1, <1>2 DEF LocalsFit, InvalidationFit, LoopFit, Invalidating
  <2>9. \A o \in Cpu : inv[o] # t
    <3> SUFFICES ASSUME NEW o \in Cpu, inv[o] = t PROVE FALSE
      OBVIOUS
    <3>1. t # None
      BY <1>0, <1>1 DEF TypeOK
    <3>2. loc[o] \in Invalidating
      BY <3>1, <1>1 DEF LocalsFit, InvalidationFit
    <3> QED  BY <3>2, <1>0 DEF MemLocked
  <2>10. \A o \in Cpu : loc[o] = "patch" => tb[o] # t
    BY <1>0 DEF JmpLocked
  <2>11. loc[c] = "out" => tb[c] = None
    BY <1>1 DEF LocalsFit, LoopFit, Idle
  <2>12. loc[c] = "exec" => ~Flushing
    BY <1>1, InLoopNoFlush DEF InLoop
  <2>13. user => ~Flushing
    BY <1>0 DEF MemLocked, Flushing
  <2>14. loc[c] = "exec" =>
          tb[c] # None /\ Live(tb[c]) /\ tbpc[tb[c]] = pc[c] /\ pc[c] \in Pc
    BY <1>1 DEF RunsItsPc, LocalsFit, LoopFit, InLoop
  <2>15. \A o \in Cpu : loc[o] = "remove" => inv[o] # None /\ ptr[o] # None
    BY <1>1 DEF LocalsFit, InvalidationFit, Invalidating
  <2>16. \A o \in Cpu : loc[o] = "patch" => last_tb[o] # None /\ tb[o] # None
    BY <1>1 DEF RunsItsPc, PatchHeld
  <2>17. UNCHANGED <<user, alloc, tbpc, jmp_dest, jmp_list, target, htable,
                       jmp_cache, tb_flush_count, work_list, work, pc, tb,
                       last_tb, tb_exit, idx, ptr, ent>>
    BY <1>2
  <2> QED  BY <2>1, <2>2, <2>3, <2>4, <2>5, <2>6, <2>7, <2>8, <2>9, <2>10,
              <2>11, <2>12, <2>13, <2>14, <2>15, <2>16, <2>17
<1>4. TypeOK'
  <2>1. loc' \in [Cpu -> Loc]
    BY <1>1, <1>2 DEF TypeOK, Loc, Invalidating
  <2>2. inv' \in [Cpu -> Slot \cup {None}]
    BY <1>1, <1>2 DEF TypeOK
  <2>3. invalid' \in [Slot -> BOOLEAN]
    BY <1>1, <1>2 DEF TypeOK
  <2> QED  BY <1>1, <1>2, <2>1, <2>2, <2>3 DEF TypeOK
<1>5. RequestsFit'
  BY <1>1, <1>3 DEF RequestsFit
<1>6. LocalsFit'
  <2>1. ASSUME NEW o \in Cpu PROVE LoopFit(o)'
    <3>1. LoopFit(o)
      BY <1>1 DEF LocalsFit
    <3> QED  BY <3>1, <1>3, <1>s
             DEF LoopFit, InLoop, Live, Idle, Invalidating, Shapes
  <2>2. ASSUME NEW o \in Cpu PROVE InvalidationFit(o)'
    <3>1. InvalidationFit(o)
      BY <1>1 DEF LocalsFit
    <3> QED  BY <3>1, <1>3, <1>s
             DEF InvalidationFit, Live, Invalidating, Shapes
  <2> QED  BY <2>1, <2>2 DEF LocalsFit
<1>7. FoundLive'
  BY <1>1, <1>3 DEF FoundLive, Live
<1>8. JumpsLead'
  BY <1>1, <1>3 DEF JumpsLead, Live
<1>9. JumpsListed'
  BY <1>1, <1>3, <1>s DEF JumpsListed, Shapes
<1>10. PatchHeld'
  <2> SUFFICES ASSUME NEW o \in Cpu
               PROVE  (/\ loc[o] = "patch" =>
                             /\ last_tb[o] # None /\ ~invalid[tb[o]]
                             /\ jmp_dest[last_tb[o]][tb_exit[o]].d = tb[o]
                       /\ loc[o] = "clear" =>
                             /\ ent[o] \in jmp_list[inv[o]]
                             /\ target[ent[o][1]][ent[o][2]] = None)'
    BY DEF PatchHeld
  <2>1. /\ loc[o] = "patch" =>
              /\ last_tb[o] # None /\ ~invalid[tb[o]]
              /\ jmp_dest[last_tb[o]][tb_exit[o]].d = tb[o]
        /\ loc[o] = "clear" =>
              /\ ent[o] \in jmp_list[inv[o]]
              /\ target[ent[o][1]][ent[o][2]] = None
    BY <1>1, Zenon DEF PatchHeld
  <2>2. loc'[o] = "patch" =>
              /\ last_tb'[o] # None /\ ~invalid'[tb'[o]]
              /\ jmp_dest'[last_tb'[o]][tb_exit'[o]].d = tb'[o]
    BY <2>1, <1>3, <1>s DEF Shapes
  <2>3. loc'[o] = "clear" =>
              /\ ent'[o] \in jmp_list'[inv'[o]]
              /\ target'[ent'[o][1]][ent'[o][2]] = None
    <3>1. loc'[o] = "clear" => loc[o] = "clear"
      BY <1>3
    <3>2. loc[o] = "clear" => inv[o] # None /\ ent[o] # <<>>
      BY <1>1 DEF LocalsFit, InvalidationFit, Invalidating
    <3>3. loc[o] = "clear" =>
              inv[o] \in Slot /\ ent[o][1] \in Slot /\ ent[o][2] \in Exit
      BY <1>s, <3>2, JumpParts DEF Shapes
    <3> QED  BY <2>1, <1>3, <3>1, <3>3, <1>s DEF Shapes
  <2> QED  BY <2>2, <2>3
<1>11. MarkedOnce'
  BY <1>1, <1>3 DEF MarkedOnce
<1>12. RemovalReady'
  <2> SUFFICES ASSUME NEW o \in Cpu, loc'[o] = "remove"
               PROVE  (LET dest == jmp_dest[inv[o]][idx[o]]
                       IN  /\ dest.m
                           /\ \/ /\ dest.d = ptr[o]
                                 /\ \/ <<inv[o], idx[o]>> \in jmp_list[ptr[o]]
                                    \/ \E q \in Cpu :
                                          /\ loc[q] = "patch" /\ tb[q] = ptr[o]
                                          /\ last_tb[q] = inv[o] /\ tb_exit[q] = idx[o]
                              \/ dest.d = None /\ invalid[ptr[o]])'
    BY DEF RemovalReady
  <2>1. o # c /\ loc[o] = "remove"
    BY <1>3
  <2>2. \A q \in Cpu : loc[q] = "patch" => q # c /\ loc'[q] = "patch"
    BY <1>3
  <2>3. /\ jmp_dest[inv[o]][idx[o]].m
        /\ \/ /\ jmp_dest[inv[o]][idx[o]].d = ptr[o]
              /\ \/ <<inv[o], idx[o]>> \in jmp_list[ptr[o]]
                 \/ \E q \in Cpu :
                       /\ loc[q] = "patch" /\ tb[q] = ptr[o]
                       /\ last_tb[q] = inv[o] /\ tb_exit[q] = idx[o]
           \/ jmp_dest[inv[o]][idx[o]].d = None /\ invalid[ptr[o]]
    BY <1>1, <2>1, Zenon DEF RemovalReady
  <2> QED  BY <1>3, <2>1, <2>2, <2>3, <1>s DEF Shapes
<1>13. FlushAlone'
  BY <1>1, <1>3 DEF FlushAlone, InLoop, Invalidating, Flushing
<1>14. Published'
  BY <1>1, <1>3, <1>s DEF Published, Flushing, Live, Shapes
<1>15. RunsItsPc'
  BY <1>1, <1>3 DEF RunsItsPc, Live
<1>16. ListsExact'
  <2>1. ListedIsClaimed' /\ ClaimedIsListed'
    BY <1>s, <1>3, ListsKept
  <2> QED  BY <1>4, <2>1, ListsSplitNext
<1> QED  BY <1>4, <1>5, <1>6, <1>7, <1>8, <1>9, <1>10, <1>11, <1>12,
             <1>13, <1>14, <1>15, <1>16 DEF IInv

(* An invalidation ends with the block out of the table and its list       *)
(* empty.                                                                  *)
Ends(c) ==
    /\ loc[c] \in {"unhash", "reset"} /\ EndInvalidate(c)
    /\ loc[c] = "unhash" => inv[c] \notin htable
    /\ loc[c] = "reset" => jmp_list[inv[c]] = {}
    /\ UNCHANGED <<user, block, htable, jmp_cache, flush>>

(* Then the vCPU returns to where it was.                                  *)
LEMMA EndStep ==
    ASSUME IInv, NEW c \in Cpu, Ends(c)
    PROVE  IInv'
<1> USE TbCacheAssumption
<1>1. TypeOK /\ RequestsFit /\ LocalsFit /\ FoundLive /\ JumpsLead
      /\ JumpsListed /\ PatchHeld /\ MarkedOnce /\ RemovalReady /\ FlushAlone
      /\ Published /\ RunsItsPc /\ ListsExact
  BY DEF IInv
<1>s. Shapes /\ ListedIsClaimed /\ ClaimedIsListed
  BY <1>1, ShapesHold, ListsSplit
<1>0. PICK t \in Slot : t = inv[c] /\ t # None
  BY <1>1 DEF Ends, TypeOK, LocalsFit, InvalidationFit, Invalidating
<1>2. /\ loc[c] \in {"unhash", "reset"}
      /\ loc[c] = "unhash" => t \notin htable
      /\ loc[c] = "reset" => jmp_list[t] = {}
      /\ inv' = [inv EXCEPT ![c] = None] /\ idx' = [idx EXCEPT ![c] = 0]
      /\ ptr' = [ptr EXCEPT ![c] = None] /\ ent' = [ent EXCEPT ![c] = <<>>]
      /\ \/ tb[c] = None /\ loc' = [loc EXCEPT ![c] = "out"] /\ UNCHANGED tb
         \/ tb[c] # None /\ loc' = [loc EXCEPT ![c] = "exec"] /\ UNCHANGED tb
         \/ /\ tb[c] # None /\ loc' = [loc EXCEPT ![c] = "loop"]
            /\ tb' = [tb EXCEPT ![c] = None]
      /\ UNCHANGED <<user, alloc, tbpc, invalid, jmp_dest, jmp_list, target,
                     htable, jmp_cache, tb_flush_count, work_list, work, pc,
                     last_tb, tb_exit>>
  BY <1>0, <1>1 DEF Ends, EndInvalidate, Goto, flush, block
<1>3. /\ loc[c] \in {"unhash", "reset"} /\ loc'[c] \in {"out", "exec", "loop"}
      /\ \A o \in Cpu \ {c} : loc'[o] = loc[o]
      /\ \A o \in Cpu \ {c} : tb'[o] = tb[o]
      /\ loc'[c] = "out" => tb[c] = None /\ tb'[c] = None
      /\ loc'[c] = "exec" => tb[c] # None /\ tb'[c] = tb[c]
      /\ loc'[c] = "loop" => tb[c] # None /\ tb'[c] = None
      /\ inv'[c] = None
      /\ \A o \in Cpu \ {c} : inv'[o] = inv[o]
      /\ idx'[c] = 0
      /\ \A o \in Cpu \ {c} : idx'[o] = idx[o]
      /\ ptr'[c] = None
      /\ \A o \in Cpu \ {c} : ptr'[o] = ptr[o]
      /\ ent'[c] = <<>>
      /\ \A o \in Cpu \ {c} : ent'[o] = ent[o]
      /\ inv[c] = t /\ t # None
      /\ \A o \in Cpu \ {c} : inv[o] # t
      /\ last_tb[c] = None
      /\ tb[c] # None => Live(tb[c]) /\ tbpc[tb[c]] = pc[c] /\ pc[c] \in Pc
      /\ tb[c] # None => ~Flushing
      /\ loc[c] = "unhash" => t \notin htable
      /\ ~Flushing /\ t \notin htable => jmp_list[t] = {}
      /\ UNCHANGED <<user, alloc, tbpc, invalid, jmp_dest, jmp_list, target,
                     htable, jmp_cache, tb_flush_count, work_list, work, pc,
                     last_tb, tb_exit>>
  <2>1. loc[c] \in {"unhash", "reset"} /\ loc'[c] \in {"out", "exec", "loop"}
    BY <1>1, <1>2 DEF TypeOK
  <2>2. \A o \in Cpu \ {c} : loc'[o] = loc[o]
    BY <1>1, <1>2 DEF TypeOK
  <2>3. \A o \in Cpu \ {c} : tb'[o] = tb[o]
    BY <1>1, <1>2 DEF TypeOK
  <2>4. loc'[c] = "out" => tb[c] = None /\ tb'[c] = None
    BY <1>1, <1>2 DEF TypeOK
  <2>5. loc'[c] = "exec" => tb[c] # None /\ tb'[c] = tb[c]
    BY <1>1, <1>2 DEF TypeOK
  <2>6. loc'[c] = "loop" => tb[c] # None /\ tb'[c] = None
    BY <1>1, <1>2 DEF TypeOK
  <2>7. inv'[c] = None
    BY <1>1, <1>2 DEF TypeOK
  <2>8. \A o \in Cpu \ {c} : inv'[o] = inv[o]
    BY <1>1, <1>2 DEF TypeOK
  <2>9. idx'[c] = 0
    BY <1>1, <1>2 DEF TypeOK
  <2>10. \A o \in Cpu \ {c} : idx'[o] = idx[o]
    BY <1>1, <1>2 DEF TypeOK
  <2>11. ptr'[c] = None
    BY <1>1, <1>2 DEF TypeOK
  <2>12. \A o \in Cpu \ {c} : ptr'[o] = ptr[o]
    BY <1>1, <1>2 DEF TypeOK
  <2>13. ent'[c] = <<>>
    BY <1>1, <1>2 DEF TypeOK
  <2>14. \A o \in Cpu \ {c} : ent'[o] = ent[o]
    BY <1>1, <1>2 DEF TypeOK
  <2>15. inv[c] = t /\ t # None
    BY <1>0
  <2>16. \A o \in Cpu \ {c} : inv[o] # t
    BY <1>0, <1>1 DEF LocalsFit, InvalidationFit
  <2>17. last_tb[c] = None
    BY <1>1, <1>2 DEF LocalsFit, LoopFit, Invalidating
  <2>18. tb[c] # None => Live(tb[c]) /\ tbpc[tb[c]] = pc[c] /\ pc[c] \in Pc
    BY <1>1, <1>2 DEF LocalsFit, LoopFit, InLoop, Invalidating
  <2>19. tb[c] # None => ~Flushing
    BY <1>1, <1>2, InLoopNoFlush DEF InLoop, Invalidating
  <2>20. loc[c] = "unhash" => t \notin htable
    BY <1>2
  <2>21. ~Flushing /\ t \notin htable => jmp_list[t] = {}
    BY <1>0, <1>1, <1>2 DEF Published, LocalsFit, InvalidationFit
  <2>22. UNCHANGED <<user, alloc, tbpc, invalid, jmp_dest, jmp_list, target,
                       htable, jmp_cache, tb_flush_count, work_list, work, pc,
                       last_tb, tb_exit>>
    BY <1>2
  <2> QED  BY <2>1, <2>2, <2>3, <2>4, <2>5, <2>6, <2>7, <2>8, <2>9, <2>10,
              <2>11, <2>12, <2>13, <2>14, <2>15, <2>16, <2>17, <2>18, <2>19,
              <2>20, <2>21, <2>22
<1>4. TypeOK'
  <2>1. loc' \in [Cpu -> Loc]
    BY <1>1, <1>2 DEF TypeOK, Loc
  <2>2. inv' \in [Cpu -> Slot \cup {None}]
    BY <1>1, <1>2 DEF TypeOK
  <2>3. tb' \in [Cpu -> Slot \cup {None}]
    BY <1>1, <1>2 DEF TypeOK
  <2>4. idx' \in [Cpu -> Exit]
    BY <1>1, <1>2 DEF TypeOK, Exit
  <2>5. ptr' \in [Cpu -> Slot \cup {None}]
    BY <1>1, <1>2 DEF TypeOK
  <2>6. ent' \in [Cpu -> Jump \cup {<<>>}]
    BY <1>1, <1>2 DEF TypeOK
  <2> QED  BY <1>1, <1>2, <2>1, <2>2, <2>3, <2>4, <2>5, <2>6 DEF TypeOK
<1>5. RequestsFit'
  BY <1>1, <1>3 DEF RequestsFit
<1>6. LocalsFit'
  <2>1. ASSUME NEW o \in Cpu PROVE LoopFit(o)'
    <3>1. LoopFit(o)
      BY <1>1 DEF LocalsFit
    <3> QED  BY <3>1, <1>3, <1>s
             DEF LoopFit, InLoop, Live, Idle, Invalidating, Shapes
  <2>2. ASSUME NEW o \in Cpu PROVE InvalidationFit(o)'
    <3>1. InvalidationFit(o)
      BY <1>1 DEF LocalsFit
    <3> QED  BY <3>1, <1>3, <1>s
             DEF InvalidationFit, Live, Invalidating, Shapes
  <2> QED  BY <2>1, <2>2 DEF LocalsFit
<1>7. FoundLive'
  BY <1>1, <1>3 DEF FoundLive, Live
<1>8. JumpsLead'
  BY <1>1, <1>3 DEF JumpsLead, Live
<1>9. JumpsListed'
  BY <1>1, <1>3 DEF JumpsListed
<1>10. PatchHeld'
  BY <1>1, <1>3 DEF PatchHeld
<1>11. MarkedOnce'
  BY <1>1, <1>3 DEF MarkedOnce
<1>12. RemovalReady'
  BY <1>1, <1>3, RemovalKept
<1>13. FlushAlone'
  BY <1>1, <1>3 DEF FlushAlone, InLoop, Invalidating, Flushing
<1>14. Published'
  BY <1>1, <1>3 DEF Published, Flushing, Live
<1>15. RunsItsPc'
  BY <1>1, <1>3 DEF RunsItsPc, Live
<1>16. ListsExact'
  <2>1. ListedIsClaimed' /\ ClaimedIsListed'
    BY <1>s, <1>3, ListsKept
  <2> QED  BY <1>4, <2>1, ListsSplitNext
<1> QED  BY <1>4, <1>5, <1>6, <1>7, <1>8, <1>9, <1>10, <1>11, <1>12,
             <1>13, <1>14, <1>15, <1>16 DEF IInv

(* qht_remove succeeds.                                                    *)
Unhashes(c) ==
    /\ loc[c] = "unhash" /\ inv[c] \in htable
    /\ htable' = htable \ {inv[c]}
    /\ Goto(c, "uncache")
    /\ UNCHANGED <<user, block, jmp_cache, flush, run, invloc>>

(* The block is taken from the table, unmarked.                            *)
LEMMA UnhashStep ==
    ASSUME IInv, NEW c \in Cpu, Unhashes(c)
    PROVE  IInv'
<1> USE TbCacheAssumption
<1>1. TypeOK /\ RequestsFit /\ LocalsFit /\ FoundLive /\ JumpsLead
      /\ JumpsListed /\ PatchHeld /\ MarkedOnce /\ RemovalReady /\ FlushAlone
      /\ Published /\ RunsItsPc /\ ListsExact
  BY DEF IInv
<1>s. Shapes /\ ListedIsClaimed /\ ClaimedIsListed
  BY <1>1, ShapesHold, ListsSplit
<1>0. PICK t \in Slot : t = inv[c] /\ t # None
  BY <1>1 DEF Unhashes, TypeOK, LocalsFit, InvalidationFit, Invalidating
<1>2. /\ loc[c] = "unhash" /\ loc' = [loc EXCEPT ![c] = "uncache"]
      /\ t \in htable /\ htable' = htable \ {t}
      /\ UNCHANGED <<user, alloc, tbpc, invalid, jmp_dest, jmp_list, target,
                     jmp_cache, tb_flush_count, work_list, work, pc, tb,
                     last_tb, tb_exit, inv, idx, ptr, ent>>
  BY <1>0 DEF Unhashes, Goto, flush, block, run, invloc
<1>3. /\ loc[c] = "unhash" /\ loc'[c] = "uncache"
      /\ \A o \in Cpu \ {c} : loc'[o] = loc[o]
      /\ inv[c] = t /\ t # None
      /\ \A o \in Cpu \ {c} : inv[o] # t
      /\ t \in htable /\ htable' = htable \ {t}
      /\ idx[c] = 0
      /\ UNCHANGED <<user, alloc, tbpc, invalid, jmp_dest, jmp_list, target,
                     jmp_cache, tb_flush_count, work_list, work, pc, tb,
                     last_tb, tb_exit, inv, idx, ptr, ent>>
  <2>1. loc[c] = "unhash" /\ loc'[c] = "uncache"
    BY <1>1, <1>2 DEF TypeOK
  <2>2. \A o \in Cpu \ {c} : loc'[o] = loc[o]
    BY <1>1, <1>2 DEF TypeOK
  <2>3. inv[c] = t /\ t # None
    BY <1>0
  <2>4. \A o \in Cpu \ {c} : inv[o] # t
    BY <1>0, <1>1 DEF LocalsFit, InvalidationFit
  <2>5. t \in htable /\ htable' = htable \ {t}
    BY <1>2
  <2>6. idx[c] = 0
    BY <1>1, <1>2 DEF LocalsFit, InvalidationFit
  <2>7. UNCHANGED <<user, alloc, tbpc, invalid, jmp_dest, jmp_list, target,
                       jmp_cache, tb_flush_count, work_list, work, pc, tb,
                       last_tb, tb_exit, inv, idx, ptr, ent>>
    BY <1>2
  <2> QED  BY <2>1, <2>2, <2>3, <2>4, <2>5, <2>6, <2>7
<1>4. TypeOK'
  <2>1. loc' \in [Cpu -> Loc]
    BY <1>1, <1>2 DEF TypeOK, Loc, Invalidating
  <2>2. htable' \subseteq Slot
    BY <1>1, <1>2 DEF TypeOK
  <2> QED  BY <1>1, <1>2, <2>1, <2>2 DEF TypeOK
<1>5. RequestsFit'
  BY <1>1, <1>3 DEF RequestsFit
<1>6. LocalsFit'
  <2>1. ASSUME NEW o \in Cpu PROVE LoopFit(o)'
    <3>1. LoopFit(o)
      BY <1>1 DEF LocalsFit
    <3> QED  BY <3>1, <1>3, <1>s
             DEF LoopFit, InLoop, Live, Idle, Invalidating, Shapes
  <2>2. ASSUME NEW o \in Cpu PROVE InvalidationFit(o)'
    <3>1. InvalidationFit(o)
      BY <1>1 DEF LocalsFit
    <3> QED  BY <3>1, <1>3, <1>s
             DEF InvalidationFit, Live, Invalidating, Shapes
  <2> QED  BY <2>1, <2>2 DEF LocalsFit
<1>7. FoundLive'
  BY <1>1, <1>3 DEF FoundLive, Live
<1>8. JumpsLead'
  BY <1>1, <1>3 DEF JumpsLead, Live
<1>9. JumpsListed'
  BY <1>1, <1>3 DEF JumpsListed
<1>10. PatchHeld'
  BY <1>1, <1>3 DEF PatchHeld
<1>11. MarkedOnce'
  <2>1. (\A t_1 \in htable, k \in Exit : ~jmp_dest[t_1][k].m)'
    BY <1>1, <1>3, <1>s DEF MarkedOnce, Shapes
  <2>2. ASSUME NEW o \in Cpu, NEW k \in Exit,
               (\/ loc[o] \in {"uncache", "detach"} /\ k >= idx[o]
                \/ loc[o] = "remove" /\ k > idx[o])'
        PROVE  ~jmp_dest'[inv'[o]][k].m
    <3>1. inv[o] # None => ~jmp_dest[inv[o]][k].m
      BY <2>2, <1>1, <1>3, <1>s DEF MarkedOnce, Shapes
    <3>2. inv[o] # None
      BY <2>2, <1>1, <1>3 DEF LocalsFit, InvalidationFit, Invalidating
    <3> QED  BY <3>1, <3>2, <2>2, <1>1, <1>3, <1>s DEF MarkedOnce, Shapes
  <2> QED  BY <2>1, <2>2 DEF MarkedOnce
<1>12. RemovalReady'
  BY <1>1, <1>3, RemovalKept
<1>13. FlushAlone'
  BY <1>1, <1>3 DEF FlushAlone, InLoop, Invalidating, Flushing
<1>14. Published'
  <2> SUFFICES ASSUME (~Flushing)', NEW u \in Slot, Live(u)'
               PROVE  (/\ u \notin htable => invalid[u]
                       /\ u \in htable /\ invalid[u] =>
                             \E q \in Cpu : loc[q] = "unhash" /\ inv[q] = u
                       /\ u \notin htable /\ jmp_list[u] # {} =>
                             \E q \in Cpu : inv[q] = u /\ loc[q] # "unhash")'
    BY DEF Published
  <2>1. ~Flushing /\ Live(u)
    BY <1>3 DEF Flushing, Live
  <2>2. /\ u \notin htable => invalid[u]
        /\ u \in htable /\ invalid[u] =>
              \E q \in Cpu : loc[q] = "unhash" /\ inv[q] = u
        /\ u \notin htable /\ jmp_list[u] # {} =>
              \E q \in Cpu : inv[q] = u /\ loc[q] # "unhash"
    BY <1>1, <2>1 DEF Published
  <2>3. CASE u = t
    <3>1. invalid[t]
      BY <1>0, <1>1 DEF LocalsFit, InvalidationFit
    <3> QED  BY <2>3, <3>1, <1>3
  <2>4. CASE u # t
    BY <2>2, <2>4, <1>3
  <2> QED  BY <2>3, <2>4
<1>15. RunsItsPc'
  BY <1>1, <1>3 DEF RunsItsPc, Live
<1>16. ListsExact'
  <2>1. ListedIsClaimed' /\ ClaimedIsListed'
    BY <1>s, <1>3, ListsKept
  <2> QED  BY <1>4, <2>1, ListsSplitNext
<1> QED  BY <1>4, <1>5, <1>6, <1>7, <1>8, <1>9, <1>10, <1>11, <1>12,
             <1>13, <1>14, <1>15, <1>16 DEF IInv

(* qht_remove succeeds, or somebody was there before.                      *)
LEMMA HtableStep ==
    ASSUME IInv, NEW c \in Cpu, RemoveFromHtable(c)
    PROVE  IInv'
<1>1. CASE inv[c] \in htable
  <2>1. Unhashes(c)
    BY <1>1 DEF RemoveFromHtable, Unhashes
  <2> QED  BY <2>1, UnhashStep
<1>2. CASE inv[c] \notin htable
  <2>1. Ends(c)
    BY <1>2 DEF RemoveFromHtable, Ends
  <2> QED  BY <2>1, EndStep
<1> QED  BY <1>1, <1>2

(* tb_jmp_unlink has emptied the list.                                     *)
LEMMA UnlinkEndStep ==
    ASSUME IInv, NEW c \in Cpu, UnlinkEnd(c)
    PROVE  IInv'
<1>1. Ends(c)
  BY DEF UnlinkEnd, Ends
<1> QED  BY <1>1, EndStep

(* It leaves the caches.                                                   *)
LEMMA UncacheStep ==
    ASSUME IInv, NEW c \in Cpu, tb_jmp_cache_inval_tb(c)
    PROVE  IInv'
<1> USE TbCacheAssumption
<1>1. TypeOK /\ RequestsFit /\ LocalsFit /\ FoundLive /\ JumpsLead
      /\ JumpsListed /\ PatchHeld /\ MarkedOnce /\ RemovalReady /\ FlushAlone
      /\ Published /\ RunsItsPc /\ ListsExact
  BY DEF IInv
<1>s. Shapes /\ ListedIsClaimed /\ ClaimedIsListed
  BY <1>1, ShapesHold, ListsSplit
<1>0. PICK t \in Slot : t = inv[c] /\ t # None
  BY <1>1 DEF tb_jmp_cache_inval_tb, TypeOK, LocalsFit, InvalidationFit, Invalidating
<1>2. /\ loc[c] = "uncache" /\ loc' = [loc EXCEPT ![c] = "detach"]
      /\ jmp_cache' = [o \in Cpu |-> [p \in Pc |-> IF jmp_cache[o][p] = inv[c]
                                               THEN None ELSE jmp_cache[o][p]]]
      /\ UNCHANGED <<user, alloc, tbpc, invalid, jmp_dest, jmp_list, target,
                     htable, tb_flush_count, work_list, work, pc, tb,
                     last_tb, tb_exit, inv, idx, ptr, ent>>
  BY DEF tb_jmp_cache_inval_tb, Goto, flush, block, run, invloc
<1>3. /\ loc[c] = "uncache" /\ loc'[c] = "detach"
      /\ \A o \in Cpu \ {c} : loc'[o] = loc[o]
      /\ inv[c] = t /\ t # None
      /\ \A o \in Cpu \ {c} : inv[o] # t
      /\ \A o \in Cpu, p \in Pc : jmp_cache'[o][p] \in {None, jmp_cache[o][p]}
      /\ idx[c] = 0
      /\ UNCHANGED <<user, alloc, tbpc, invalid, jmp_dest, jmp_list, target,
                     htable, tb_flush_count, work_list, work, pc, tb,
                     last_tb, tb_exit, inv, idx, ptr, ent>>
  <2>1. loc[c] = "uncache" /\ loc'[c] = "detach"
    BY <1>1, <1>2 DEF TypeOK
  <2>2. \A o \in Cpu \ {c} : loc'[o] = loc[o]
    BY <1>1, <1>2 DEF TypeOK
  <2>3. inv[c] = t /\ t # None
    BY <1>0
  <2>4. \A o \in Cpu \ {c} : inv[o] # t
    BY <1>0, <1>1 DEF LocalsFit, InvalidationFit
  <2>5. \A o \in Cpu, p \in Pc : jmp_cache'[o][p] \in {None, jmp_cache[o][p]}
    BY <1>2
  <2>6. idx[c] = 0
    BY <1>1, <1>2 DEF LocalsFit, InvalidationFit
  <2>7. UNCHANGED <<user, alloc, tbpc, invalid, jmp_dest, jmp_list, target,
                       htable, tb_flush_count, work_list, work, pc, tb,
                       last_tb, tb_exit, inv, idx, ptr, ent>>
    BY <1>2
  <2> QED  BY <2>1, <2>2, <2>3, <2>4, <2>5, <2>6, <2>7
<1>4. TypeOK'
  <2>1. loc' \in [Cpu -> Loc]
    BY <1>1, <1>2 DEF TypeOK, Loc, Invalidating
  <2>2. jmp_cache' \in [Cpu -> [Pc -> Slot \cup {None}]]
    BY <1>1, <1>2 DEF TypeOK
  <2> QED  BY <1>1, <1>2, <2>1, <2>2 DEF TypeOK
<1>5. RequestsFit'
  BY <1>1, <1>3 DEF RequestsFit
<1>6. LocalsFit'
  <2>1. ASSUME NEW o \in Cpu PROVE LoopFit(o)'
    <3>1. LoopFit(o)
      BY <1>1 DEF LocalsFit
    <3> QED  BY <3>1, <1>3, <1>s
             DEF LoopFit, InLoop, Live, Idle, Invalidating, Shapes
  <2>2. ASSUME NEW o \in Cpu PROVE InvalidationFit(o)'
    <3>1. InvalidationFit(o)
      BY <1>1 DEF LocalsFit
    <3> QED  BY <3>1, <1>3, <1>s
             DEF InvalidationFit, Live, Invalidating, Shapes
  <2> QED  BY <2>1, <2>2 DEF LocalsFit
<1>7. FoundLive'
  BY <1>1, <1>3 DEF FoundLive, Live
<1>8. JumpsLead'
  BY <1>1, <1>3 DEF JumpsLead, Live
<1>9. JumpsListed'
  BY <1>1, <1>3 DEF JumpsListed
<1>10. PatchHeld'
  BY <1>1, <1>3 DEF PatchHeld
<1>11. MarkedOnce'
  <2>1. (\A t_1 \in htable, k \in Exit : ~jmp_dest[t_1][k].m)'
    BY <1>1, <1>3, <1>s DEF MarkedOnce, Shapes
  <2>2. ASSUME NEW o \in Cpu, NEW k \in Exit,
               (\/ loc[o] \in {"uncache", "detach"} /\ k >= idx[o]
                \/ loc[o] = "remove" /\ k > idx[o])'
        PROVE  ~jmp_dest'[inv'[o]][k].m
    <3>1. inv[o] # None => ~jmp_dest[inv[o]][k].m
      BY <2>2, <1>1, <1>3, <1>s DEF MarkedOnce, Shapes
    <3>2. inv[o] # None
      BY <2>2, <1>1, <1>3 DEF LocalsFit, InvalidationFit, Invalidating
    <3> QED  BY <3>1, <3>2, <2>2, <1>1, <1>3, <1>s DEF MarkedOnce, Shapes
  <2> QED  BY <2>1, <2>2 DEF MarkedOnce
<1>12. RemovalReady'
  BY <1>1, <1>3, RemovalKept
<1>13. FlushAlone'
  BY <1>1, <1>3 DEF FlushAlone, InLoop, Invalidating, Flushing
<1>14. Published'
  BY <1>1, <1>3 DEF Published, Flushing, Live
<1>15. RunsItsPc'
  BY <1>1, <1>3 DEF RunsItsPc, Live
<1>16. ListsExact'
  <2>1. ListedIsClaimed' /\ ClaimedIsListed'
    BY <1>s, <1>3, ListsKept
  <2> QED  BY <1>4, <2>1, ListsSplitNext
<1> QED  BY <1>4, <1>5, <1>6, <1>7, <1>8, <1>9, <1>10, <1>11, <1>12,
             <1>13, <1>14, <1>15, <1>16 DEF IInv

(* The lock of its list is taken.                                          *)
LEMMA UnlinkStartStep ==
    ASSUME IInv, NEW c \in Cpu, UnlinkStart(c)
    PROVE  IInv'
<1> USE TbCacheAssumption
<1>1. TypeOK /\ RequestsFit /\ LocalsFit /\ FoundLive /\ JumpsLead
      /\ JumpsListed /\ PatchHeld /\ MarkedOnce /\ RemovalReady /\ FlushAlone
      /\ Published /\ RunsItsPc /\ ListsExact
  BY DEF IInv
<1>s. Shapes /\ ListedIsClaimed /\ ClaimedIsListed
  BY <1>1, ShapesHold, ListsSplit
<1>0. PICK t \in Slot : t = inv[c] /\ t # None
  BY <1>1 DEF UnlinkStart, TypeOK, LocalsFit, InvalidationFit, Invalidating
<1>2. /\ loc[c] = "unlink" /\ loc' = [loc EXCEPT ![c] = "reset"]
      /\ UNCHANGED <<user, alloc, tbpc, invalid, jmp_dest, jmp_list, target,
                     htable, jmp_cache, tb_flush_count, work_list, work, pc,
                     tb, last_tb, tb_exit, inv, idx, ptr, ent>>
  BY <1>1 DEF TypeOK, UnlinkStart, Goto, run, flush, block, invloc
<1>3. /\ loc[c] = "unlink" /\ loc'[c] = "reset"
      /\ \A o \in Cpu \ {c} : loc'[o] = loc[o]
      /\ inv[c] = t /\ t # None
      /\ \A o \in Cpu \ {c} : inv[o] # t
      /\ idx[c] = 0
      /\ UNCHANGED <<user, alloc, tbpc, invalid, jmp_dest, jmp_list, target,
                     htable, jmp_cache, tb_flush_count, work_list, work, pc,
                     tb, last_tb, tb_exit, inv, idx, ptr, ent>>
  <2>1. loc[c] = "unlink" /\ loc'[c] = "reset"
    BY <1>1, <1>2 DEF TypeOK
  <2>2. \A o \in Cpu \ {c} : loc'[o] = loc[o]
    BY <1>1, <1>2 DEF TypeOK
  <2>3. inv[c] = t /\ t # None
    BY <1>0
  <2>4. \A o \in Cpu \ {c} : inv[o] # t
    BY <1>0, <1>1 DEF LocalsFit, InvalidationFit
  <2>5. idx[c] = 0
    BY <1>1, <1>2 DEF LocalsFit, InvalidationFit
  <2>6. UNCHANGED <<user, alloc, tbpc, invalid, jmp_dest, jmp_list, target,
                       htable, jmp_cache, tb_flush_count, work_list, work, pc,
                       tb, last_tb, tb_exit, inv, idx, ptr, ent>>
    BY <1>2
  <2> QED  BY <2>1, <2>2, <2>3, <2>4, <2>5, <2>6
<1>4. TypeOK'
  <2>1. loc' \in [Cpu -> Loc]
    BY <1>1, <1>2 DEF TypeOK, Loc, Invalidating
  <2> QED  BY <1>1, <1>2, <2>1 DEF TypeOK
<1>5. RequestsFit'
  BY <1>1, <1>3 DEF RequestsFit
<1>6. LocalsFit'
  <2>1. ASSUME NEW o \in Cpu PROVE LoopFit(o)'
    <3>1. LoopFit(o)
      BY <1>1 DEF LocalsFit
    <3> QED  BY <3>1, <1>3, <1>s
             DEF LoopFit, InLoop, Live, Idle, Invalidating, Shapes
  <2>2. ASSUME NEW o \in Cpu PROVE InvalidationFit(o)'
    <3>1. InvalidationFit(o)
      BY <1>1 DEF LocalsFit
    <3> QED  BY <3>1, <1>3, <1>s
             DEF InvalidationFit, Live, Invalidating, Shapes
  <2> QED  BY <2>1, <2>2 DEF LocalsFit
<1>7. FoundLive'
  BY <1>1, <1>3 DEF FoundLive, Live
<1>8. JumpsLead'
  BY <1>1, <1>3 DEF JumpsLead, Live
<1>9. JumpsListed'
  BY <1>1, <1>3 DEF JumpsListed
<1>10. PatchHeld'
  BY <1>1, <1>3 DEF PatchHeld
<1>11. MarkedOnce'
  BY <1>1, <1>3 DEF MarkedOnce
<1>12. RemovalReady'
  BY <1>1, <1>3, RemovalKept
<1>13. FlushAlone'
  BY <1>1, <1>3 DEF FlushAlone, InLoop, Invalidating, Flushing
<1>14. Published'
  BY <1>1, <1>3 DEF Published, Flushing, Live
<1>15. RunsItsPc'
  BY <1>1, <1>3 DEF RunsItsPc, Live
<1>16. ListsExact'
  <2>1. ListedIsClaimed' /\ ClaimedIsListed'
    BY <1>s, <1>3, ListsKept
  <2> QED  BY <1>4, <2>1, ListsSplitNext
<1> QED  BY <1>4, <1>5, <1>6, <1>7, <1>8, <1>9, <1>10, <1>11, <1>12,
             <1>13, <1>14, <1>15, <1>16 DEF IInv

(* A jump of the block is marked.  If it leads somewhere, it is in a list  *)
(* or about to be.                                                         *)
LEMMA MarkStep ==
    ASSUME IInv, NEW c \in Cpu, MarkDest(c)
    PROVE  IInv'
<1> USE TbCacheAssumption
<1>1. TypeOK /\ RequestsFit /\ LocalsFit /\ FoundLive /\ JumpsLead
      /\ JumpsListed /\ PatchHeld /\ MarkedOnce /\ RemovalReady /\ FlushAlone
      /\ Published /\ RunsItsPc /\ ListsExact
  BY DEF IInv
<1>s. Shapes /\ ListedIsClaimed /\ ClaimedIsListed
  BY <1>1, ShapesHold, ListsSplit
<1>t. jmp_dest \in [Slot -> [Exit -> [d : Slot \cup {None}, m : BOOLEAN]]]
  BY <1>1 DEF TypeOK
<1>0. PICK t \in Slot, n \in Exit : t = inv[c] /\ n = idx[c] /\ t # None
  BY <1>1 DEF MarkDest, TypeOK, LocalsFit, InvalidationFit, Invalidating
<1>2. /\ loc[c] = "detach" /\ loc' = [loc EXCEPT ![c] = loc'[c]]
      /\ jmp_dest' = [jmp_dest EXCEPT ![t][n].m = TRUE]
      /\ \/ /\ UNCHANGED ptr /\ jmp_dest[t][n].d = None
            /\ \/ loc'[c] = "detach" /\ idx' = [idx EXCEPT ![c] = n + 1] /\ n < MaxExit
               \/ loc'[c] = "unlink" /\ idx' = [idx EXCEPT ![c] = 0]
         \/ /\ loc'[c] = "remove" /\ ptr' = [ptr EXCEPT ![c] = jmp_dest[t][n].d]
            /\ UNCHANGED idx /\ jmp_dest[t][n].d # None
      /\ UNCHANGED <<user, alloc, tbpc, invalid, jmp_list, target, htable,
                     jmp_cache, tb_flush_count, work_list, work, pc, tb,
                     last_tb, tb_exit, inv, ent>>
  <2>1. CASE jmp_dest[t][n].d = None
    BY <1>0, <1>1, <2>1 DEF TypeOK, MarkDest, NextExit, Goto, flush, run
  <2>2. CASE jmp_dest[t][n].d # None
    BY <1>0, <1>1, <2>2 DEF TypeOK, MarkDest, Goto, flush, run
  <2> QED  BY <2>1, <2>2
<1>3. /\ loc[c] = "detach" /\ loc'[c] \in {"detach", "unlink", "remove"}
      /\ \A o \in Cpu \ {c} : loc'[o] = loc[o]
      /\ \A o \in Cpu \ {c} : idx'[o] = idx[o]
      /\ \A o \in Cpu \ {c} : ptr'[o] = ptr[o]
      /\ inv[c] = t /\ t # None
      /\ \A o \in Cpu \ {c} : inv[o] # t
      /\ idx[c] = n /\ n \in Nat
      /\ jmp_dest'[t][n].m
      /\ jmp_dest'[t][n].d = jmp_dest[t][n].d
      /\ \A q \in Slot, k \in Exit :
        (q # t \/ k # n) => jmp_dest'[q][k] = jmp_dest[q][k]
      /\ ptr[c] = None /\ ~jmp_dest[t][n].m
      /\ loc'[c] = "detach" => idx'[c] = n + 1 /\ ptr'[c] = None
      /\ loc'[c] = "unlink" => idx'[c] = 0 /\ ptr'[c] = None
      /\ loc'[c] = "remove" =>
        idx'[c] = n /\ ptr'[c] = jmp_dest[t][n].d /\ jmp_dest[t][n].d # None
      /\ t \notin htable
      /\ \A o \in Cpu : loc[o] = "remove" => inv[o] # None /\ ptr[o] # None
      /\ \A o \in Cpu : loc[o] = "patch" => last_tb[o] # None /\ tb[o] # None
      /\ \A q \in Slot, k \in Exit : jmp_dest'[q][k].d = jmp_dest[q][k].d
      /\ UNCHANGED <<user, alloc, tbpc, invalid, jmp_list, target, htable,
                     jmp_cache, tb_flush_count, work_list, work, pc, tb,
                     last_tb, tb_exit, inv, ent>>
  <2>1. loc[c] = "detach" /\ loc'[c] \in {"detach", "unlink", "remove"}
    BY <1>1, <1>2 DEF TypeOK
  <2>2. \A o \in Cpu \ {c} : loc'[o] = loc[o]
    BY <1>1, <1>2 DEF TypeOK
  <2>3. \A o \in Cpu \ {c} : idx'[o] = idx[o]
    BY <1>1, <1>2 DEF TypeOK
  <2>4. \A o \in Cpu \ {c} : ptr'[o] = ptr[o]
    BY <1>1, <1>2 DEF TypeOK
  <2>5. inv[c] = t /\ t # None
    BY <1>0
  <2>6. \A o \in Cpu \ {c} : inv[o] # t
    BY <1>0, <1>1 DEF LocalsFit, InvalidationFit
  <2>7. idx[c] = n /\ n \in Nat
    BY <1>0 DEF Exit
  <2>8. jmp_dest'[t][n].m
    BY <1>t, <1>2, MarkSet, Zenon
  <2>9. jmp_dest'[t][n].d = jmp_dest[t][n].d
    BY <1>t, <1>2, MarkSet
  <2>10. \A q \in Slot, k \in Exit :
          (q # t \/ k # n) => jmp_dest'[q][k] = jmp_dest[q][k]
    BY <1>t, <1>2, MarkSet
  <2>11. ptr[c] = None /\ ~jmp_dest[t][n].m
    BY <1>0, <1>1, <1>2 DEF LocalsFit, InvalidationFit, MarkedOnce, Exit
  <2>12. loc'[c] = "detach" => idx'[c] = n + 1 /\ ptr'[c] = None
    BY <1>1, <1>2, <2>11 DEF TypeOK
  <2>13. loc'[c] = "unlink" => idx'[c] = 0 /\ ptr'[c] = None
    BY <1>1, <1>2, <2>11 DEF TypeOK
  <2>14. loc'[c] = "remove" =>
          idx'[c] = n /\ ptr'[c] = jmp_dest[t][n].d /\ jmp_dest[t][n].d # None
    BY <1>0, <1>1, <1>2 DEF TypeOK
  <2>15. t \notin htable
    <3> SUFFICES ASSUME t \in htable PROVE FALSE
      OBVIOUS
    <3>1. ~Flushing
      BY <1>1, Zenon DEF FlushAlone, Flushing
    <3>2. Live(t) /\ invalid[t]
      BY <1>0, <1>1 DEF LocalsFit, InvalidationFit
    <3>3. PICK o \in Cpu : loc[o] = "unhash" /\ inv[o] = t
      BY <3>1, <3>2, <1>1 DEF Published
    <3>4. o = c
      BY <1>0, <3>3, <1>1 DEF LocalsFit, InvalidationFit
    <3> QED  BY <3>3, <3>4, <1>2
  <2>16. \A o \in Cpu : loc[o] = "remove" => inv[o] # None /\ ptr[o] # None
    BY <1>1 DEF LocalsFit, InvalidationFit, Invalidating
  <2>17. \A o \in Cpu : loc[o] = "patch" => last_tb[o] # None /\ tb[o] # None
    BY <1>1 DEF RunsItsPc, PatchHeld
  <2>18. \A q \in Slot, k \in Exit : jmp_dest'[q][k].d = jmp_dest[q][k].d
    BY <2>9, <2>10
  <2>19. UNCHANGED <<user, alloc, tbpc, invalid, jmp_list, target, htable,
                       jmp_cache, tb_flush_count, work_list, work, pc, tb,
                       last_tb, tb_exit, inv, ent>>
    BY <1>2
  <2> QED  BY <2>1, <2>2, <2>3, <2>4, <2>5, <2>6, <2>7, <2>8, <2>9, <2>10,
              <2>11, <2>12, <2>13, <2>14, <2>15, <2>16, <2>17, <2>18, <2>19
<1>4. TypeOK'
  <2>1. loc' \in [Cpu -> Loc]
    BY <1>1, <1>2 DEF TypeOK, Loc, Invalidating
  <2>2. jmp_dest' \in [Slot -> [Exit -> [d : Slot \cup {None}, m : BOOLEAN]]]
    BY <1>t, <1>2, DestTypes, Zenon
  <2>3. idx' \in [Cpu -> Exit]
    BY <1>1, <1>2 DEF TypeOK, Exit
  <2>4. ptr' \in [Cpu -> Slot \cup {None}]
    <3>1. jmp_dest[t][n].d \in Slot \cup {None}
      BY <1>s DEF Shapes
    <3>2. ptr \in [Cpu -> Slot \cup {None}]
      BY <1>1 DEF TypeOK
    <3> QED  BY <1>2, <3>1, <3>2
  <2> QED  BY <1>1, <1>2, <2>1, <2>2, <2>3, <2>4 DEF TypeOK
<1>5. RequestsFit'
  BY <1>1, <1>3 DEF RequestsFit
<1>6. LocalsFit'
  <2>1. ASSUME NEW o \in Cpu PROVE LoopFit(o)'
    <3>1. LoopFit(o)
      BY <1>1 DEF LocalsFit
    <3> QED  BY <3>1, <1>3, <1>s, <1>1
             DEF LoopFit, InLoop, Live, Idle, Invalidating, Shapes, JumpsLead
  <2>2. ASSUME NEW o \in Cpu PROVE InvalidationFit(o)'
    <3>1. InvalidationFit(o)
      BY <1>1 DEF LocalsFit
    <3> QED  BY <3>1, <1>3, <1>s, <1>1
             DEF InvalidationFit, Live, Invalidating, Shapes, JumpsLead
  <2> QED  BY <2>1, <2>2 DEF LocalsFit
<1>7. FoundLive'
  BY <1>1, <1>3 DEF FoundLive, Live
<1>8. JumpsLead'
  BY <1>1, <1>3, <1>s DEF JumpsLead, Live, Shapes
<1>9. JumpsListed'
  BY <1>1, <1>3 DEF JumpsListed
<1>10. PatchHeld'
  <2> SUFFICES ASSUME NEW o \in Cpu
               PROVE  (/\ loc[o] = "patch" =>
                             /\ last_tb[o] # None /\ ~invalid[tb[o]]
                             /\ jmp_dest[last_tb[o]][tb_exit[o]].d = tb[o]
                       /\ loc[o] = "clear" =>
                             /\ ent[o] \in jmp_list[inv[o]]
                             /\ target[ent[o][1]][ent[o][2]] = None)'
    BY DEF PatchHeld
  <2>1. /\ loc[o] = "patch" =>
              /\ last_tb[o] # None /\ ~invalid[tb[o]]
              /\ jmp_dest[last_tb[o]][tb_exit[o]].d = tb[o]
        /\ loc[o] = "clear" =>
              /\ ent[o] \in jmp_list[inv[o]]
              /\ target[ent[o][1]][ent[o][2]] = None
    BY <1>1, Zenon DEF PatchHeld
  <2>2. loc'[o] = "patch" =>
              /\ last_tb'[o] # None /\ ~invalid'[tb'[o]]
              /\ jmp_dest'[last_tb'[o]][tb_exit'[o]].d = tb'[o]
    <3>1. SUFFICES ASSUME loc'[o] = "patch"
                   PROVE  /\ last_tb'[o] # None /\ ~invalid'[tb'[o]]
                          /\ jmp_dest'[last_tb'[o]][tb_exit'[o]].d = tb'[o]
      OBVIOUS
    <3>2. /\ loc[o] = "patch" /\ tb'[o] = tb[o]
          /\ last_tb'[o] = last_tb[o] /\ tb_exit'[o] = tb_exit[o]
      BY <3>1, <1>3
    <3>3. last_tb[o] \in Slot /\ tb_exit[o] \in Exit /\ tb[o] # None
      BY <1>s, <1>3, <3>2 DEF Shapes
    <3>4. jmp_dest'[last_tb[o]][tb_exit[o]].d = jmp_dest[last_tb[o]][tb_exit[o]].d
      BY <2>1, <3>2, <3>3, <1>3
    <3>5. ~invalid'[tb[o]]
      BY <2>1, <3>2, <1>3
    <3> QED  BY <2>1, <3>2, <3>4, <3>5
  <2>3. loc'[o] = "clear" =>
              /\ ent'[o] \in jmp_list'[inv'[o]]
              /\ target'[ent'[o][1]][ent'[o][2]] = None
    <3>1. loc'[o] = "clear" => loc[o] = "clear"
      BY <1>3
    <3>2. loc[o] = "clear" => inv[o] # None /\ ent[o] # <<>>
      BY <1>1 DEF LocalsFit, InvalidationFit, Invalidating
    <3>3. loc[o] = "clear" =>
              inv[o] \in Slot /\ ent[o][1] \in Slot /\ ent[o][2] \in Exit
      BY <1>s, <3>2, JumpParts DEF Shapes
    <3> QED  BY <2>1, <1>3, <3>1, <3>3
  <2> QED  BY <2>2, <2>3
<1>11. MarkedOnce'
  <2>1. (\A t_1 \in htable, k \in Exit : ~jmp_dest[t_1][k].m)'
    BY <1>1, <1>3, <1>s DEF MarkedOnce, Shapes, Exit
  <2>2. ASSUME NEW o \in Cpu, NEW k \in Exit,
               (\/ loc[o] \in {"uncache", "detach"} /\ k >= idx[o]
                \/ loc[o] = "remove" /\ k > idx[o])'
        PROVE  ~jmp_dest'[inv'[o]][k].m
    <3>1. inv[o] # None => ~jmp_dest[inv[o]][k].m
      BY <2>2, <1>1, <1>3, <1>s DEF MarkedOnce, Shapes, Exit
    <3>2. inv[o] # None
      BY <2>2, <1>1, <1>3 DEF LocalsFit, InvalidationFit, Invalidating
    <3> QED  BY <3>1, <3>2, <2>2, <1>1, <1>3, <1>s DEF MarkedOnce, Shapes, Exit
  <2> QED  BY <2>1, <2>2 DEF MarkedOnce
<1>12. RemovalReady'
  <2> SUFFICES ASSUME NEW o \in Cpu, loc'[o] = "remove"
               PROVE  (LET dest == jmp_dest[inv[o]][idx[o]]
                       IN  /\ dest.m
                           /\ \/ /\ dest.d = ptr[o]
                                 /\ \/ <<inv[o], idx[o]>> \in jmp_list[ptr[o]]
                                    \/ \E q \in Cpu :
                                          /\ loc[q] = "patch" /\ tb[q] = ptr[o]
                                          /\ last_tb[q] = inv[o] /\ tb_exit[q] = idx[o]
                              \/ dest.d = None /\ invalid[ptr[o]])'
    BY DEF RemovalReady
  <2>1. \A q \in Cpu : loc[q] = "patch" => q # c /\ loc'[q] = "patch"
    BY <1>3
  <2>2. CASE o = c
    <3>1. loc'[c] = "remove" /\ jmp_dest[t][n].d # None
      BY <2>2, <1>3
    <3>2. \/ <<t, n>> \in jmp_list[jmp_dest[t][n].d]
          \/ \E q \in Cpu : /\ loc[q] = "patch" /\ tb[q] = jmp_dest[t][n].d
                            /\ last_tb[q] = t /\ tb_exit[q] = n
      BY <3>1, <1>s, <1>3 DEF ClaimedIsListed
    <3> QED  BY <2>1, <2>2, <3>1, <3>2, <1>3
  <2>3. CASE o # c
    <3>1. loc[o] = "remove" /\ inv[o] # t /\ inv[o] \in Slot /\ idx[o] \in Exit
      BY <2>3, <1>s, <1>3 DEF Shapes
    <3>2. /\ jmp_dest[inv[o]][idx[o]].m
          /\ \/ /\ jmp_dest[inv[o]][idx[o]].d = ptr[o]
                /\ \/ <<inv[o], idx[o]>> \in jmp_list[ptr[o]]
                   \/ \E q \in Cpu :
                         /\ loc[q] = "patch" /\ tb[q] = ptr[o]
                         /\ last_tb[q] = inv[o] /\ tb_exit[q] = idx[o]
             \/ jmp_dest[inv[o]][idx[o]].d = None /\ invalid[ptr[o]]
      BY <1>1, <3>1, Zenon DEF RemovalReady
    <3>3. jmp_dest'[inv[o]][idx[o]].m
      BY <3>1, <3>2, <1>3, Zenon
    <3>4. inv'[o] = inv[o] /\ idx'[o] = idx[o] /\ ptr'[o] = ptr[o]
      BY <2>3, <1>3
    <3>5. jmp_dest'[inv[o]][idx[o]].d = jmp_dest[inv[o]][idx[o]].d
      BY <3>1, <1>3
    <3>6. UNCHANGED <<jmp_list, invalid, tb, last_tb, tb_exit>>
      BY <1>3
    <3> QED  BY <2>1, <3>2, <3>3, <3>4, <3>5, <3>6
  <2> QED  BY <2>2, <2>3
<1>13. FlushAlone'
  BY <1>1, <1>3 DEF FlushAlone, InLoop, Invalidating, Flushing
<1>14. Published'
  BY <1>1, <1>3 DEF Published, Flushing, Live
<1>15. RunsItsPc'
  BY <1>1, <1>3 DEF RunsItsPc, Live
<1>16. ListsExact'
  <2>1. \A q \in Cpu : loc[q] \in {"clear", "patch"} => q # c /\ loc'[q] = loc[q]
    BY <1>3
  <2>2. ListedIsClaimed'
    <3> SUFFICES ASSUME NEW u \in Slot, NEW v \in Slot, NEW k \in Exit,
                        (<<v, k>> \in jmp_list[u])'
                 PROVE  (/\ jmp_dest[v][k].d = u
                         /\ \/ target[v][k] = u
                            \/ \E q \in Cpu : loc[q] = "clear" /\ inv[q] = u
                                              /\ ent[q] = <<v, k>>)'
      BY DEF ListedIsClaimed
    <3>1. /\ jmp_dest[v][k].d = u
          /\ \/ target[v][k] = u
             \/ \E q \in Cpu : loc[q] = "clear" /\ inv[q] = u /\ ent[q] = <<v, k>>
      <4>1. <<v, k>> \in jmp_list[u]
        BY <1>3
      <4> QED  BY <1>s, <4>1, Zenon DEF ListedIsClaimed
    <3> QED  BY <2>1, <3>1, <1>s, <1>3, <1>s DEF Shapes
  <2>3. ClaimedIsListed'
    <3> SUFFICES ASSUME NEW v \in Slot, NEW k \in Exit,
                        (jmp_dest[v][k].d # None /\ ~jmp_dest[v][k].m)'
                 PROVE  (\/ <<v, k>> \in jmp_list[jmp_dest[v][k].d]
                         \/ \E q \in Cpu : /\ loc[q] = "patch" /\ tb[q] = jmp_dest[v][k].d
                                           /\ last_tb[q] = v /\ tb_exit[q] = k)'
      BY DEF ClaimedIsListed
    <3>1. \/ <<v, k>> \in jmp_list[jmp_dest[v][k].d]
          \/ \E q \in Cpu : /\ loc[q] = "patch" /\ tb[q] = jmp_dest[v][k].d
                            /\ last_tb[q] = v /\ tb_exit[q] = k
      <4>1. jmp_dest[v][k].d # None /\ ~jmp_dest[v][k].m
        BY <1>3
      <4> QED  BY <1>s, <4>1 DEF ClaimedIsListed
    <3> QED  BY <2>1, <3>1, <1>s, <1>3, <1>s DEF Shapes
  <2> QED  BY <1>4, <2>2, <2>3, ListsSplitNext
<1> QED  BY <1>4, <1>5, <1>6, <1>7, <1>8, <1>9, <1>10, <1>11, <1>12,
             <1>13, <1>14, <1>15, <1>16 DEF IInv

(* The marked jump leaves the list of its destination, whose lock nobody   *)
(* holds.                                                                  *)
LEMMA RemoveStep ==
    ASSUME IInv, NEW c \in Cpu, RemoveFromList(c)
    PROVE  IInv'
<1> USE TbCacheAssumption
<1>1. TypeOK /\ RequestsFit /\ LocalsFit /\ FoundLive /\ JumpsLead
      /\ JumpsListed /\ PatchHeld /\ MarkedOnce /\ RemovalReady /\ FlushAlone
      /\ Published /\ RunsItsPc /\ ListsExact
  BY DEF IInv
<1>s. Shapes /\ ListedIsClaimed /\ ClaimedIsListed
  BY <1>1, ShapesHold, ListsSplit
<1>0. PICK t \in Slot, n \in Exit, r \in Slot : t = inv[c] /\ n = idx[c] /\ t # None /\ r = ptr[c]
  BY <1>1 DEF RemoveFromList, TypeOK, LocalsFit, InvalidationFit, Invalidating
<1>2. /\ loc[c] = "remove" /\ loc' = [loc EXCEPT ![c] = loc'[c]] /\ ~JmpLocked(r)
      /\ jmp_list' = IF jmp_dest[t][n].d = r
                     THEN [jmp_list EXCEPT ![r] = jmp_list[r] \ {<<t, n>>}]
                     ELSE jmp_list
      /\ ptr' = [ptr EXCEPT ![c] = None]
      /\ \/ loc'[c] = "detach" /\ idx' = [idx EXCEPT ![c] = n + 1] /\ n < MaxExit
         \/ loc'[c] = "unlink" /\ idx' = [idx EXCEPT ![c] = 0]
      /\ UNCHANGED <<user, alloc, tbpc, invalid, jmp_dest, target, htable,
                     jmp_cache, tb_flush_count, work_list, work, pc, tb,
                     last_tb, tb_exit, inv, ent>>
  BY <1>0, <1>1 DEF TypeOK, RemoveFromList, NextExit, Goto, flush, run
<1>3. /\ loc[c] = "remove" /\ loc'[c] \in {"detach", "unlink"}
      /\ \A o \in Cpu \ {c} : loc'[o] = loc[o]
      /\ \A o \in Cpu \ {c} : idx'[o] = idx[o]
      /\ \A o \in Cpu \ {c} : ptr'[o] = ptr[o]
      /\ inv[c] = t /\ t # None
      /\ \A o \in Cpu \ {c} : inv[o] # t
      /\ idx[c] = n /\ n \in Nat /\ ptr[c] = r /\ r \in Slot
      /\ ptr'[c] = None
      /\ loc'[c] = "detach" => idx'[c] = n + 1
      /\ loc'[c] = "unlink" => idx'[c] = 0
      /\ \A u \in Slot : jmp_list'[u] \subseteq jmp_list[u]
      /\ \A u \in Slot : u # r => jmp_list'[u] = jmp_list[u]
      /\ \A u \in Slot, v \in Slot, k \in Exit :
        <<v, k>> \in jmp_list[u] /\ (v # t \/ k # n) => <<v, k>> \in jmp_list'[u]
      /\ \A o \in Cpu : loc[o] = "patch" => tb[o] # r
      /\ \A o \in Cpu : loc[o] = "clear" => inv[o] # r
      /\ invalid[t]
      /\ jmp_dest[t][n].m
      /\ \A o \in Cpu : loc[o] = "remove" => inv[o] # None /\ ptr[o] # None
      /\ \A o \in Cpu : loc[o] = "patch" => last_tb[o] # None /\ tb[o] # None
      /\ UNCHANGED <<user, alloc, tbpc, invalid, jmp_dest, target, htable,
                     jmp_cache, tb_flush_count, work_list, work, pc, tb,
                     last_tb, tb_exit, inv, ent>>
  <2>1. loc[c] = "remove" /\ loc'[c] \in {"detach", "unlink"}
    BY <1>1, <1>2 DEF TypeOK
  <2>2. \A o \in Cpu \ {c} : loc'[o] = loc[o]
    BY <1>1, <1>2 DEF TypeOK
  <2>3. \A o \in Cpu \ {c} : idx'[o] = idx[o]
    BY <1>1, <1>2 DEF TypeOK
  <2>4. \A o \in Cpu \ {c} : ptr'[o] = ptr[o]
    BY <1>1, <1>2 DEF TypeOK
  <2>5. inv[c] = t /\ t # None
    BY <1>0
  <2>6. \A o \in Cpu \ {c} : inv[o] # t
    BY <1>0, <1>1 DEF LocalsFit, InvalidationFit
  <2>7. idx[c] = n /\ n \in Nat /\ ptr[c] = r /\ r \in Slot
    BY <1>0 DEF Exit
  <2>8. ptr'[c] = None
    BY <1>1, <1>2 DEF TypeOK
  <2>9. loc'[c] = "detach" => idx'[c] = n + 1
    BY <1>1, <1>2 DEF TypeOK
  <2>10. loc'[c] = "unlink" => idx'[c] = 0
    BY <1>1, <1>2 DEF TypeOK
  <2>11. \A u \in Slot : jmp_list'[u] \subseteq jmp_list[u]
    BY <1>1, <1>2 DEF TypeOK
  <2>12. \A u \in Slot : u # r => jmp_list'[u] = jmp_list[u]
    BY <1>1, <1>2 DEF TypeOK
  <2>13. \A u \in Slot, v \in Slot, k \in Exit :
          <<v, k>> \in jmp_list[u] /\ (v # t \/ k # n) => <<v, k>> \in jmp_list'[u]
    BY <1>1, <1>2 DEF TypeOK
  <2>14. \A o \in Cpu : loc[o] = "patch" => tb[o] # r
    BY <1>2 DEF JmpLocked
  <2>15. \A o \in Cpu : loc[o] = "clear" => inv[o] # r
    BY <1>2 DEF JmpLocked
  <2>16. invalid[t]
    BY <1>0, <1>1 DEF LocalsFit, InvalidationFit
  <2>17. jmp_dest[t][n].m
    BY <1>0, <1>1, <1>2, Zenon DEF RemovalReady
  <2>18. \A o \in Cpu : loc[o] = "remove" => inv[o] # None /\ ptr[o] # None
    BY <1>1 DEF LocalsFit, InvalidationFit, Invalidating
  <2>19. \A o \in Cpu : loc[o] = "patch" => last_tb[o] # None /\ tb[o] # None
    BY <1>1 DEF RunsItsPc, PatchHeld
  <2>20. UNCHANGED <<user, alloc, tbpc, invalid, jmp_dest, target, htable,
                       jmp_cache, tb_flush_count, work_list, work, pc, tb,
                       last_tb, tb_exit, inv, ent>>
    BY <1>2
  <2> QED  BY <2>1, <2>2, <2>3, <2>4, <2>5, <2>6, <2>7, <2>8, <2>9, <2>10,
              <2>11, <2>12, <2>13, <2>14, <2>15, <2>16, <2>17, <2>18, <2>19,
              <2>20
<1>4. TypeOK'
  <2>1. loc' \in [Cpu -> Loc]
    BY <1>1, <1>2 DEF TypeOK, Loc, Invalidating
  <2>2. jmp_list' \in [Slot -> SUBSET Jump]
    BY <1>1, <1>2 DEF TypeOK
  <2>3. idx' \in [Cpu -> Exit]
    <3>1. idx \in [Cpu -> 0 .. MaxExit] /\ n \in 0 .. MaxExit
      BY <1>0, <1>1 DEF TypeOK, Exit
    <3>2. n < MaxExit => n + 1 \in 0 .. MaxExit
      BY <3>1
    <3>3. 0 \in 0 .. MaxExit
      OBVIOUS
    <3> QED  BY <1>2, <3>1, <3>2, <3>3 DEF Exit
  <2>4. ptr' \in [Cpu -> Slot \cup {None}]
    BY <1>1, <1>2 DEF TypeOK
  <2> QED  BY <1>1, <1>2, <2>1, <2>2, <2>3, <2>4 DEF TypeOK
<1>5. RequestsFit'
  BY <1>1, <1>3 DEF RequestsFit
<1>6. LocalsFit'
  <2>1. ASSUME NEW o \in Cpu PROVE LoopFit(o)'
    <3>1. LoopFit(o)
      BY <1>1 DEF LocalsFit
    <3> QED  BY <3>1, <1>3, <1>s
             DEF LoopFit, InLoop, Live, Idle, Invalidating, Shapes
  <2>2. ASSUME NEW o \in Cpu PROVE InvalidationFit(o)'
    <3>1. InvalidationFit(o)
      BY <1>1 DEF LocalsFit
    <3> QED  BY <3>1, <1>3, <1>s
             DEF InvalidationFit, Live, Invalidating, Shapes
  <2> QED  BY <2>1, <2>2 DEF LocalsFit
<1>7. FoundLive'
  BY <1>1, <1>3 DEF FoundLive, Live
<1>8. JumpsLead'
  BY <1>1, <1>3 DEF JumpsLead, Live
<1>9. JumpsListed'
  <2> SUFFICES ASSUME NEW v \in Slot, NEW k \in Exit,
                      (target[v][k] # None /\ ~invalid[v])'
               PROVE  (<<v, k>> \in jmp_list[target[v][k]])'
    BY DEF JumpsListed
  <2>0. UNCHANGED <<target, invalid>> /\ invalid[t]
    BY <1>3
  <2>1. v # t
    BY <2>0
  <2>3. target[v][k] \in Slot
    BY <1>s, <2>0 DEF Shapes
  <2>2. <<v, k>> \in jmp_list[target[v][k]]
    BY <1>1, <1>3 DEF JumpsListed
  <2> QED  BY <2>1, <2>2, <2>3, <1>3
<1>10. PatchHeld'
  <2> SUFFICES ASSUME NEW o \in Cpu
               PROVE  (/\ loc[o] = "patch" =>
                             /\ last_tb[o] # None /\ ~invalid[tb[o]]
                             /\ jmp_dest[last_tb[o]][tb_exit[o]].d = tb[o]
                       /\ loc[o] = "clear" =>
                             /\ ent[o] \in jmp_list[inv[o]]
                             /\ target[ent[o][1]][ent[o][2]] = None)'
    BY DEF PatchHeld
  <2>1. /\ loc[o] = "patch" =>
              /\ last_tb[o] # None /\ ~invalid[tb[o]]
              /\ jmp_dest[last_tb[o]][tb_exit[o]].d = tb[o]
        /\ loc[o] = "clear" =>
              /\ ent[o] \in jmp_list[inv[o]]
              /\ target[ent[o][1]][ent[o][2]] = None
    BY <1>1, Zenon DEF PatchHeld
  <2>2. loc'[o] = "patch" =>
              /\ last_tb'[o] # None /\ ~invalid'[tb'[o]]
              /\ jmp_dest'[last_tb'[o]][tb_exit'[o]].d = tb'[o]
    BY <2>1, <1>3, <1>s DEF Shapes
  <2>3. loc'[o] = "clear" =>
              /\ ent'[o] \in jmp_list'[inv'[o]]
              /\ target'[ent'[o][1]][ent'[o][2]] = None
    <3>1. loc'[o] = "clear" => loc[o] = "clear"
      BY <1>3
    <3>2. loc[o] = "clear" => inv[o] # None /\ ent[o] # <<>>
      BY <1>1 DEF LocalsFit, InvalidationFit, Invalidating
    <3>3. loc[o] = "clear" =>
              inv[o] \in Slot /\ ent[o][1] \in Slot /\ ent[o][2] \in Exit
      BY <1>s, <3>2, JumpParts DEF Shapes
    <3> QED  BY <2>1, <1>3, <3>1, <3>3, <1>s DEF Shapes
  <2> QED  BY <2>2, <2>3
<1>11. MarkedOnce'
  <2>1. (\A t_1 \in htable, k \in Exit : ~jmp_dest[t_1][k].m)'
    BY <1>1, <1>3, <1>s DEF MarkedOnce, Shapes, Exit
  <2>2. ASSUME NEW o \in Cpu, NEW k \in Exit,
               (\/ loc[o] \in {"uncache", "detach"} /\ k >= idx[o]
                \/ loc[o] = "remove" /\ k > idx[o])'
        PROVE  ~jmp_dest'[inv'[o]][k].m
    <3>1. inv[o] # None => ~jmp_dest[inv[o]][k].m
      BY <2>2, <1>1, <1>3, <1>s DEF MarkedOnce, Shapes, Exit
    <3>2. inv[o] # None
      BY <2>2, <1>1, <1>3 DEF LocalsFit, InvalidationFit, Invalidating
    <3> QED  BY <3>1, <3>2, <2>2, <1>1, <1>3, <1>s DEF MarkedOnce, Shapes, Exit
  <2> QED  BY <2>1, <2>2 DEF MarkedOnce
<1>12. RemovalReady'
  <2> SUFFICES ASSUME NEW o \in Cpu, loc'[o] = "remove"
               PROVE  (LET dest == jmp_dest[inv[o]][idx[o]]
                       IN  /\ dest.m
                           /\ \/ /\ dest.d = ptr[o]
                                 /\ \/ <<inv[o], idx[o]>> \in jmp_list[ptr[o]]
                                    \/ \E q \in Cpu :
                                          /\ loc[q] = "patch" /\ tb[q] = ptr[o]
                                          /\ last_tb[q] = inv[o] /\ tb_exit[q] = idx[o]
                              \/ dest.d = None /\ invalid[ptr[o]])'
    BY DEF RemovalReady
  <2>1. \A q \in Cpu : loc[q] = "patch" => q # c /\ loc'[q] = "patch"
    BY <1>3
  <2>2. o # c /\ loc[o] = "remove" /\ inv[o] # t
    BY <1>3
  <2>3. /\ jmp_dest[inv[o]][idx[o]].m
        /\ \/ /\ jmp_dest[inv[o]][idx[o]].d = ptr[o]
              /\ \/ <<inv[o], idx[o]>> \in jmp_list[ptr[o]]
                 \/ \E q \in Cpu :
                       /\ loc[q] = "patch" /\ tb[q] = ptr[o]
                       /\ last_tb[q] = inv[o] /\ tb_exit[q] = idx[o]
           \/ jmp_dest[inv[o]][idx[o]].d = None /\ invalid[ptr[o]]
    BY <1>1, <2>2, Zenon DEF RemovalReady
  <2>4. inv[o] \in Slot /\ idx[o] \in Exit /\ ptr[o] \in Slot
    BY <2>2, <1>s, <1>3 DEF Shapes
  <2>5. <<inv[o], idx[o]>> \in jmp_list[ptr[o]] => <<inv[o], idx[o]>> \in jmp_list'[ptr[o]]
    BY <2>2, <2>4, <1>3
  <2>6. inv'[o] = inv[o] /\ idx'[o] = idx[o] /\ ptr'[o] = ptr[o]
    BY <2>2, <1>3
  <2>7. UNCHANGED <<jmp_dest, invalid, tb, last_tb, tb_exit>>
    BY <1>3
  <2> QED  BY <2>1, <2>3, <2>5, <2>6, <2>7
<1>13. FlushAlone'
  BY <1>1, <1>3 DEF FlushAlone, InLoop, Invalidating, Flushing
<1>14. Published'
  BY <1>1, <1>3 DEF Published, Flushing, Live
<1>15. RunsItsPc'
  BY <1>1, <1>3 DEF RunsItsPc, Live
<1>16. ListsExact'
  <2>1. \A q \in Cpu : loc[q] \in {"clear", "patch"} => q # c /\ loc'[q] = loc[q]
    BY <1>3
  <2>2. ListedIsClaimed'
    <3> SUFFICES ASSUME NEW u \in Slot, NEW v \in Slot, NEW k \in Exit,
                        (<<v, k>> \in jmp_list[u])'
                 PROVE  (/\ jmp_dest[v][k].d = u
                         /\ \/ target[v][k] = u
                            \/ \E q \in Cpu : loc[q] = "clear" /\ inv[q] = u
                                              /\ ent[q] = <<v, k>>)'
      BY DEF ListedIsClaimed
    <3>1. /\ jmp_dest[v][k].d = u
          /\ \/ target[v][k] = u
             \/ \E q \in Cpu : loc[q] = "clear" /\ inv[q] = u /\ ent[q] = <<v, k>>
      <4>1. <<v, k>> \in jmp_list[u]
        BY <1>3
      <4> QED  BY <1>s, <4>1, Zenon DEF ListedIsClaimed
    <3> QED  BY <2>1, <3>1, <1>s, <1>3, <1>s DEF Shapes
  <2>3. ClaimedIsListed'
    <3> SUFFICES ASSUME NEW v \in Slot, NEW k \in Exit,
                        (jmp_dest[v][k].d # None /\ ~jmp_dest[v][k].m)'
                 PROVE  (\/ <<v, k>> \in jmp_list[jmp_dest[v][k].d]
                         \/ \E q \in Cpu : /\ loc[q] = "patch" /\ tb[q] = jmp_dest[v][k].d
                                           /\ last_tb[q] = v /\ tb_exit[q] = k)'
      BY DEF ClaimedIsListed
    <3>1. v # t \/ k # n
      BY <1>3
    <3>2. \/ <<v, k>> \in jmp_list[jmp_dest[v][k].d]
          \/ \E q \in Cpu : /\ loc[q] = "patch" /\ tb[q] = jmp_dest[v][k].d
                            /\ last_tb[q] = v /\ tb_exit[q] = k
      <4>1. jmp_dest[v][k].d # None /\ ~jmp_dest[v][k].m
        BY <1>3
      <4> QED  BY <1>s, <4>1 DEF ClaimedIsListed
    <3> QED  BY <2>1, <3>1, <3>2, <1>s, <1>3, <1>s DEF Shapes
  <2> QED  BY <1>4, <2>2, <2>3, ListsSplitNext
<1> QED  BY <1>4, <1>5, <1>6, <1>7, <1>8, <1>9, <1>10, <1>11, <1>12,
             <1>13, <1>14, <1>15, <1>16 DEF IInv

(* A listed jump is reset.                                                 *)
LEMMA ResetStep ==
    ASSUME IInv, NEW c \in Cpu, UnlinkReset(c)
    PROVE  IInv'
<1> USE TbCacheAssumption
<1>1. TypeOK /\ RequestsFit /\ LocalsFit /\ FoundLive /\ JumpsLead
      /\ JumpsListed /\ PatchHeld /\ MarkedOnce /\ RemovalReady /\ FlushAlone
      /\ Published /\ RunsItsPc /\ ListsExact
  BY DEF IInv
<1>s. Shapes /\ ListedIsClaimed /\ ClaimedIsListed
  BY <1>1, ShapesHold, ListsSplit
<1>0. PICK t \in Slot : t = inv[c] /\ t # None
  BY <1>1 DEF UnlinkReset, TypeOK, LocalsFit, InvalidationFit, Invalidating
<1>e. PICK s \in Slot, n \in Exit : /\ <<s, n>> \in jmp_list[t]
                                   /\ target' = [target EXCEPT ![s][n] = None]
                                   /\ ent' = [ent EXCEPT ![c] = <<s, n>>]
  <2>1. PICK e \in jmp_list[t] : /\ target' = [target EXCEPT ![e[1]][e[2]] = None]
                                 /\ ent' = [ent EXCEPT ![c] = e]
    BY <1>0 DEF UnlinkReset
  <2>2. e \in Jump
    BY <1>s DEF Shapes
  <2> QED  BY <2>1, <2>2, JumpParts
<1>2. /\ loc[c] = "reset" /\ loc' = [loc EXCEPT ![c] = "clear"]
      /\ target' = [target EXCEPT ![s][n] = None] /\ ent' = [ent EXCEPT ![c] = <<s, n>>]
      /\ UNCHANGED <<user, alloc, tbpc, invalid, jmp_dest, jmp_list, htable,
                     jmp_cache, tb_flush_count, work_list, work, pc, tb,
                     last_tb, tb_exit, inv, idx, ptr>>
  BY <1>e DEF UnlinkReset, Goto, flush, run
<1>3. /\ loc[c] = "reset" /\ loc'[c] = "clear"
      /\ \A o \in Cpu \ {c} : loc'[o] = loc[o]
      /\ inv[c] = t /\ t # None
      /\ \A o \in Cpu \ {c} : inv[o] # t
      /\ <<s, n>> \in jmp_list[t]
      /\ ent'[c] = <<s, n>>
      /\ \A o \in Cpu \ {c} : ent'[o] = ent[o]
      /\ target'[s][n] = None
      /\ \A q \in Slot, k \in Exit : (q # s \/ k # n) => target'[q][k] = target[q][k]
      /\ jmp_dest[s][n].d = t
      /\ idx[c] = 0
      /\ \A o \in Cpu : loc[o] = "patch" => last_tb[o] # None /\ tb[o] # None
      /\ \A o \in Cpu : loc[o] = "remove" => inv[o] # None /\ ptr[o] # None
      /\ UNCHANGED <<user, alloc, tbpc, invalid, jmp_dest, jmp_list, htable,
                     jmp_cache, tb_flush_count, work_list, work, pc, tb,
                     last_tb, tb_exit, inv, idx, ptr>>
  <2>1. loc[c] = "reset" /\ loc'[c] = "clear"
    BY <1>1, <1>2 DEF TypeOK
  <2>2. \A o \in Cpu \ {c} : loc'[o] = loc[o]
    BY <1>1, <1>2 DEF TypeOK
  <2>3. inv[c] = t /\ t # None
    BY <1>0
  <2>4. \A o \in Cpu \ {c} : inv[o] # t
    BY <1>0, <1>1 DEF LocalsFit, InvalidationFit
  <2>5. <<s, n>> \in jmp_list[t]
    BY <1>e
  <2>6. ent'[c] = <<s, n>>
    BY <1>1, <1>2 DEF TypeOK
  <2>7. \A o \in Cpu \ {c} : ent'[o] = ent[o]
    BY <1>1, <1>2 DEF TypeOK
  <2>8. target'[s][n] = None
    BY <1>1, <1>2 DEF TypeOK
  <2>9. \A q \in Slot, k \in Exit : (q # s \/ k # n) => target'[q][k] = target[q][k]
    BY <1>1, <1>2 DEF TypeOK
  <2>10. jmp_dest[s][n].d = t
    BY <1>e, <1>s DEF ListedIsClaimed
  <2>11. idx[c] = 0
    BY <1>1, <1>2 DEF LocalsFit, InvalidationFit
  <2>12. \A o \in Cpu : loc[o] = "patch" => last_tb[o] # None /\ tb[o] # None
    BY <1>1 DEF RunsItsPc, PatchHeld
  <2>13. \A o \in Cpu : loc[o] = "remove" => inv[o] # None /\ ptr[o] # None
    BY <1>1 DEF LocalsFit, InvalidationFit, Invalidating
  <2>14. UNCHANGED <<user, alloc, tbpc, invalid, jmp_dest, jmp_list, htable,
                       jmp_cache, tb_flush_count, work_list, work, pc, tb,
                       last_tb, tb_exit, inv, idx, ptr>>
    BY <1>2
  <2> QED  BY <2>1, <2>2, <2>3, <2>4, <2>5, <2>6, <2>7, <2>8, <2>9, <2>10,
              <2>11, <2>12, <2>13, <2>14
<1>4. TypeOK'
  <2>1. loc' \in [Cpu -> Loc]
    BY <1>1, <1>2 DEF TypeOK, Loc, Invalidating
  <2>2. target' \in [Slot -> [Exit -> Slot \cup {None}]]
    BY <1>1, <1>2 DEF TypeOK
  <2>3. ent' \in [Cpu -> Jump \cup {<<>>}]
    BY <1>1, <1>2 DEF TypeOK, Jump
  <2> QED  BY <1>1, <1>2, <2>1, <2>2, <2>3 DEF TypeOK
<1>5. RequestsFit'
  BY <1>1, <1>3 DEF RequestsFit
<1>6. LocalsFit'
  <2>1. ASSUME NEW o \in Cpu PROVE LoopFit(o)'
    <3>1. LoopFit(o)
      BY <1>1 DEF LocalsFit
    <3> QED  BY <3>1, <1>3, <1>s, JumpNotEmpty
             DEF LoopFit, InLoop, Live, Idle, Invalidating, Shapes, Jump
  <2>2. ASSUME NEW o \in Cpu PROVE InvalidationFit(o)'
    <3>1. InvalidationFit(o)
      BY <1>1 DEF LocalsFit
    <3> QED  BY <3>1, <1>3, <1>s, JumpNotEmpty
             DEF InvalidationFit, Live, Invalidating, Shapes, Jump
  <2> QED  BY <2>1, <2>2 DEF LocalsFit
<1>7. FoundLive'
  BY <1>1, <1>3 DEF FoundLive, Live
<1>8. JumpsLead'
  BY <1>1, <1>3, <1>s DEF JumpsLead, Live, Shapes
<1>9. JumpsListed'
  BY <1>1, <1>3, <1>s DEF JumpsListed, Shapes
<1>10. PatchHeld'
  <2> SUFFICES ASSUME NEW o \in Cpu
               PROVE  (/\ loc[o] = "patch" =>
                             /\ last_tb[o] # None /\ ~invalid[tb[o]]
                             /\ jmp_dest[last_tb[o]][tb_exit[o]].d = tb[o]
                       /\ loc[o] = "clear" =>
                             /\ ent[o] \in jmp_list[inv[o]]
                             /\ target[ent[o][1]][ent[o][2]] = None)'
    BY DEF PatchHeld
  <2>1. /\ loc[o] = "patch" =>
              /\ last_tb[o] # None /\ ~invalid[tb[o]]
              /\ jmp_dest[last_tb[o]][tb_exit[o]].d = tb[o]
        /\ loc[o] = "clear" =>
              /\ ent[o] \in jmp_list[inv[o]]
              /\ target[ent[o][1]][ent[o][2]] = None
    BY <1>1, Zenon DEF PatchHeld
  <2>2. loc'[o] = "patch" =>
              /\ last_tb'[o] # None /\ ~invalid'[tb'[o]]
              /\ jmp_dest'[last_tb'[o]][tb_exit'[o]].d = tb'[o]
    BY <2>1, <1>3, <1>s DEF Shapes
  <2>3. loc'[o] = "clear" =>
              /\ ent'[o] \in jmp_list'[inv'[o]]
              /\ target'[ent'[o][1]][ent'[o][2]] = None
    <3>1. CASE o = c
      <4>1. ent'[c] = <<s, n>> /\ ent'[c][1] = s /\ ent'[c][2] = n
        BY <1>3
      <4> QED  BY <3>1, <4>1, <1>3
    <3>2. CASE o # c
      <4>1. loc'[o] = "clear" => loc[o] = "clear"
        BY <3>2, <1>3
      <4>2. loc[o] = "clear" => inv[o] # None /\ ent[o] # <<>>
        BY <1>1 DEF LocalsFit, InvalidationFit, Invalidating
      <4>3. loc[o] = "clear" => ent[o][1] \in Slot /\ ent[o][2] \in Exit
        BY <1>s, <4>2, JumpParts DEF Shapes
      <4>4. ent'[o] = ent[o]
        BY <3>2, <1>3
      <4>5. \A q \in Slot, k \in Exit : target[q][k] = None => target'[q][k] = None
        BY <1>3
      <4>6. UNCHANGED <<jmp_list, inv>>
        BY <1>3
      <4> QED  BY <2>1, <4>1, <4>3, <4>4, <4>5, <4>6
    <3> QED  BY <3>1, <3>2
  <2> QED  BY <2>2, <2>3
<1>11. MarkedOnce'
  BY <1>1, <1>3 DEF MarkedOnce
<1>12. RemovalReady'
  <2> SUFFICES ASSUME NEW o \in Cpu, loc'[o] = "remove"
               PROVE  (LET dest == jmp_dest[inv[o]][idx[o]]
                       IN  /\ dest.m
                           /\ \/ /\ dest.d = ptr[o]
                                 /\ \/ <<inv[o], idx[o]>> \in jmp_list[ptr[o]]
                                    \/ \E q \in Cpu :
                                          /\ loc[q] = "patch" /\ tb[q] = ptr[o]
                                          /\ last_tb[q] = inv[o] /\ tb_exit[q] = idx[o]
                              \/ dest.d = None /\ invalid[ptr[o]])'
    BY DEF RemovalReady
  <2>1. o # c /\ loc[o] = "remove"
    BY <1>3
  <2>2. \A q \in Cpu : loc[q] = "patch" => q # c /\ loc'[q] = "patch"
    BY <1>3
  <2>3. /\ jmp_dest[inv[o]][idx[o]].m
        /\ \/ /\ jmp_dest[inv[o]][idx[o]].d = ptr[o]
              /\ \/ <<inv[o], idx[o]>> \in jmp_list[ptr[o]]
                 \/ \E q \in Cpu :
                       /\ loc[q] = "patch" /\ tb[q] = ptr[o]
                       /\ last_tb[q] = inv[o] /\ tb_exit[q] = idx[o]
           \/ jmp_dest[inv[o]][idx[o]].d = None /\ invalid[ptr[o]]
    BY <1>1, <2>1, Zenon DEF RemovalReady
  <2> QED  BY <1>3, <2>1, <2>2, <2>3
<1>13. FlushAlone'
  BY <1>1, <1>3 DEF FlushAlone, InLoop, Invalidating, Flushing
<1>14. Published'
  BY <1>1, <1>3 DEF Published, Flushing, Live
<1>15. RunsItsPc'
  BY <1>1, <1>3 DEF RunsItsPc, Live
<1>16. ListsExact'
  <2>1. \A q \in Cpu : loc[q] \in {"clear", "patch"} => q # c /\ loc'[q] = loc[q]
    BY <1>3
  <2>2. ListedIsClaimed'
    <3> SUFFICES ASSUME NEW u \in Slot, NEW v \in Slot, NEW k \in Exit,
                        (<<v, k>> \in jmp_list[u])'
                 PROVE  (/\ jmp_dest[v][k].d = u
                         /\ \/ target[v][k] = u
                            \/ \E q \in Cpu : loc[q] = "clear" /\ inv[q] = u
                                              /\ ent[q] = <<v, k>>)'
      BY DEF ListedIsClaimed
    <3>1. <<v, k>> \in jmp_list[u]
      BY <1>3
    <3>2. /\ jmp_dest[v][k].d = u
          /\ \/ target[v][k] = u
             \/ \E q \in Cpu : loc[q] = "clear" /\ inv[q] = u /\ ent[q] = <<v, k>>
      BY <1>s, <3>1, Zenon DEF ListedIsClaimed
    <3>3. CASE v = s /\ k = n
      BY <3>2, <3>3, <1>3
    <3>4. CASE v # s \/ k # n
      BY <2>1, <3>2, <3>4, <1>3
    <3> QED  BY <3>3, <3>4
  <2>3. ClaimedIsListed'
    <3> SUFFICES ASSUME NEW v \in Slot, NEW k \in Exit,
                        (jmp_dest[v][k].d # None /\ ~jmp_dest[v][k].m)'
                 PROVE  (\/ <<v, k>> \in jmp_list[jmp_dest[v][k].d]
                         \/ \E q \in Cpu : /\ loc[q] = "patch" /\ tb[q] = jmp_dest[v][k].d
                                           /\ last_tb[q] = v /\ tb_exit[q] = k)'
      BY DEF ClaimedIsListed
    <3>1. \/ <<v, k>> \in jmp_list[jmp_dest[v][k].d]
          \/ \E q \in Cpu : /\ loc[q] = "patch" /\ tb[q] = jmp_dest[v][k].d
                            /\ last_tb[q] = v /\ tb_exit[q] = k
      <4>1. jmp_dest[v][k].d # None /\ ~jmp_dest[v][k].m
        BY <1>3
      <4> QED  BY <1>s, <4>1 DEF ClaimedIsListed
    <3> QED  BY <2>1, <3>1, <1>s, <1>3
  <2> QED  BY <1>4, <2>2, <2>3, ListsSplitNext
<1> QED  BY <1>4, <1>5, <1>6, <1>7, <1>8, <1>9, <1>10, <1>11, <1>12,
             <1>13, <1>14, <1>15, <1>16 DEF IInv

(* Its destination is cleared; the vCPU that marked it, if any, then finds  *)
(* that its ptr was invalidated.                                           *)
LEMMA ClearStep ==
    ASSUME IInv, NEW c \in Cpu, UnlinkClear(c)
    PROVE  IInv'
<1> USE TbCacheAssumption
<1>1. TypeOK /\ RequestsFit /\ LocalsFit /\ FoundLive /\ JumpsLead
      /\ JumpsListed /\ PatchHeld /\ MarkedOnce /\ RemovalReady /\ FlushAlone
      /\ Published /\ RunsItsPc /\ ListsExact
  BY DEF IInv
<1>s. Shapes /\ ListedIsClaimed /\ ClaimedIsListed
  BY <1>1, ShapesHold, ListsSplit
<1>t. jmp_dest \in [Slot -> [Exit -> [d : Slot \cup {None}, m : BOOLEAN]]]
  BY <1>1 DEF TypeOK
<1>0. PICK t \in Slot : t = inv[c] /\ t # None
  BY <1>1 DEF UnlinkClear, TypeOK, LocalsFit, InvalidationFit, Invalidating
<1>d. None \in Slot \cup {None}
  OBVIOUS
<1>e. PICK s \in Slot, n \in Exit : ent[c] = <<s, n>> /\ <<s, n>> \in jmp_list[t]
  <2>1. ent[c] \in jmp_list[t]
    BY <1>0, <1>1 DEF PatchHeld, UnlinkClear
  <2>2. ent[c] \in Jump
    BY <1>s, <2>1 DEF Shapes
  <2> QED  BY <2>1, <2>2, JumpParts
<1>2. /\ loc[c] = "clear" /\ loc' = [loc EXCEPT ![c] = "reset"]
      /\ jmp_dest' = [jmp_dest EXCEPT ![s][n].d = None]
      /\ jmp_list' = [jmp_list EXCEPT ![t] = jmp_list[t] \ {<<s, n>>}]
      /\ ent' = [ent EXCEPT ![c] = <<>>]
      /\ UNCHANGED <<user, alloc, tbpc, invalid, target, htable, jmp_cache,
                     tb_flush_count, work_list, work, pc, tb, last_tb,
                     tb_exit, inv, idx, ptr>>
  BY <1>0, <1>e DEF UnlinkClear, Goto, flush, run
<1>3. /\ loc[c] = "clear" /\ loc'[c] = "reset"
      /\ \A o \in Cpu \ {c} : loc'[o] = loc[o]
      /\ inv[c] = t /\ t # None
      /\ \A o \in Cpu \ {c} : inv[o] # t
      /\ ent[c] = <<s, n>> /\ <<s, n>> \in jmp_list[t]
      /\ ent'[c] = <<>>
      /\ \A o \in Cpu \ {c} : ent'[o] = ent[o]
      /\ jmp_dest'[s][n].d = None
      /\ \A q \in Slot, k \in Exit : jmp_dest'[q][k].m = jmp_dest[q][k].m
      /\ \A q \in Slot, k \in Exit :
        (q # s \/ k # n) => jmp_dest'[q][k].d = jmp_dest[q][k].d
      /\ jmp_dest[s][n].d = t
      /\ target[s][n] = None
      /\ \A u \in Slot : jmp_list'[u] \subseteq jmp_list[u]
      /\ \A u \in Slot : u # t => jmp_list'[u] = jmp_list[u]
      /\ <<s, n>> \notin jmp_list'[t]
      /\ \A u \in Slot, v \in Slot, k \in Exit :
        <<v, k>> \in jmp_list[u] /\ (v # s \/ k # n) => <<v, k>> \in jmp_list'[u]
      /\ invalid[t]
      /\ \A o \in Cpu : loc[o] = "patch" => tb[o] # t
      /\ idx[c] = 0
      /\ \A o \in Cpu : loc[o] = "patch" => last_tb[o] # None /\ tb[o] # None
      /\ \A o \in Cpu : loc[o] = "remove" => inv[o] # None /\ ptr[o] # None
      /\ UNCHANGED <<user, alloc, tbpc, invalid, target, htable, jmp_cache,
                     tb_flush_count, work_list, work, pc, tb, last_tb,
                     tb_exit, inv, idx, ptr>>
  <2>1. loc[c] = "clear" /\ loc'[c] = "reset"
    BY <1>1, <1>2 DEF TypeOK
  <2>2. \A o \in Cpu \ {c} : loc'[o] = loc[o]
    BY <1>1, <1>2 DEF TypeOK
  <2>3. inv[c] = t /\ t # None
    BY <1>0
  <2>4. \A o \in Cpu \ {c} : inv[o] # t
    BY <1>0, <1>1 DEF LocalsFit, InvalidationFit
  <2>5. ent[c] = <<s, n>> /\ <<s, n>> \in jmp_list[t]
    BY <1>e
  <2>6. ent'[c] = <<>>
    BY <1>1, <1>2 DEF TypeOK
  <2>7. \A o \in Cpu \ {c} : ent'[o] = ent[o]
    BY <1>1, <1>2 DEF TypeOK
  <2>8. jmp_dest'[s][n].d = None
    BY <1>t, <1>2, DestSet
  <2>9. \A q \in Slot, k \in Exit : jmp_dest'[q][k].m = jmp_dest[q][k].m
    BY <1>t, <1>2, DestSet
  <2>10. \A q \in Slot, k \in Exit :
          (q # s \/ k # n) => jmp_dest'[q][k].d = jmp_dest[q][k].d
    BY <1>t, <1>2, DestSet
  <2>11. jmp_dest[s][n].d = t
    BY <1>e, <1>s DEF ListedIsClaimed
  <2>12. target[s][n] = None
    BY <1>e, <1>1, <1>2 DEF PatchHeld
  <2>13. \A u \in Slot : jmp_list'[u] \subseteq jmp_list[u]
    BY <1>1, <1>2 DEF TypeOK
  <2>14. \A u \in Slot : u # t => jmp_list'[u] = jmp_list[u]
    BY <1>1, <1>2 DEF TypeOK
  <2>15. <<s, n>> \notin jmp_list'[t]
    BY <1>1, <1>2 DEF TypeOK
  <2>16. \A u \in Slot, v \in Slot, k \in Exit :
          <<v, k>> \in jmp_list[u] /\ (v # s \/ k # n) => <<v, k>> \in jmp_list'[u]
    BY <1>1, <1>2 DEF TypeOK
  <2>17. invalid[t]
    BY <1>0, <1>1 DEF LocalsFit, InvalidationFit
  <2>18. \A o \in Cpu : loc[o] = "patch" => tb[o] # t
    BY <1>0, <1>1 DEF PatchHeld, LocalsFit, InvalidationFit
  <2>19. idx[c] = 0
    BY <1>1, <1>2 DEF LocalsFit, InvalidationFit
  <2>20. \A o \in Cpu : loc[o] = "patch" => last_tb[o] # None /\ tb[o] # None
    BY <1>1 DEF RunsItsPc, PatchHeld
  <2>21. \A o \in Cpu : loc[o] = "remove" => inv[o] # None /\ ptr[o] # None
    BY <1>1 DEF LocalsFit, InvalidationFit, Invalidating
  <2>22. UNCHANGED <<user, alloc, tbpc, invalid, target, htable, jmp_cache,
                       tb_flush_count, work_list, work, pc, tb, last_tb,
                       tb_exit, inv, idx, ptr>>
    BY <1>2
  <2> QED  BY <2>1, <2>2, <2>3, <2>4, <2>5, <2>6, <2>7, <2>8, <2>9, <2>10,
              <2>11, <2>12, <2>13, <2>14, <2>15, <2>16, <2>17, <2>18, <2>19,
              <2>20, <2>21, <2>22
<1>4. TypeOK'
  <2>1. loc' \in [Cpu -> Loc]
    BY <1>1, <1>2 DEF TypeOK, Loc, Invalidating
  <2>2. jmp_dest' \in [Slot -> [Exit -> [d : Slot \cup {None}, m : BOOLEAN]]]
    BY <1>t, <1>2, <1>d, DestTypes, Zenon
  <2>3. jmp_list' \in [Slot -> SUBSET Jump]
    BY <1>1, <1>2 DEF TypeOK
  <2>4. ent' \in [Cpu -> Jump \cup {<<>>}]
    BY <1>1, <1>2 DEF TypeOK
  <2> QED  BY <1>1, <1>2, <2>1, <2>2, <2>3, <2>4 DEF TypeOK
<1>5. RequestsFit'
  BY <1>1, <1>3 DEF RequestsFit
<1>6. LocalsFit'
  <2>1. ASSUME NEW o \in Cpu PROVE LoopFit(o)'
    <3>1. LoopFit(o)
      BY <1>1 DEF LocalsFit
    <3> QED  BY <3>1, <1>3, <1>s
             DEF LoopFit, InLoop, Live, Idle, Invalidating, Shapes
  <2>2. ASSUME NEW o \in Cpu PROVE InvalidationFit(o)'
    <3>1. InvalidationFit(o)
      BY <1>1 DEF LocalsFit
    <3> QED  BY <3>1, <1>3, <1>s
             DEF InvalidationFit, Live, Invalidating, Shapes
  <2> QED  BY <2>1, <2>2 DEF LocalsFit
<1>7. FoundLive'
  BY <1>1, <1>3 DEF FoundLive, Live
<1>8. JumpsLead'
  BY <1>1, <1>3, <1>s DEF JumpsLead, Live, Shapes
<1>9. JumpsListed'
  <2> SUFFICES ASSUME NEW v \in Slot, NEW k \in Exit,
                      (target[v][k] # None /\ ~invalid[v])'
               PROVE  (<<v, k>> \in jmp_list[target[v][k]])'
    BY DEF JumpsListed
  <2>1. UNCHANGED <<target, invalid>> /\ (v # s \/ k # n)
    BY <1>3
  <2>2. target[v][k] \in Slot
    BY <1>s, <2>1 DEF Shapes
  <2>3. <<v, k>> \in jmp_list[target[v][k]]
    BY <1>1, <2>1 DEF JumpsListed
  <2> QED  BY <2>1, <2>2, <2>3, <1>3
<1>10. PatchHeld'
  <2> SUFFICES ASSUME NEW o \in Cpu
               PROVE  (/\ loc[o] = "patch" =>
                             /\ last_tb[o] # None /\ ~invalid[tb[o]]
                             /\ jmp_dest[last_tb[o]][tb_exit[o]].d = tb[o]
                       /\ loc[o] = "clear" =>
                             /\ ent[o] \in jmp_list[inv[o]]
                             /\ target[ent[o][1]][ent[o][2]] = None)'
    BY DEF PatchHeld
  <2>1. /\ loc[o] = "patch" =>
              /\ last_tb[o] # None /\ ~invalid[tb[o]]
              /\ jmp_dest[last_tb[o]][tb_exit[o]].d = tb[o]
        /\ loc[o] = "clear" =>
              /\ ent[o] \in jmp_list[inv[o]]
              /\ target[ent[o][1]][ent[o][2]] = None
    BY <1>1, Zenon DEF PatchHeld
  <2>2. loc'[o] = "patch" =>
              /\ last_tb'[o] # None /\ ~invalid'[tb'[o]]
              /\ jmp_dest'[last_tb'[o]][tb_exit'[o]].d = tb'[o]
    <3>1. SUFFICES ASSUME loc'[o] = "patch"
                   PROVE  /\ last_tb'[o] # None /\ ~invalid'[tb'[o]]
                          /\ jmp_dest'[last_tb'[o]][tb_exit'[o]].d = tb'[o]
      OBVIOUS
    <3>2. /\ loc[o] = "patch" /\ tb'[o] = tb[o]
          /\ last_tb'[o] = last_tb[o] /\ tb_exit'[o] = tb_exit[o]
      BY <3>1, <1>3
    <3>3. last_tb[o] \in Slot /\ tb_exit[o] \in Exit /\ tb[o] # None
      BY <1>s, <1>3, <3>2 DEF Shapes
    <3>4. jmp_dest'[last_tb[o]][tb_exit[o]].d = jmp_dest[last_tb[o]][tb_exit[o]].d
      BY <2>1, <3>2, <3>3, <1>3
    <3>5. ~invalid'[tb[o]]
      BY <2>1, <3>2, <1>3
    <3> QED  BY <2>1, <3>2, <3>4, <3>5
  <2>3. loc'[o] = "clear" =>
              /\ ent'[o] \in jmp_list'[inv'[o]]
              /\ target'[ent'[o][1]][ent'[o][2]] = None
    <3>1. loc'[o] = "clear" => loc[o] = "clear"
      BY <1>3
    <3>2. loc[o] = "clear" => inv[o] # None /\ ent[o] # <<>>
      BY <1>1 DEF LocalsFit, InvalidationFit, Invalidating
    <3>3. loc[o] = "clear" =>
              inv[o] \in Slot /\ ent[o][1] \in Slot /\ ent[o][2] \in Exit
      BY <1>s, <3>2, JumpParts DEF Shapes
    <3>4. loc'[o] = "clear" => o # c /\ inv[o] # t
      BY <1>3
    <3> QED  BY <2>1, <1>3, <3>1, <3>3, <3>4
  <2> QED  BY <2>2, <2>3
<1>11. MarkedOnce'
  <2>1. (\A t_1 \in htable, k \in Exit : ~jmp_dest[t_1][k].m)'
    BY <1>1, <1>3, <1>s DEF MarkedOnce, Shapes
  <2>2. ASSUME NEW o \in Cpu, NEW k \in Exit,
               (\/ loc[o] \in {"uncache", "detach"} /\ k >= idx[o]
                \/ loc[o] = "remove" /\ k > idx[o])'
        PROVE  ~jmp_dest'[inv'[o]][k].m
    <3>1. inv[o] # None => ~jmp_dest[inv[o]][k].m
      BY <2>2, <1>1, <1>3, <1>s DEF MarkedOnce, Shapes
    <3>2. inv[o] # None
      BY <2>2, <1>1, <1>3 DEF LocalsFit, InvalidationFit, Invalidating
    <3> QED  BY <3>1, <3>2, <2>2, <1>1, <1>3, <1>s DEF MarkedOnce, Shapes
  <2> QED  BY <2>1, <2>2 DEF MarkedOnce
<1>12. RemovalReady'
  <2> SUFFICES ASSUME NEW o \in Cpu, loc'[o] = "remove"
               PROVE  (LET dest == jmp_dest[inv[o]][idx[o]]
                       IN  /\ dest.m
                           /\ \/ /\ dest.d = ptr[o]
                                 /\ \/ <<inv[o], idx[o]>> \in jmp_list[ptr[o]]
                                    \/ \E q \in Cpu :
                                          /\ loc[q] = "patch" /\ tb[q] = ptr[o]
                                          /\ last_tb[q] = inv[o] /\ tb_exit[q] = idx[o]
                              \/ dest.d = None /\ invalid[ptr[o]])'
    BY DEF RemovalReady
  <2>1. \A q \in Cpu : loc[q] = "patch" => q # c /\ loc'[q] = "patch"
    BY <1>3
  <2>2. o # c /\ loc[o] = "remove"
    BY <1>3
  <2>3. /\ jmp_dest[inv[o]][idx[o]].m
        /\ \/ /\ jmp_dest[inv[o]][idx[o]].d = ptr[o]
              /\ \/ <<inv[o], idx[o]>> \in jmp_list[ptr[o]]
                 \/ \E q \in Cpu :
                       /\ loc[q] = "patch" /\ tb[q] = ptr[o]
                       /\ last_tb[q] = inv[o] /\ tb_exit[q] = idx[o]
           \/ jmp_dest[inv[o]][idx[o]].d = None /\ invalid[ptr[o]]
    BY <1>1, <2>2, Zenon DEF RemovalReady
  <2>4. inv[o] \in Slot /\ idx[o] \in Exit /\ ptr[o] \in Slot
    BY <2>2, <1>s, <1>3 DEF Shapes
  <2>5. UNCHANGED <<inv, idx, ptr, invalid, tb, last_tb, tb_exit>>
    BY <1>3
  <2>6. jmp_dest'[inv[o]][idx[o]].m
    BY <2>3, <2>4, <1>3
  <2>7. CASE inv[o] = s /\ idx[o] = n
    <3>1. jmp_dest'[inv[o]][idx[o]].d = None /\ jmp_dest[inv[o]][idx[o]].d = t /\ t # None
      BY <2>7, <1>3
    <3>2. ptr[o] = t
      BY <2>3, <3>1
    <3>3. invalid[ptr[o]]
      BY <3>2, <1>3
    <3> QED  BY <2>5, <2>6, <3>1, <3>3
  <2>8. CASE inv[o] # s \/ idx[o] # n
    <3>1. jmp_dest'[inv[o]][idx[o]].d = jmp_dest[inv[o]][idx[o]].d
      BY <2>4, <2>8, <1>3
    <3>2. <<inv[o], idx[o]>> \in jmp_list[ptr[o]] => <<inv[o], idx[o]>> \in jmp_list'[ptr[o]]
      BY <2>4, <2>8, <1>3
    <3> QED  BY <2>1, <2>3, <2>5, <2>6, <3>1, <3>2
  <2> QED  BY <2>7, <2>8
<1>13. FlushAlone'
  BY <1>1, <1>3 DEF FlushAlone, InLoop, Invalidating, Flushing
<1>14. Published'
  BY <1>1, <1>3 DEF Published, Flushing, Live
<1>15. RunsItsPc'
  BY <1>1, <1>3 DEF RunsItsPc, Live
<1>16. ListsExact'
  <2>1. \A q \in Cpu : loc[q] = "patch" => q # c /\ loc'[q] = loc[q]
    BY <1>3
  <2>2. ListedIsClaimed'
    <3> SUFFICES ASSUME NEW u \in Slot, NEW v \in Slot, NEW k \in Exit,
                        (<<v, k>> \in jmp_list[u])'
                 PROVE  (/\ jmp_dest[v][k].d = u
                         /\ \/ target[v][k] = u
                            \/ \E q \in Cpu : loc[q] = "clear" /\ inv[q] = u
                                              /\ ent[q] = <<v, k>>)'
      BY DEF ListedIsClaimed
    <3>1. <<v, k>> \in jmp_list[u]
      BY <1>3
    <3>2. /\ jmp_dest[v][k].d = u
          /\ \/ target[v][k] = u
             \/ \E q \in Cpu : loc[q] = "clear" /\ inv[q] = u /\ ent[q] = <<v, k>>
      BY <1>s, <3>1, Zenon DEF ListedIsClaimed
    <3>3. v # s \/ k # n
      BY <3>2, <1>3
    <3>4. jmp_dest'[v][k].d = u
      BY <3>2, <3>3, <1>3
    <3>5. ASSUME NEW q \in Cpu, loc[q] = "clear", inv[q] = u, ent[q] = <<v, k>>
          PROVE  loc'[q] = "clear" /\ inv'[q] = u /\ ent'[q] = <<v, k>>
      <4>1. q # c
        BY <3>3, <3>5, <1>3
      <4> QED  BY <3>5, <4>1, <1>3
    <3> QED  BY <3>2, <3>4, <3>5, <1>3
  <2>3. ClaimedIsListed'
    <3> SUFFICES ASSUME NEW v \in Slot, NEW k \in Exit,
                        (jmp_dest[v][k].d # None /\ ~jmp_dest[v][k].m)'
                 PROVE  (\/ <<v, k>> \in jmp_list[jmp_dest[v][k].d]
                         \/ \E q \in Cpu : /\ loc[q] = "patch" /\ tb[q] = jmp_dest[v][k].d
                                           /\ last_tb[q] = v /\ tb_exit[q] = k)'
      BY DEF ClaimedIsListed
    <3>1. v # s \/ k # n
      BY <1>3
    <3>2. \/ <<v, k>> \in jmp_list[jmp_dest[v][k].d]
          \/ \E q \in Cpu : /\ loc[q] = "patch" /\ tb[q] = jmp_dest[v][k].d
                            /\ last_tb[q] = v /\ tb_exit[q] = k
      <4>1. jmp_dest[v][k].d # None /\ ~jmp_dest[v][k].m
        BY <3>1, <1>3
      <4> QED  BY <1>s, <4>1 DEF ClaimedIsListed
    <3>3. jmp_dest'[v][k].d = jmp_dest[v][k].d /\ jmp_dest[v][k].d \in Slot
      BY <3>1, <1>s, <1>3 DEF Shapes
    <3>4. <<v, k>> \in jmp_list[jmp_dest[v][k].d] => <<v, k>> \in jmp_list'[jmp_dest[v][k].d]
      BY <3>1, <3>3, <1>3
    <3>5. UNCHANGED <<tb, last_tb, tb_exit>>
      BY <1>3
    <3> QED  BY <2>1, <3>2, <3>3, <3>4, <3>5
  <2> QED  BY <1>4, <2>2, <2>3, ListsSplitNext
<1> QED  BY <1>4, <1>5, <1>6, <1>7, <1>8, <1>9, <1>10, <1>11, <1>12,
             <1>13, <1>14, <1>15, <1>16 DEF IInv

(* do_tb_flush finds its count, or another one.                            *)
Unfinds(c) ==
    /\ loc[c] = "safe" /\ Exclusive(c)
    /\ user => \A p \in Pc : ~MemLocked(p)
    /\ work' = [work EXCEPT ![c] = 0]
    /\ jmp_cache' = [o \in Cpu |-> [p \in Pc |-> None]]
    /\ htable' = {}
    /\ Goto(c, "flush")
    /\ UNCHANGED <<user, block, tb_flush_count, work_list, run, invloc>>

Declines(c) ==
    /\ loc[c] = "safe"
    /\ work' = [work EXCEPT ![c] = 0]
    /\ Goto(c, "work")
    /\ UNCHANGED <<user, block, htable, jmp_cache, tb_flush_count, work_list, run,
                   invloc>>

(* A flush that another has overtaken.                                     *)
LEMMA DeclineStep ==
    ASSUME IInv, NEW c \in Cpu, Declines(c)
    PROVE  IInv'
<1> USE TbCacheAssumption
<1>1. TypeOK /\ LoopFit(c) /\ RequestsFit /\ FlushAlone /\ 0 \in Exit
  BY DEF IInv, LocalsFit, Exit
<1>2. /\ loc[c] = "safe" /\ loc'[c] = "work"
      /\ loc' = [loc EXCEPT ![c] = loc'[c]]
      /\ work' = [work EXCEPT ![c] = 0]
      /\ UNCHANGED <<pc, tb, last_tb, tb_exit>>
      /\ UNCHANGED <<tb_flush_count, work_list>>
      /\ UNCHANGED <<user, block, htable, jmp_cache, invloc>>
  BY <1>1 DEF TypeOK, Declines, Goto, run
<1>3. RequestsFit'
  BY <1>1, <1>2 DEF TypeOK, RequestsFit
<1>4. loc[c] \in Quiet \cup {"trans"} /\ loc'[c] \in Quiet
  BY <1>2 DEF Quiet
<1>5. TypeOK'
  <2>1. loc' \in [Cpu -> Loc]
    BY <1>1, <1>2 DEF TypeOK, Loc
  <2>2. work' \in [Cpu -> 0 .. CountMod - 1]
    BY <1>1, <1>2 DEF TypeOK
  <2>3. /\ tb_flush_count' \in 0 .. CountMod - 1
        /\ pc' \in [Cpu -> Pc \cup {None}] /\ tb' \in [Cpu -> Slot \cup {None}]
        /\ last_tb' \in [Cpu -> Slot \cup {None}] /\ tb_exit' \in [Cpu -> Exit]
    BY <1>1, <1>2 DEF TypeOK
  <2> QED  BY <1>1, <1>2, <1>3, <2>1, <2>2, <2>3, LoopTypes
<1>6. OthersKeep(c)
  BY <1>1, <1>2 DEF TypeOK, OthersKeep
<1>7. LoopFit(c)'
  BY <1>1, <1>2, <1>5 DEF TypeOK, LoopFit, InLoop, Idle, Live, Invalidating, block
<1>8. loc'[c] \in {"cache", "chain", "exec"} =>
        tb'[c] # None /\ Live(tb'[c]) /\ tbpc[tb'[c]] = pc'[c]
  BY <1>2
<1>9. loc'[c] \notin Idle => ~Flushing
  BY <1>2 DEF Idle
<1> QED  BY <1>2, <1>3, <1>4, <1>5, <1>6, <1>7, <1>8, <1>9, LoopStep

(* A flush starts: no other vCPU is in the loop, and in user mode none     *)
(* invalidates.                                                            *)
LEMMA UnfindStep ==
    ASSUME IInv, NEW c \in Cpu, Unfinds(c)
    PROVE  IInv'
<1> USE TbCacheAssumption
<1>1. TypeOK /\ RequestsFit /\ LocalsFit /\ FoundLive /\ JumpsLead
      /\ JumpsListed /\ PatchHeld /\ MarkedOnce /\ RemovalReady /\ FlushAlone
      /\ Published /\ RunsItsPc /\ ListsExact
  BY DEF IInv
<1>s. Shapes /\ ListedIsClaimed /\ ClaimedIsListed
  BY <1>1, ShapesHold, ListsSplit
<1>2. /\ loc[c] = "safe" /\ loc' = [loc EXCEPT ![c] = "flush"] /\ Exclusive(c)
      /\ user => \A p \in Pc : ~MemLocked(p)
      /\ work' = [work EXCEPT ![c] = 0]
      /\ jmp_cache' = [o \in Cpu |-> [p \in Pc |-> None]] /\ htable' = {}
      /\ UNCHANGED <<user, alloc, tbpc, invalid, jmp_dest, jmp_list, target,
                     tb_flush_count, work_list, pc, tb, last_tb, tb_exit,
                     inv, idx, ptr, ent>>
  BY DEF Unfinds, Goto, block, run, invloc
<1>3. /\ loc[c] = "safe" /\ loc'[c] = "flush"
      /\ \A o \in Cpu \ {c} : loc'[o] = loc[o]
      /\ htable' = {} /\ \A o \in Cpu, p \in Pc : jmp_cache'[o][p] = None
      /\ \A o \in Cpu \ {c} : loc[o] # "flush" /\ ~InLoop(o)
      /\ user => \A o \in Cpu : loc[o] \notin Invalidating
      /\ UNCHANGED <<user, alloc, tbpc, invalid, jmp_dest, jmp_list, target,
                     tb_flush_count, work_list, pc, tb, last_tb, tb_exit,
                     inv, idx, ptr, ent>>
  <2>1. loc[c] = "safe" /\ loc'[c] = "flush"
    BY <1>1, <1>2 DEF TypeOK
  <2>2. \A o \in Cpu \ {c} : loc'[o] = loc[o]
    BY <1>1, <1>2 DEF TypeOK
  <2>3. htable' = {} /\ \A o \in Cpu, p \in Pc : jmp_cache'[o][p] = None
    BY <1>2
  <2>4. \A o \in Cpu \ {c} : loc[o] # "flush" /\ ~InLoop(o)
    BY <1>2 DEF Exclusive, InLoop, Invalidating
  <2>5. user => \A o \in Cpu : loc[o] \notin Invalidating
    <3> SUFFICES ASSUME user, NEW o \in Cpu, loc[o] \in Invalidating PROVE FALSE
      OBVIOUS
    <3>1. inv[o] \in Slot /\ Live(inv[o])
      BY <1>1, <1>s DEF LocalsFit, InvalidationFit, Shapes
    <3>2. tbpc[inv[o]] \in Pc
      BY <1>1, <3>1 DEF TypeOK, Live
    <3> QED  BY <1>2, <3>2 DEF MemLocked
  <2>6. UNCHANGED <<user, alloc, tbpc, invalid, jmp_dest, jmp_list, target,
                       tb_flush_count, work_list, pc, tb, last_tb, tb_exit,
                       inv, idx, ptr, ent>>
    BY <1>2
  <2> QED  BY <2>1, <2>2, <2>3, <2>4, <2>5, <2>6
<1>4. TypeOK'
  <2>1. loc' \in [Cpu -> Loc]
    BY <1>1, <1>2 DEF TypeOK, Loc, Invalidating
  <2>2. work' \in [Cpu -> 0 .. CountMod - 1]
    BY <1>1, <1>2 DEF TypeOK
  <2>3. jmp_cache' \in [Cpu -> [Pc -> Slot \cup {None}]]
    BY <1>1, <1>2 DEF TypeOK
  <2>4. htable' \subseteq Slot
    BY <1>1, <1>2 DEF TypeOK
  <2> QED  BY <1>1, <1>2, <2>1, <2>2, <2>3, <2>4 DEF TypeOK
<1>5. RequestsFit'
  BY <1>1, <1>3 DEF RequestsFit
<1>6. LocalsFit'
  <2>1. ASSUME NEW o \in Cpu PROVE LoopFit(o)'
    <3>1. LoopFit(o)
      BY <1>1 DEF LocalsFit
    <3> QED  BY <3>1, <1>3, <1>s
             DEF LoopFit, InLoop, Live, Idle, Invalidating, Shapes
  <2>2. ASSUME NEW o \in Cpu PROVE InvalidationFit(o)'
    <3>1. InvalidationFit(o)
      BY <1>1 DEF LocalsFit
    <3> QED  BY <3>1, <1>3, <1>s
             DEF InvalidationFit, Live, Invalidating, Shapes
  <2> QED  BY <2>1, <2>2 DEF LocalsFit
<1>7. FoundLive'
  BY <1>1, <1>3 DEF FoundLive, Live
<1>8. JumpsLead'
  BY <1>1, <1>3 DEF JumpsLead, Live
<1>9. JumpsListed'
  BY <1>1, <1>3 DEF JumpsListed
<1>10. PatchHeld'
  BY <1>1, <1>3 DEF PatchHeld
<1>11. MarkedOnce'
  BY <1>1, <1>3 DEF MarkedOnce
<1>12. RemovalReady'
  BY <1>1, <1>3, RemovalKept
<1>13. FlushAlone'
  <2>1. \A o \in Cpu \ {c} : InLoop(o)' <=> InLoop(o)
    BY <1>3 DEF InLoop
  <2> QED  BY <1>3, <2>1 DEF FlushAlone
<1>14. Published'
  BY <1>1, <1>3 DEF Published, Flushing, Live
<1>15. RunsItsPc'
  BY <1>1, <1>3 DEF RunsItsPc, Live
<1>16. ListsExact'
  <2>1. ListedIsClaimed' /\ ClaimedIsListed'
    BY <1>s, <1>3, ListsKept
  <2> QED  BY <1>4, <2>1, ListsSplitNext
<1> QED  BY <1>4, <1>5, <1>6, <1>7, <1>8, <1>9, <1>10, <1>11, <1>12,
             <1>13, <1>14, <1>15, <1>16 DEF IInv

(* do_tb_flush goes on only if the count is still the one of its request.  *)
LEMMA FlushStartStep ==
    ASSUME IInv, NEW c \in Cpu, FlushStart(c)
    PROVE  IInv'
<1>1. CASE work[c] # tb_flush_count
  <2>1. Declines(c)
    BY <1>1 DEF FlushStart, Declines
  <2> QED  BY <2>1, DeclineStep
<1>2. CASE work[c] = tb_flush_count
  <2>1. Unfinds(c)
    BY <1>2 DEF FlushStart, Unfinds
  <2> QED  BY <2>1, UnfindStep
<1> QED  BY <1>1, <1>2

(* The buffer is emptied while nobody is in the loop or in the middle of   *)
(* an invalidation.                                                        *)
LEMMA FlushResetStep ==
    ASSUME IInv, NEW c \in Cpu, FlushReset(c)
    PROVE  IInv'
<1> USE TbCacheAssumption
<1>1. TypeOK /\ RequestsFit /\ LocalsFit /\ FoundLive /\ JumpsLead
      /\ JumpsListed /\ PatchHeld /\ MarkedOnce /\ RemovalReady /\ FlushAlone
      /\ Published /\ RunsItsPc /\ ListsExact
  BY DEF IInv
<1>s. Shapes /\ ListedIsClaimed /\ ClaimedIsListed
  BY <1>1, ShapesHold, ListsSplit
<1>t. jmp_dest \in [Slot -> [Exit -> [d : Slot \cup {None}, m : BOOLEAN]]]
  BY <1>1 DEF TypeOK
<1>2. /\ loc[c] = "flush" /\ loc' = [loc EXCEPT ![c] = "work"]
      /\ user \/ \A p \in Pc : ~MemLocked(p)
      /\ alloc' = {} /\ tbpc' = [t \in Slot |-> None] /\ invalid' = [t \in Slot |-> FALSE]
      /\ jmp_dest' = [t \in Slot |-> [n \in Exit |-> Unset]] /\ jmp_list' = [t \in Slot |-> {}]
      /\ target' = [t \in Slot |-> [n \in Exit |-> None]]
      /\ tb_flush_count' = (tb_flush_count + 1) % CountMod
      /\ UNCHANGED <<user, htable, jmp_cache, work_list, work, pc, tb,
                     last_tb, tb_exit, inv, idx, ptr, ent>>
  BY DEF FlushReset, Goto, run, invloc
<1>3. /\ loc[c] = "flush" /\ loc'[c] = "work"
      /\ \A o \in Cpu \ {c} : loc'[o] = loc[o]
      /\ htable = {} /\ \A o \in Cpu, p \in Pc : jmp_cache[o][p] = None
      /\ \A o \in Cpu : ~InLoop(o)
      /\ \A o \in Cpu \ {c} : loc[o] # "flush"
      /\ \A o \in Cpu : loc[o] \notin Invalidating
      /\ \A o \in Cpu : /\ inv[o] = None /\ ptr[o] = None /\ ent[o] = <<>>
                      /\ idx[o] = 0
      /\ \A o \in Cpu : loc'[o] \in {"out", "work", "safe"}
      /\ \A o \in Cpu : tb[o] = None /\ last_tb[o] = None
      /\ \A t \in Slot : tbpc'[t] = None /\ jmp_list'[t] = {}
      /\ \A t \in Slot, n \in Exit : jmp_dest'[t][n].d = None /\ target'[t][n] = None
      /\ UNCHANGED <<user, htable, jmp_cache, work_list, work, pc, tb,
                     last_tb, tb_exit, inv, idx, ptr, ent>>
  <2>1. loc[c] = "flush" /\ loc'[c] = "work"
    BY <1>1, <1>2 DEF TypeOK
  <2>2. \A o \in Cpu \ {c} : loc'[o] = loc[o]
    BY <1>1, <1>2 DEF TypeOK
  <2>3. htable = {} /\ \A o \in Cpu, p \in Pc : jmp_cache[o][p] = None
    BY <1>1, <1>2 DEF FlushAlone
  <2>4. \A o \in Cpu : ~InLoop(o)
    BY <1>1, <1>2 DEF FlushAlone, InLoop, Invalidating
  <2>5. \A o \in Cpu \ {c} : loc[o] # "flush"
    BY <1>1, <1>2 DEF FlushAlone
  <2>6. \A o \in Cpu : loc[o] \notin Invalidating
    <3> SUFFICES ASSUME NEW o \in Cpu, loc[o] \in Invalidating PROVE FALSE
      OBVIOUS
    <3>1. inv[o] \in Slot /\ Live(inv[o])
      BY <1>1, <1>s DEF LocalsFit, InvalidationFit, Shapes
    <3>2. tbpc[inv[o]] \in Pc
      BY <1>1, <3>1 DEF TypeOK, Live
    <3>3. o # c
      BY <1>2 DEF Invalidating
    <3>4. ~user
      BY <1>1, <1>2, <3>3 DEF FlushAlone
    <3> QED  BY <1>2, <3>2, <3>4 DEF MemLocked
  <2>7. \A o \in Cpu : /\ inv[o] = None /\ ptr[o] = None /\ ent[o] = <<>>
                        /\ idx[o] = 0
    BY <2>6, <1>1 DEF LocalsFit, InvalidationFit, Invalidating
  <2>8. \A o \in Cpu : loc'[o] \in {"out", "work", "safe"}
    <3> SUFFICES ASSUME NEW o \in Cpu PROVE loc'[o] \in {"out", "work", "safe"}
      OBVIOUS
    <3>1. loc[o] \in Loc
      BY <1>1 DEF TypeOK
    <3> QED  BY <2>1, <2>2, <2>4, <2>5, <2>6, <3>1 DEF Loc, InLoop
  <2>9. \A o \in Cpu : tb[o] = None /\ last_tb[o] = None
    <3> SUFFICES ASSUME NEW o \in Cpu PROVE tb[o] = None /\ last_tb[o] = None
      OBVIOUS
    <3>1. loc[o] \in Idle
      BY <2>1, <2>2, <2>8 DEF Idle
    <3> QED  BY <3>1, <1>1 DEF LocalsFit, LoopFit, Idle
  <2>10. \A t \in Slot : tbpc'[t] = None /\ jmp_list'[t] = {}
    BY <1>2
  <2>11. \A t \in Slot, n \in Exit : jmp_dest'[t][n].d = None /\ target'[t][n] = None
    BY <1>2 DEF Unset
  <2>12. UNCHANGED <<user, htable, jmp_cache, work_list, work, pc, tb,
                       last_tb, tb_exit, inv, idx, ptr, ent>>
    BY <1>2
  <2> QED  BY <2>1, <2>2, <2>3, <2>4, <2>5, <2>6, <2>7, <2>8, <2>9, <2>10,
              <2>11, <2>12
<1>4. TypeOK'
  <2>1. loc' \in [Cpu -> Loc]
    BY <1>1, <1>2 DEF TypeOK, Loc, Invalidating
  <2>2. alloc' \subseteq Slot
    BY <1>1, <1>2 DEF TypeOK
  <2>3. tbpc' \in [Slot -> Pc \cup {None}]
    BY <1>1, <1>2 DEF TypeOK
  <2>4. invalid' \in [Slot -> BOOLEAN]
    BY <1>1, <1>2 DEF TypeOK
  <2>5. jmp_dest' \in [Slot -> [Exit -> [d : Slot \cup {None}, m : BOOLEAN]]]
    BY <1>1, <1>2 DEF TypeOK, Unset
  <2>6. jmp_list' \in [Slot -> SUBSET Jump]
    BY <1>1, <1>2 DEF TypeOK
  <2>7. target' \in [Slot -> [Exit -> Slot \cup {None}]]
    BY <1>1, <1>2 DEF TypeOK
  <2>8. tb_flush_count' \in 0 .. CountMod - 1
    BY <1>1, <1>2 DEF TypeOK
  <2> QED  BY <1>1, <1>2, <2>1, <2>2, <2>3, <2>4, <2>5, <2>6, <2>7, <2>8 DEF TypeOK
<1>5. RequestsFit'
  BY <1>1, <1>3 DEF RequestsFit
<1>6. LocalsFit'
  <2>1. ASSUME NEW o \in Cpu PROVE LoopFit(o)'
    <3>1. LoopFit(o)
      BY <1>1 DEF LocalsFit
    <3> QED  BY <3>1, <1>3
             DEF LoopFit, InLoop, Live, Idle, Invalidating
  <2>2. ASSUME NEW o \in Cpu PROVE InvalidationFit(o)'
    <3>1. InvalidationFit(o)
      BY <1>1 DEF LocalsFit
    <3> QED  BY <3>1, <1>3
             DEF InvalidationFit, Live, Invalidating
  <2> QED  BY <2>1, <2>2 DEF LocalsFit
<1>7. FoundLive'
  BY <1>1, <1>3 DEF FoundLive, Live
<1>8. JumpsLead'
  BY <1>1, <1>3 DEF JumpsLead, Live
<1>9. JumpsListed'
  BY <1>1, <1>3 DEF JumpsListed
<1>10. PatchHeld'
  BY <1>1, <1>3 DEF PatchHeld
<1>11. MarkedOnce'
  BY <1>3 DEF MarkedOnce
<1>12. RemovalReady'
  BY <1>3 DEF RemovalReady
<1>13. FlushAlone'
  BY <1>1, <1>3 DEF FlushAlone, InLoop, Invalidating
<1>14. Published'
  BY <1>1, <1>3 DEF Published, Flushing, Live
<1>15. RunsItsPc'
  BY <1>1, <1>3 DEF RunsItsPc, Live
<1>16. ListsExact'
  <2>1. ListedIsClaimed'
    BY <1>3 DEF ListedIsClaimed
  <2>2. ClaimedIsListed'
    BY <1>3 DEF ClaimedIsListed
  <2> QED  BY <1>4, <2>1, <2>2, ListsSplitNext
<1> QED  BY <1>4, <1>5, <1>6, <1>7, <1>8, <1>9, <1>10, <1>11, <1>12,
             <1>13, <1>14, <1>15, <1>16 DEF IInv

(* Every step keeps the invariant.                                         *)
LEMMA NextInv == IInv /\ [Next]_vars => IInv'
<1> SUFFICES ASSUME IInv, [Next]_vars PROVE IInv'
  OBVIOUS
<1>1. ASSUME NEW c \in Cpu, Loop(c) PROVE IInv'
  <2>1. CASE EnterLoop(c) \/ ExitLoop(c) \/ cpu_handle_interrupt(c)
    BY <2>1, EnterStep, ExitStep, InterruptStep
  <2>2. CASE LookupCache(c) \/ tb_htable_lookup(c) \/ CacheWrite(c)
    BY <2>2, LookupCacheStep, LookupTableStep, CacheWriteStep
  <2>3. CASE GenStart(c) \/ GenFull(c) \/ tb_link_page(c)
    BY <2>3, GenStartStep, FullStep, LinkStep
  <2>4. CASE GenOverflow(c) \/ cpu_exec_longjmp_cleanup(c)
    BY <2>4, OverflowStep, LongjmpStep
  <2>5. CASE NoChain(c) \/ AddJumpRefused(c)
    BY <2>5, NoChainStep
  <2>6. CASE AddJumpClaim(c) \/ AddJumpPatch(c)
    BY <2>6, ClaimStep, PatchStep
  <2>7. ASSUME NEW n \in Exit, FollowJump(c, n) \/ ExitTb(c, n) PROVE IInv'
    BY <2>7, FollowStep, ExitTbStep
  <2>8. CASE ExitOther(c)
    BY <2>8, ExitOtherStep
  <2> QED  BY <1>1, <2>1, <2>2, <2>3, <2>4, <2>5, <2>6, <2>7, <2>8 DEF Loop
<1>2. ASSUME NEW c \in Cpu, do_tb_phys_invalidate(c) PROVE IInv'
  <2>1. CASE InvalidateStart(c) \/ RemoveFromHtable(c) \/ tb_jmp_cache_inval_tb(c)
    BY <2>1, InvalidateStep, HtableStep, UncacheStep
  <2>2. CASE MarkDest(c) \/ RemoveFromList(c)
    BY <2>2, MarkStep, RemoveStep
  <2>3. CASE UnlinkStart(c) \/ UnlinkReset(c) \/ UnlinkClear(c) \/ UnlinkEnd(c)
    BY <2>3, UnlinkStartStep, ResetStep, ClearStep, UnlinkEndStep
  <2> QED  BY <1>2, <2>1, <2>2, <2>3 DEF do_tb_phys_invalidate
<1>3. ASSUME NEW c \in Cpu, do_tb_flush(c) PROVE IInv'
  <2>1. CASE RequestFlush(c) \/ process_queued_cpu_work(c)
    BY <2>1, RequestStep, QueueStep
  <2>2. CASE FlushStart(c) \/ FlushReset(c)
    BY <2>2, FlushStartStep, FlushResetStep
  <2> QED  BY <1>3, <2>1, <2>2 DEF do_tb_flush
<1>4. CASE UNCHANGED vars
  <2> USE <1>4 DEF vars, block, flush, run, invloc
  <2>1. TypeOK' /\ RequestsFit' /\ LocalsFit'
    BY DEF IInv, TypeOK, RequestsFit, LocalsFit, LoopFit, InvalidationFit, InLoop, Live
  <2>2. FoundLive' /\ JumpsLead' /\ JumpsListed' /\ PatchHeld' /\ MarkedOnce'
    BY DEF IInv, FoundLive, JumpsLead, JumpsListed, PatchHeld, MarkedOnce, Live
  <2>3. RemovalReady'
    BY DEF IInv, RemovalReady
  <2>4. FlushAlone' /\ Published' /\ RunsItsPc'
    BY DEF IInv, FlushAlone, Published, RunsItsPc, InLoop, Live, Flushing
  <2>5. ListsExact'
    BY DEF IInv, ListsExact
  <2> QED  BY <2>1, <2>2, <2>3, <2>4, <2>5 DEF IInv
<1> QED  BY <1>1, <1>2, <1>3, <1>4 DEF Next

(* The inductive invariant holds in every reachable state.                 *)
THEOREM Invariance == Spec => []IInv
BY InitInv, NextInv, PTL DEF Spec

(* Every variable keeps its type; the queue of a vCPU holds at most one    *)
(* request for a flush.                                                    *)
THEOREM TypeCorrect == Spec => []TypeOK
<1>1. IInv => TypeOK
  BY DEF IInv
<1> QED  BY <1>1, Invariance, PTL

(* A vCPU only runs translations of its own pc.                            *)
THEOREM VcpusRunTheirPc == Spec => []RunsItsPc
<1>1. IInv => RunsItsPc
  BY DEF IInv
<1> QED  BY <1>1, Invariance, PTL

(* Lists of incoming jumps, claimed destinations and native jumps agree.   *)
THEOREM JumpListsExact == Spec => []ListsExact
<1>1. IInv => ListsExact
  BY DEF IInv
<1> QED  BY <1>1, Invariance, PTL

(* The assertions of tb_remove_from_jmp_list hold whenever the lock of the *)
(* destination is free.                                                    *)
THEOREM RemovalAsserted == Spec => []RemovalSound
<1>1. IInv => RemovalSound
  <2> SUFFICES ASSUME IInv, NEW c \in Cpu, loc[c] = "remove", ~JmpLocked(ptr[c])
               PROVE  LET dest == jmp_dest[inv[c]][idx[c]]
                      IN  \/ dest.d = ptr[c] /\ <<inv[c], idx[c]>> \in jmp_list[ptr[c]]
                          \/ dest = [d |-> None, m |-> TRUE] /\ invalid[ptr[c]]
    BY DEF RemovalSound
  <2>1. TypeOK /\ RemovalReady /\ LocalsFit
    BY DEF IInv
  <2>2. \A o \in Cpu : loc[o] = "patch" => tb[o] # ptr[c]
    BY DEF JmpLocked
  <2>3. /\ jmp_dest[inv[c]][idx[c]].m
        /\ \/ /\ jmp_dest[inv[c]][idx[c]].d = ptr[c]
              /\ <<inv[c], idx[c]>> \in jmp_list[ptr[c]]
           \/ jmp_dest[inv[c]][idx[c]].d = None /\ invalid[ptr[c]]
    BY <2>1, <2>2, Zenon DEF RemovalReady
  <2>4. inv[c] \in Slot /\ idx[c] \in Exit
    BY <2>1 DEF TypeOK, LocalsFit, InvalidationFit, Invalidating
  <2>5. PICK dest \in [d : Slot \cup {None}, m : BOOLEAN] :
            dest = jmp_dest[inv[c]][idx[c]]
    BY <2>1, <2>4 DEF TypeOK
  <2>6. PICK b \in BOOLEAN : b = TRUE
    OBVIOUS
  <2>7. dest.m = b
    BY <2>3, <2>5, <2>6, Zenon
  <2>8. dest.d = None => dest = [d |-> None, m |-> b]
    BY <2>7
  <2>9. dest.d = None => dest = [d |-> None, m |-> TRUE]
    BY <2>6, <2>8, Zenon
  <2> QED  BY <2>3, <2>5, <2>9, Zenon
<1> QED  BY <1>1, Invariance, PTL

(* Nothing refers to a block that a flush has taken.                       *)
THEOREM NothingDangles == Spec => []NoDangling
<1>1. IInv => NoDangling
  <2> SUFFICES ASSUME IInv PROVE NoDangling
    OBVIOUS
  <2>1. TypeOK /\ FoundLive /\ LocalsFit /\ JumpsLead /\ ListsExact
    BY DEF IInv
  <2>2. \A t \in htable : Live(t)
    BY <2>1 DEF FoundLive
  <2>3. \A c \in Cpu, p \in Pc : jmp_cache[c][p] # None => Live(jmp_cache[c][p])
    BY <2>1 DEF FoundLive
  <2>4. \A c \in Cpu : /\ last_tb[c] # None => Live(last_tb[c])
                       /\ inv[c] # None => Live(inv[c])
                       /\ ptr[c] # None => Live(ptr[c])
    BY <2>1 DEF LocalsFit, LoopFit, InvalidationFit
  <2>5. \A j \in Jump :
           /\ jmp_dest[j[1]][j[2]].d # None => Live(j[1]) /\ Live(jmp_dest[j[1]][j[2]].d)
           /\ target[j[1]][j[2]] # None => Live(target[j[1]][j[2]])
    BY <2>1, JumpParts DEF JumpsLead
  <2>6. ASSUME NEW t \in Slot, NEW j \in jmp_list[t] PROVE Live(j[1])
    <3>1. j \in Jump
      BY <2>1 DEF TypeOK
    <3>2. jmp_dest[j[1]][j[2]].d = t /\ t # None
      BY <2>1, TbCacheAssumption DEF ListsExact
    <3> QED  BY <2>5, <3>1, <3>2
  <2> QED  BY <2>2, <2>3, <2>4, <2>5, <2>6 DEF NoDangling
<1> QED  BY <1>1, Invariance, PTL

(* No valid block jumps to one whose invalidation has ended.               *)
THEOREM StaleCodeUnreachable == Spec => []NoStaleJump
<1>1. IInv => NoStaleJump
  <2> SUFFICES ASSUME IInv, ~Flushing, NEW j \in Jump, target[j[1]][j[2]] # None,
                      ~invalid[j[1]], invalid[target[j[1]][j[2]]]
               PROVE  \E c \in Cpu : inv[c] = target[j[1]][j[2]]
    BY DEF NoStaleJump
  <2>1. PICK s \in Slot, n \in Exit : s = j[1] /\ n = j[2]
    BY JumpParts
  <2>2. PICK t \in Slot : t = target[s][n] /\ Live(t)
    BY <2>1 DEF IInv, TypeOK, JumpsLead
  <2>3. <<s, n>> \in jmp_list[t]
    BY <2>1, <2>2 DEF IInv, JumpsListed
  <2>4. \E c \in Cpu : inv[c] = t
    BY <2>1, <2>2, <2>3 DEF IInv, Published
  <2> QED  BY <2>1, <2>2, <2>4
<1> QED  BY <1>1, Invariance, PTL
===============================================================================
