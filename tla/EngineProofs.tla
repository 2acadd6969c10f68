---------------------------- MODULE EngineProofs ----------------------------
(***************************************************************************)
(* Proofs about a run of the simulator, for every chip, every set of       *)
(* logical pages, every erase budget and every bound on the run's length.  *)
(***************************************************************************)
EXTENDS Verdicts, OutcomeProofs

\* What an accepted operation does, one lemma per handler.
LEMMA AcceptedWrite ==
  ASSUME NEW e \in EngineState, NEW l, NEW p, Verdict(e, Write(l, p)) = "ok"
  PROVE  /\ l \in LPN /\ p \in Page /\ ~Mapped(e, l)
         /\ e.blocks[BlockOf(p)].status \notin {"absent", "bad"}
         /\ ~e.blocks[BlockOf(p)].reserved
         /\ Effect(e, Write(l, p)) = Put(e, l, p)
  BY DEF Verdict, Write, WriteVerdict, Present, Marker, Effect

\* A relocation moves a mapped page onto a block that takes data.
LEMMA AcceptedRelocate ==
  ASSUME NEW e \in EngineState, NEW l, NEW s, NEW p, Verdict(e, Relocate(l, s, p)) = "ok"
  PROVE  /\ l \in LPN /\ p \in Page /\ Mapped(e, l)
         /\ e.blocks[BlockOf(p)].status \notin {"absent", "bad"}
         /\ ~e.blocks[BlockOf(p)].reserved
         /\ Effect(e, Relocate(l, s, p)) = Put(e, l, p)
  BY DEF Verdict, Relocate, RelocateVerdict, Present, Mapped, Marker, Effect

\* An erase is of a block with a row that is not bad; it may be reserved.
LEMMA AcceptedErase ==
  ASSUME NEW e \in EngineState, NEW b, Verdict(e, Erase(b)) = "ok"
  PROVE  /\ b \in Block /\ e.blocks[b].status \notin {"absent", "bad"}
         /\ Effect(e, Erase(b)) = EraseBlock(e, b)
  BY DEF Verdict, Erase, EraseVerdict, Present, Marker, Effect

\* Checkpoints and power losses pass the checks as they are.
LEMMA AcceptedMarker ==
  ASSUME NEW e \in EngineState, NEW op \in {Checkpoint, PowerLoss}
  PROVE  Effect(e, op) = e
  BY DEF Effect, Checkpoint, PowerLoss

\* The two operations that change an engine keep its type.
LEMMA PutType ==
  ASSUME NEW e \in EngineState, NEW l \in LPN, NEW p \in Page
  PROVE  Put(e, l, p) \in EngineState
PROOF
<1> DEFINE new  == [ppn |-> p, block |-> BlockOf(p), page |-> PageIn(p),
                    version |-> e.nextVer[l]]
<1>1. BlockOf(p) \in Block /\ PageIn(p) \in 0 .. PagesPerBlock - 1
  BY PageAddress
<1>2. e.nextVer[l] \in Nat 
  BY DEF EngineState
<1>3. new \in Entry
  BY <1>1, <1>2 DEF Entry
<1> HIDE DEF new
<1>4. [e.map EXCEPT ![l] = new] \in [LPN -> Entry \cup {Unmapped}]
  BY <1>3 DEF EngineState
<1>5. [e.nextVer EXCEPT ![l] = @ + 1] \in [LPN -> Nat]
  BY <1>2 DEF EngineState
<1>6. QED BY <1>4, <1>5 DEF Put, new, EngineState

\* So does an erase.
LEMMA EraseType ==
  ASSUME NEW e \in EngineState, NEW b \in Block
  PROVE  EraseBlock(e, b) \in EngineState
PROOF
<1>1. Cycled(e.blocks[b]) \in BlockRow
  BY CycledType DEF EngineState
<1>2. [l \in LPN |-> IF e.map[l].block = b THEN Unmapped ELSE e.map[l]]
        \in [LPN -> Entry \cup {Unmapped}]
  BY DEF EngineState
<1>3. QED BY <1>1, <1>2 DEF EraseBlock, EngineState

\* The types hold when the run starts.
LEMMA TypeInit == Init => TypeOK
PROOF
<1> SUFFICES ASSUME Init PROVE TypeOK
  OBVIOUS
<1>1. loaded \in [Block -> BlockRow]
  <2>1. FactoryRow \subseteq BlockRow /\ NoRow \in BlockRow
    BY DEF FactoryRow, NoRow, Row, BlockRow, BlockStatus
  <2>2. QED BY <2>1 DEF Init, StoredRows
<1>2. Boot(loaded) \in EngineState
  BY <1>1 DEF Boot, EngineState
<1>3. QED BY <1>1, <1>2 DEF Init, TypeOK

\* Every step keeps them.
LEMMA TypeStep == TypeOK /\ [Next]_vars => TypeOK'
PROOF
<1> SUFFICES ASSUME TypeOK, [Next]_vars PROVE TypeOK'
  OBVIOUS
<1> USE DEF TypeOK
<1>1. CASE DoWrite
  <2> PICK l \in LpnInput, p \in PageInput : Accept(Write(l, p))
    BY <1>1 DEF DoWrite
  <2>1. eng' \in EngineState
    BY AcceptedWrite, PutType DEF Accept
  <2>2. Write(l, p) \in OpInput
    BY DEF OpInput
  <2>3. QED BY <2>1, <2>2 DEF Accept
<1>2. CASE DoErase
  <2> PICK b \in BlockInput : Accept(Erase(b))
    BY <1>2 DEF DoErase
  <2>1. eng' \in EngineState
    BY AcceptedErase, EraseType DEF Accept
  <2>2. Erase(b) \in OpInput
    BY DEF OpInput
  <2>3. QED BY <2>1, <2>2 DEF Accept
<1>3. CASE DoRelocate
  <2> PICK l \in LpnInput, s \in PageInput, d \in PageInput : Accept(Relocate(l, s, d))
    BY <1>3 DEF DoRelocate
  <2>1. eng' \in EngineState
    BY AcceptedRelocate, PutType DEF Accept
  <2>2. Relocate(l, s, d) \in OpInput
    BY DEF OpInput
  <2>3. QED BY <2>1, <2>2 DEF Accept
<1>4. CASE DoMarker
  <2> PICK op \in {Checkpoint, PowerLoss} : Accept(op)
    BY <1>4 DEF DoMarker
  <2>1. eng' \in EngineState
    BY AcceptedMarker DEF Accept
  <2>2. op \in OpInput
    BY DEF OpInput
  <2>3. QED BY <2>1, <2>2 DEF Accept
<1>5. CASE DoRefuse
  <2> PICK op \in OpInput : Refuse(op)
    BY <1>5 DEF DoRefuse
  <2>1. Verdict(eng, op) \in {"ok", "error"} \cup Violation
    BY DEF Verdict, WriteVerdict, EraseVerdict, RelocateVerdict, Violation
  <2>2. QED BY <2>1 DEF Refuse
<1>6. CASE UNCHANGED vars
  BY <1>6 DEF vars
<1>7. QED BY <1>1, <1>2, <1>3, <1>4, <1>5, <1>6 DEF Next

\* A run never leaves its types.
THEOREM TypeCorrect == Spec => []TypeOK
  BY TypeInit, TypeStep, PTL DEF Spec
-----------------------------------------------------------------------------
\* What keeps MappedPagesLive: a target that passed the reserved flag is not in
\* status "reserved" either, since the flag is set wherever the status is.
ReservedFlag == \A b \in Block : eng.blocks[b].status = "reserved" => eng.blocks[b].reserved
LiveInv == MappedPagesLive /\ ReservedFlag

\* A run starts with an empty table.
LEMMA LiveInit == Init => LiveInv
PROOF
<1> SUFFICES ASSUME Init PROVE LiveInv
  OBVIOUS
<1>1. \A l \in LPN : ~Mapped(eng, l)
  BY DEF Init, Boot, Mapped
<1>2. \A b \in Block : eng.blocks[b] \in FactoryRow \cup {NoRow}
  BY DEF Init, Boot, StoredRows
<1>3. \A r \in FactoryRow \cup {NoRow} : r.status = "reserved" => r.reserved
  BY DEF FactoryRow, NoRow, Row
<1>4. QED BY <1>1, <1>2, <1>3 DEF LiveInv, MappedPagesLive, ReservedFlag

\* A page put on a block that is neither absent, bad nor reserved.
LEMMA LivePut ==
  ASSUME TypeOK, LiveInv, NEW l \in LPN, NEW p \in Page,
         eng.blocks[BlockOf(p)].status \notin {"absent", "bad"},
         ~eng.blocks[BlockOf(p)].reserved,
         eng' = Put(eng, l, p)
  PROVE  LiveInv'
PROOF
<1>1. BlockOf(p) \in Block
  BY PageAddress
<1>2. eng.blocks[BlockOf(p)].status = "available"
  <2>1. eng.blocks[BlockOf(p)] \in BlockRow
    BY <1>1 DEF TypeOK, EngineState
  <2>2. eng.blocks[BlockOf(p)].status \in BlockStatus
    BY <2>1 DEF BlockRow
  <2>3. QED BY <1>1, <2>2 DEF LiveInv, ReservedFlag, BlockStatus
<1>3. /\ eng'.blocks = eng.blocks
      /\ eng'.map[l] = [ppn |-> p, block |-> BlockOf(p), page |-> PageIn(p), version |-> eng.nextVer[l]]
      /\ \A k \in LPN \ {l} : eng'.map[k] = eng.map[k]
  BY DEF Put, TypeOK, EngineState
<1>4. ReservedFlag'
  BY <1>3 DEF LiveInv, ReservedFlag
<1>5. ASSUME NEW k \in LPN, Mapped(eng', k)
      PROVE  /\ eng'.map[k].block = BlockOf(eng'.map[k].ppn)
             /\ eng'.map[k].page = PageIn(eng'.map[k].ppn)
             /\ eng'.blocks[eng'.map[k].block].status = "available"
             /\ ~eng'.blocks[eng'.map[k].block].reserved
  <2>1. CASE k = l
    BY <1>2, <1>3, <2>1
  <2>2. CASE k # l
    BY <1>3, <1>5, <2>2 DEF Mapped, LiveInv, MappedPagesLive
  <2>3. QED BY <2>1, <2>2
<1>6. QED BY <1>4, <1>5 DEF LiveInv, MappedPagesLive

\* Erasing a block takes its pages out of the table before it may go bad.
LEMMA LiveErase ==
  ASSUME TypeOK, LiveInv, NEW b \in Block, eng' = EraseBlock(eng, b)
  PROVE  LiveInv'
PROOF
<1>1. /\ eng'.blocks[b] = Cycled(eng.blocks[b])
      /\ \A c \in Block \ {b} : eng'.blocks[c] = eng.blocks[c]
      /\ \A l \in LPN : eng'.map[l] = IF eng.map[l].block = b THEN Unmapped ELSE eng.map[l]
  BY DEF EraseBlock, TypeOK, EngineState
<1>2. /\ eng'.blocks[b].status \in {"bad", eng.blocks[b].status}
      /\ eng'.blocks[b].reserved = eng.blocks[b].reserved
  <2>1. eng.blocks[b] \in BlockRow
    BY DEF TypeOK, EngineState
  <2>2. QED BY <1>1, <2>1 DEF Cycled, BlockRow
<1>3. ReservedFlag'
  BY <1>1, <1>2 DEF LiveInv, ReservedFlag
<1>4. ASSUME NEW l \in LPN, Mapped(eng', l)
      PROVE  eng'.map[l] = eng.map[l] /\ Mapped(eng, l) /\ eng.map[l].block \in Block \ {b}
  <2>1. eng'.map[l] = eng.map[l] /\ eng.map[l].block # b /\ eng.map[l] # Unmapped
    BY <1>1, <1>4 DEF Mapped
  <2>2. eng.map[l] \in Entry
    BY <2>1 DEF TypeOK, EngineState
  <2>3. QED BY <2>1, <2>2 DEF Mapped, Entry
<1>5. MappedPagesLive'
  BY <1>1, <1>4 DEF LiveInv, MappedPagesLive
<1>6. QED BY <1>3, <1>5 DEF LiveInv

\* Every step keeps every mapped page live.
LEMMA LiveStep == TypeOK /\ LiveInv /\ [Next]_vars => LiveInv'
PROOF
<1> SUFFICES ASSUME TypeOK, LiveInv, [Next]_vars PROVE LiveInv'
  OBVIOUS
<1>0. eng \in EngineState
  BY DEF TypeOK
<1>1. CASE DoWrite
  BY <1>0, <1>1, AcceptedWrite, LivePut DEF DoWrite, Accept
<1>2. CASE DoErase
  BY <1>0, <1>2, AcceptedErase, LiveErase DEF DoErase, Accept
<1>3. CASE DoRelocate
  BY <1>0, <1>3, AcceptedRelocate, LivePut DEF DoRelocate, Accept
<1>4. CASE eng' = eng
  BY <1>4 DEF LiveInv, MappedPagesLive, ReservedFlag, Mapped
<1>5. CASE DoMarker
  BY <1>0, <1>4, <1>5, AcceptedMarker DEF DoMarker, Accept
<1>6. CASE DoRefuse \/ UNCHANGED vars
  BY <1>4, <1>6 DEF DoRefuse, Refuse, vars
<1>7. QED BY <1>1, <1>2, <1>3, <1>5, <1>6 DEF Next

\* No logical page is ever on a block that is missing, reserved or bad, or at an
\* address that disagrees with the layout.
THEOREM PagesLive == Spec => []MappedPagesLive
PROOF
<1>1. Spec => []LiveInv
  BY TypeCorrect, LiveInit, LiveStep, PTL DEF Spec
<1>2. LiveInv => MappedPagesLive
  BY DEF LiveInv
<1>3. QED BY <1>1, <1>2, PTL
-----------------------------------------------------------------------------
\* How the history of a run grows by one accepted operation.
LEMMA HistoryGrows ==
  ASSUME TypeOK, NEW op, steps' = Append(steps, op)
  PROVE  /\ DOMAIN steps' = DOMAIN steps \cup {Len(steps) + 1}
         /\ DOMAIN steps = 1 .. Len(steps) /\ Len(steps) \in Nat
         /\ steps'[Len(steps) + 1] = op
         /\ \A i \in DOMAIN steps : steps'[i] = steps[i] /\ i \in Nat /\ i < Len(steps) + 1
  BY DEF TypeOK

\* A history holds finitely many erases of a block.
LEMMA ErasesFinite ==
  ASSUME TypeOK, NEW b
  PROVE  IsFiniteSet(Erases(b)) /\ Cardinality(Erases(b)) \in Nat
PROOF
<1>1. IsFiniteSet(1 .. Len(steps))
  BY FS_Interval DEF TypeOK
<1>2. Erases(b) \subseteq 1 .. Len(steps)
  BY DEF Erases, TypeOK
<1>3. QED BY <1>1, <1>2, FS_Subset, FS_CardinalityType

\* An accepted erase adds one to them.
LEMMA ErasesGrow ==
  ASSUME TypeOK, NEW op, steps' = Append(steps, op), NEW b
  PROVE  /\ op.type = "erase" /\ op.block = b
              => /\ Erases(b)' = Erases(b) \cup {Len(steps) + 1}
                 /\ Cardinality(Erases(b)') = Cardinality(Erases(b)) + 1
         /\ ~(op.type = "erase" /\ op.block = b) => Erases(b)' = Erases(b)
PROOF
<1>1. Len(steps) + 1 \notin Erases(b)
  BY HistoryGrows DEF Erases
<1>2. op.type = "erase" /\ op.block = b => Erases(b)' = Erases(b) \cup {Len(steps) + 1}
  BY HistoryGrows DEF Erases
<1>3. ~(op.type = "erase" /\ op.block = b) => Erases(b)' = Erases(b)
  BY HistoryGrows DEF Erases
<1>4. QED BY <1>1, <1>2, <1>3, ErasesFinite, FS_AddElement

\* The same of the moves of a logical page.
LEMMA MovesFinite ==
  ASSUME TypeOK, NEW l
  PROVE  IsFiniteSet(Moves(l)) /\ Cardinality(Moves(l)) \in Nat
PROOF
<1>1. IsFiniteSet(1 .. Len(steps))
  BY FS_Interval DEF TypeOK
<1>2. Moves(l) \subseteq 1 .. Len(steps)
  BY DEF Moves, TypeOK
<1>3. QED BY <1>1, <1>2, FS_Subset, FS_CardinalityType

\* An accepted move adds one.
LEMMA MovesGrow ==
  ASSUME TypeOK, NEW op, steps' = Append(steps, op), NEW l
  PROVE  /\ op.type \in {"write", "relocate"} /\ op.lpn = l
              => /\ Moves(l)' = Moves(l) \cup {Len(steps) + 1}
                 /\ Cardinality(Moves(l)') = Cardinality(Moves(l)) + 1
         /\ ~(op.type \in {"write", "relocate"} /\ op.lpn = l) => Moves(l)' = Moves(l)
PROOF
<1>1. Len(steps) + 1 \notin Moves(l)
  BY HistoryGrows DEF Moves
<1>2. op.type \in {"write", "relocate"} /\ op.lpn = l => Moves(l)' = Moves(l) \cup {Len(steps) + 1}
  BY HistoryGrows DEF Moves
<1>3. ~(op.type \in {"write", "relocate"} /\ op.lpn = l) => Moves(l)' = Moves(l)
  BY HistoryGrows DEF Moves
<1>4. QED BY <1>1, <1>2, <1>3, MovesFinite, FS_AddElement
-----------------------------------------------------------------------------
\* Nothing is erased yet.
LEMMA WearInit == Init => WearLedger
PROOF
<1> SUFFICES ASSUME Init, NEW b \in Block
             PROVE  /\ eng.blocks[b].erase = Cardinality(Erases(b))
                    /\ eng.blocks[b].erase <= MaxEraseCycles
                    /\ eng.blocks[b].status = "bad"
                         <=> loaded[b].status = "bad" \/ eng.blocks[b].erase = MaxEraseCycles
                    /\ eng.blocks[b].reserved = loaded[b].reserved
  BY DEF WearLedger
<1>1. eng.blocks = loaded
  BY DEF Init, Boot
<1>2. \A r \in FactoryRow \cup {NoRow} : r.erase = 0
  BY DEF FactoryRow, NoRow, Row
<1>3. loaded[b].erase = 0
  BY <1>2 DEF Init, StoredRows
<1>4. Erases(b) = {}
  BY DEF Init, Erases
<1>5. QED BY <1>1, <1>3, <1>4, FS_EmptySet, EngineAssumption

\* An accepted erase is of a block that is not bad, hence below its budget.
LEMMA WearErase ==
  ASSUME TypeOK, WearLedger, NEW b \in Block, eng.blocks[b].status # "bad",
         eng' = EraseBlock(eng, b), steps' = Append(steps, Erase(b)), loaded' = loaded
  PROVE  WearLedger'
PROOF
<1>1. /\ eng'.blocks[b] = Cycled(eng.blocks[b])
      /\ \A c \in Block \ {b} : eng'.blocks[c] = eng.blocks[c]
  BY DEF EraseBlock, TypeOK, EngineState
<1>2. eng.blocks[b] \in BlockRow
  BY DEF TypeOK, EngineState
<1>3. eng.blocks[b].erase \in Nat /\ eng.blocks[b].erase < MaxEraseCycles
  BY <1>2, EngineAssumption DEF WearLedger, BlockRow
<1>4. /\ eng'.blocks[b].erase = eng.blocks[b].erase + 1
      /\ eng'.blocks[b].reserved = eng.blocks[b].reserved
      /\ eng'.blocks[b].status = IF eng.blocks[b].erase + 1 >= MaxEraseCycles
                                  THEN "bad" ELSE eng.blocks[b].status
  BY <1>1, <1>2 DEF Cycled, BlockRow
<1>5. Erase(b).type = "erase" /\ Erase(b).block = b
  BY DEF Erase
<1>6. /\ Cardinality(Erases(b)') = Cardinality(Erases(b)) + 1
      /\ \A c \in Block \ {b} : Erases(c)' = Erases(c)
  BY <1>5, ErasesGrow
<1>7. SUFFICES ASSUME NEW c \in Block
               PROVE  /\ eng'.blocks[c].erase = Cardinality(Erases(c)')
                      /\ eng'.blocks[c].erase <= MaxEraseCycles
                      /\ eng'.blocks[c].status = "bad"
                           <=> loaded[c].status = "bad" \/ eng'.blocks[c].erase = MaxEraseCycles
                      /\ eng'.blocks[c].reserved = loaded[c].reserved
  BY DEF WearLedger
<1>8. CASE c = b
  BY <1>3, <1>4, <1>6, <1>8, EngineAssumption DEF WearLedger
<1>9. CASE c # b
  BY <1>1, <1>6, <1>9 DEF WearLedger
<1>10. QED BY <1>8, <1>9

\* Every other accepted operation leaves the blocks and their erases alone.
LEMMA WearOther ==
  ASSUME TypeOK, WearLedger, NEW op, op.type # "erase", steps' = Append(steps, op),
         eng'.blocks = eng.blocks, loaded' = loaded
  PROVE  WearLedger'
PROOF
<1>1. \A b \in Block : Erases(b)' = Erases(b)
  BY ErasesGrow
<1>2. QED BY <1>1 DEF WearLedger

\* Every step keeps the wear ledger.
LEMMA WearStep == TypeOK /\ WearLedger /\ [Next]_vars => WearLedger'
PROOF
<1> SUFFICES ASSUME TypeOK, WearLedger, [Next]_vars PROVE WearLedger'
  OBVIOUS
<1>0. eng \in EngineState
  BY DEF TypeOK
<1>1. CASE DoWrite
  <2> PICK l \in LpnInput, p \in PageInput : Accept(Write(l, p))
    BY <1>1 DEF DoWrite
  <2>1. eng'.blocks = eng.blocks
    BY <1>0, AcceptedWrite DEF Accept, Put
  <2>2. Write(l, p).type # "erase"
    BY DEF Write
  <2>3. QED BY <2>1, <2>2, WearOther DEF Accept
<1>2. CASE DoErase
  BY <1>0, <1>2, AcceptedErase, WearErase DEF DoErase, Accept
<1>3. CASE DoRelocate
  <2> PICK l \in LpnInput, s \in PageInput, d \in PageInput : Accept(Relocate(l, s, d))
    BY <1>3 DEF DoRelocate
  <2>1. eng'.blocks = eng.blocks
    BY <1>0, AcceptedRelocate DEF Accept, Put
  <2>2. Relocate(l, s, d).type # "erase"
    BY DEF Relocate
  <2>3. QED BY <2>1, <2>2, WearOther DEF Accept
<1>4. CASE DoMarker
  <2> PICK op \in {Checkpoint, PowerLoss} : Accept(op)
    BY <1>4 DEF DoMarker
  <2>1. eng' = eng
    BY <1>0, AcceptedMarker DEF Accept
  <2>2. op.type # "erase"
    BY DEF Checkpoint, PowerLoss
  <2>3. QED BY <2>1, <2>2, WearOther DEF Accept
<1>5. CASE DoRefuse \/ UNCHANGED vars
  BY <1>5 DEF DoRefuse, Refuse, vars, WearLedger, Erases
<1>6. QED BY <1>1, <1>2, <1>3, <1>4, <1>5 DEF Next

\* Erase counts equal the erases performed, never pass the budget, and decide
\* together with the loaded rows which blocks are bad.
THEOREM WearAccounted == Spec => []WearLedger
  BY TypeCorrect, WearInit, WearStep, PTL DEF Spec
-----------------------------------------------------------------------------
\* An empty table replays an empty history.
LEMMA MapInit == Init => MapIsReplay
PROOF
<1> SUFFICES ASSUME Init, NEW l \in LPN
             PROVE  /\ eng.nextVer[l] = Cardinality(Moves(l))
                    /\ ~Mapped(eng, l) /\ Standing(l) = {}
  BY DEF MapIsReplay
<1>1. Moves(l) = {}
  BY DEF Init, Moves
<1>2. QED BY <1>1, FS_EmptySet DEF Init, Boot, Mapped, Standing

\* The page just moved stands where it was put; the others stand as before.
LEMMA StandingMove ==
  ASSUME TypeOK, NEW op, op.type \in {"write", "relocate"}, steps' = Append(steps, op), NEW l
  PROVE  /\ op.lpn = l  => Standing(l)' = {Len(steps) + 1}
         /\ op.lpn # l => Standing(l)' = Standing(l)
PROOF
<1>1. \A b : Erases(b)' = Erases(b)
  BY ErasesGrow
<1>2. \A b : \A j \in Erases(b) : j < Len(steps) + 1
  BY HistoryGrows DEF Erases
<1>3. ASSUME op.lpn = l PROVE Standing(l)' = {Len(steps) + 1}
  <2>1. Moves(l)' = Moves(l) \cup {Len(steps) + 1}
    BY <1>3, MovesGrow
  <2>2. \A j \in Moves(l) : j \in Nat /\ j < Len(steps) + 1
    BY HistoryGrows DEF Moves
  <2>3. QED BY <1>1, <1>2, <2>1, <2>2, HistoryGrows DEF Standing
<1>4. ASSUME op.lpn # l PROVE Standing(l)' = Standing(l)
  <2>1. Moves(l)' = Moves(l)
    BY <1>4, MovesGrow
  <2>2. \A i \in Moves(l) : steps'[i] = steps[i]
    BY HistoryGrows DEF Moves
  <2>3. QED BY <1>1, <2>1, <2>2 DEF Standing
<1>5. QED BY <1>3, <1>4

\* An erase ends the standing of the pages on its block and of no other page.
LEMMA StandingErase ==
  ASSUME TypeOK, NEW op, op.type = "erase", steps' = Append(steps, op), NEW l
  PROVE  Standing(l)' = {i \in Standing(l) : BlockOf(steps[i].dest) # op.block}
PROOF
<1>1. Moves(l)' = Moves(l)
  BY MovesGrow
<1>2. \A i \in Moves(l) : steps'[i] = steps[i] /\ i < Len(steps) + 1 /\ i \in Nat
  BY HistoryGrows DEF Moves
<1>3. Erases(op.block)' = Erases(op.block) \cup {Len(steps) + 1}
  BY ErasesGrow
<1>4. \A b : b # op.block => Erases(b)' = Erases(b)
  BY ErasesGrow
<1>5. \A i \in Moves(l) : ~(Len(steps) + 1 < i)
  BY <1>2, HistoryGrows
<1>6. QED BY <1>1, <1>2, <1>3, <1>4, <1>5, HistoryGrows DEF Standing

\* A move keeps the table a replay of the history.
LEMMA MapPut ==
  ASSUME TypeOK, MapIsReplay, NEW l \in LPN, NEW p \in Page, NEW op,
         op.type \in {"write", "relocate"}, op.lpn = l, op.dest = p,
         steps' = Append(steps, op), eng' = Put(eng, l, p)
  PROVE  MapIsReplay'
PROOF
<1> DEFINE n == Len(steps) + 1
<1>1. /\ eng'.map[l].ppn = p /\ eng'.map[l].version = eng.nextVer[l]
      /\ eng'.nextVer[l] = eng.nextVer[l] + 1
      /\ \A k \in LPN \ {l} : eng'.map[k] = eng.map[k] /\ eng'.nextVer[k] = eng.nextVer[k]
  BY DEF Put, TypeOK, EngineState
<1>2. eng.nextVer[l] \in Nat
  BY DEF TypeOK, EngineState
<1>3. Mapped(eng', l)
  <2>1. eng'.map[l].version # Unmapped.version
    BY <1>1, <1>2 DEF Unmapped
  <2>2. QED BY <2>1 DEF Mapped
<1>4. SUFFICES ASSUME NEW k \in LPN
               PROVE  /\ eng'.nextVer[k] = Cardinality(Moves(k)')
                      /\ Mapped(eng', k) <=> Standing(k)' # {}
                      /\ \A i \in Standing(k)' :
                           /\ eng'.map[k].ppn = steps'[i].dest
                           /\ eng'.map[k].version = Cardinality(Moves(k)') - 1
  BY DEF MapIsReplay
<1>5. CASE k = l
  <2>1. Standing(k)' = {n}
    BY <1>5, StandingMove
  <2>2. Cardinality(Moves(k)') = Cardinality(Moves(k)) + 1
    BY <1>5, MovesGrow
  <2>3. steps'[n].dest = p
    BY HistoryGrows
  <2>4. eng.nextVer[k] = Cardinality(Moves(k))
    BY DEF MapIsReplay
  <2>5. QED BY <1>1, <1>2, <1>3, <1>5, <2>1, <2>2, <2>3, <2>4
<1>6. CASE k # l
  <2>1. Standing(k)' = Standing(k) /\ Moves(k)' = Moves(k)
    BY <1>6, StandingMove, MovesGrow
  <2>2. \A i \in Standing(k) : steps'[i] = steps[i]
    BY HistoryGrows DEF Standing, Moves
  <2>3. eng'.map[k] = eng.map[k] /\ eng'.nextVer[k] = eng.nextVer[k]
    BY <1>1, <1>6
  <2>4. Mapped(eng', k) <=> Mapped(eng, k)
    BY <2>3 DEF Mapped
  <2>5. /\ eng.nextVer[k] = Cardinality(Moves(k))
        /\ Mapped(eng, k) <=> Standing(k) # {}
        /\ \A i \in Standing(k) : /\ eng.map[k].ppn = steps[i].dest
                                  /\ eng.map[k].version = Cardinality(Moves(k)) - 1
    BY DEF MapIsReplay
  <2>6. QED BY <2>1, <2>2, <2>3, <2>4, <2>5
<1>7. QED BY <1>5, <1>6

\* So does an erase.
LEMMA MapErase ==
  ASSUME TypeOK, LiveInv, MapIsReplay, NEW b \in Block,
         steps' = Append(steps, Erase(b)), eng' = EraseBlock(eng, b)
  PROVE  MapIsReplay'
PROOF
<1>1. Erase(b).type = "erase" /\ Erase(b).block = b
  BY DEF Erase
<1>2. SUFFICES ASSUME NEW l \in LPN
               PROVE  /\ eng'.nextVer[l] = Cardinality(Moves(l)')
                      /\ Mapped(eng', l) <=> Standing(l)' # {}
                      /\ \A i \in Standing(l)' :
                           /\ eng'.map[l].ppn = steps'[i].dest
                           /\ eng'.map[l].version = Cardinality(Moves(l)') - 1
  BY DEF MapIsReplay
<1>3. /\ eng'.map[l] = IF eng.map[l].block = b THEN Unmapped ELSE eng.map[l]
      /\ eng'.nextVer[l] = eng.nextVer[l]
  BY DEF EraseBlock
<1>4. Moves(l)' = Moves(l)
  BY <1>1, MovesGrow
<1>5. Standing(l)' = {i \in Standing(l) : BlockOf(steps[i].dest) # b}
  BY <1>1, StandingErase
<1>6. \A i \in Standing(l) : steps'[i] = steps[i]
  BY HistoryGrows DEF Standing, Moves
<1>7. \A i \in Standing(l) : eng.map[l].ppn = steps[i].dest
  BY DEF MapIsReplay
<1>8. Mapped(eng, l) => eng.map[l].block = BlockOf(eng.map[l].ppn)
  BY DEF LiveInv, MappedPagesLive
<1>9. Mapped(eng, l) <=> Standing(l) # {}
  BY DEF MapIsReplay
<1>10. Mapped(eng', l) <=> Mapped(eng, l) /\ eng.map[l].block # b
  BY <1>3 DEF Mapped
<1>11. Standing(l)' # {} <=> Standing(l) # {} /\ eng.map[l].block # b
  BY <1>5, <1>7, <1>8, <1>9
<1>12. \A i \in Standing(l)' : eng'.map[l] = eng.map[l] /\ i \in Standing(l)
  BY <1>3, <1>5, <1>11
<1>13. QED BY <1>3, <1>4, <1>6, <1>9, <1>10, <1>11, <1>12 DEF MapIsReplay

\* And a checkpoint or power loss.
LEMMA MapMarker ==
  ASSUME TypeOK, MapIsReplay, NEW op \in {Checkpoint, PowerLoss},
         steps' = Append(steps, op), eng' = eng
  PROVE  MapIsReplay'
PROOF
<1>1. op.type \notin {"write", "relocate", "erase"}
  BY DEF Checkpoint, PowerLoss
<1>2. /\ \A l : Moves(l)' = Moves(l)
      /\ \A b : Erases(b)' = Erases(b)
  BY <1>1, MovesGrow, ErasesGrow
<1>3. \A l : \A i \in Moves(l) : steps'[i] = steps[i]
  BY HistoryGrows DEF Moves
<1>4. \A l : Standing(l)' = Standing(l)
  BY <1>2, <1>3 DEF Standing
<1>5. \A l : \A i \in Standing(l) : steps'[i] = steps[i]
  BY <1>3 DEF Standing
<1>6. QED BY <1>2, <1>4, <1>5 DEF MapIsReplay, Mapped

\* Every step keeps it.
LEMMA MapStep == TypeOK /\ LiveInv /\ MapIsReplay /\ [Next]_vars => MapIsReplay'
PROOF
<1> SUFFICES ASSUME TypeOK, LiveInv, MapIsReplay, [Next]_vars PROVE MapIsReplay'
  OBVIOUS
<1>0. eng \in EngineState
  BY DEF TypeOK
<1>1. CASE DoWrite
  <2> PICK l \in LpnInput, p \in PageInput : Accept(Write(l, p))
    BY <1>1 DEF DoWrite
  <2>1. l \in LPN /\ p \in Page /\ eng' = Put(eng, l, p)
    BY <1>0, AcceptedWrite DEF Accept
  <2>2. Write(l, p).type = "write" /\ Write(l, p).lpn = l /\ Write(l, p).dest = p
    BY DEF Write
  <2>3. QED BY <2>1, <2>2, MapPut DEF Accept
<1>2. CASE DoErase
  BY <1>0, <1>2, AcceptedErase, MapErase DEF DoErase, Accept
<1>3. CASE DoRelocate
  <2> PICK l \in LpnInput, s \in PageInput, d \in PageInput : Accept(Relocate(l, s, d))
    BY <1>3 DEF DoRelocate
  <2>1. l \in LPN /\ d \in Page /\ eng' = Put(eng, l, d)
    BY <1>0, AcceptedRelocate DEF Accept
  <2>2. Relocate(l, s, d).type = "relocate" /\ Relocate(l, s, d).lpn = l /\ Relocate(l, s, d).dest = d
    BY DEF Relocate
  <2>3. QED BY <2>1, <2>2, MapPut DEF Accept
<1>4. CASE DoMarker
  BY <1>0, <1>4, AcceptedMarker, MapMarker DEF DoMarker, Accept
<1>5. CASE UNCHANGED <<eng, steps>>
  <2>1. /\ \A l : Moves(l)' = Moves(l) /\ Standing(l)' = Standing(l)
        /\ \A l : Mapped(eng, l)' <=> Mapped(eng, l)
    BY <1>5 DEF Mapped, Moves, Standing, Erases
  <2>2. QED BY <1>5, <2>1 DEF MapIsReplay
<1>6. CASE DoRefuse \/ UNCHANGED vars
  BY <1>5, <1>6 DEF DoRefuse, Refuse, vars
<1>7. QED BY <1>1, <1>2, <1>3, <1>4, <1>6 DEF Next

\* The mapping table is the replay of the run's accepted operations.
THEOREM MapReplays == Spec => []MapIsReplay
PROOF
<1>1. Spec => [](TypeOK /\ LiveInv)
  BY TypeCorrect, LiveInit, LiveStep, PTL DEF Spec
<1>2. QED BY <1>1, MapInit, MapStep, PTL DEF Spec
------------------------------------------------------------------------------
\* The accepted operations fold to the engine the run has reached, and a run that
\* ended was refused an operation.
Refused(op)  == op \in OpInput /\ Verdict(eng, op) = stop /\ stop # "ok"
ReplayedBy   == Runs!Folded(Booted(loaded), steps) = [eng |-> eng, stop |-> "ok", done |-> Len(steps)]
AgreesInv    == steps \in Seq(OpInput) /\ ReplayedBy /\ (stop # "running" => \E op : Refused(op))

\* A run of the whole log.
LEMMA RunWhole ==
  ASSUME NEW S, NEW log \in Seq(S), NEW rows
  PROVE  Run(log, 0, rows) = Runs!Folded(Booted(rows), log)
PROOF
<1>1. SubSeq(log, 0 + 1, Len(log)) = log
  OBVIOUS
<1>2. QED BY <1>1, RunFolded

\* A run of no operations leaves the booted state.
LEMMA AgreesInit == Init => AgreesInv
PROOF
<1> SUFFICES ASSUME Init PROVE AgreesInv
  OBVIOUS
<1>1. Runs!Folded(Booted(loaded), << >>) = Booted(loaded)
  BY Runs!FoldEmpty
<1>2. QED BY <1>1 DEF Init, AgreesInv, ReplayedBy, Booted

\* One more accepted operation is one more step of the run.
LEMMA AgreesAccept ==
  ASSUME AgreesInv, NEW op \in OpInput, Accept(op)
  PROVE  AgreesInv'
PROOF
<1>1. /\ steps' = Append(steps, op) /\ steps' \in Seq(OpInput) /\ Len(steps') = Len(steps) + 1
      /\ loaded' = loaded /\ stop' = "running"
      /\ Verdict(eng, op) = "ok" /\ eng' = Effect(eng, op)
  BY DEF AgreesInv, Accept
<1>2. Runs!Folded(Booted(loaded), Append(steps, op)) = RunStep(Runs!Folded(Booted(loaded), steps), op)
  BY Runs!FoldAppend DEF AgreesInv
<1>3. RunStep([eng |-> eng, stop |-> "ok", done |-> Len(steps)], op)
        = [eng |-> eng', stop |-> "ok", done |-> Len(steps) + 1]
  BY <1>1 DEF RunStep
<1>4. QED BY <1>1, <1>2, <1>3 DEF AgreesInv, ReplayedBy

\* A rejected operation and a new run change neither side.
LEMMA AgreesStep == AgreesInv /\ [Next]_vars => AgreesInv'
PROOF
<1> SUFFICES ASSUME AgreesInv, [Next]_vars PROVE AgreesInv'
  OBVIOUS
<1>1. CASE DoWrite
  BY <1>1, AgreesAccept DEF DoWrite, OpInput
<1>2. CASE DoErase
  BY <1>2, AgreesAccept DEF DoErase, OpInput
<1>3. CASE DoRelocate
  BY <1>3, AgreesAccept DEF DoRelocate, OpInput
<1>4. CASE DoMarker
  BY <1>4, AgreesAccept DEF DoMarker, OpInput
<1>5. CASE DoRefuse
  <2>1. PICK op \in OpInput : Refuse(op)
    BY <1>5 DEF DoRefuse
  <2>2. UNCHANGED <<loaded, eng, steps>> /\ stop' = Verdict(eng, op) /\ stop' # "ok"
    BY <2>1 DEF Refuse
  <2>3. Refused(op)'
    BY <2>2 DEF Refused
  <2>4. QED BY <2>2, <2>3 DEF AgreesInv, ReplayedBy
<1>6. CASE UNCHANGED vars
  BY <1>6 DEF vars, AgreesInv, ReplayedBy, Refused
<1>7. QED BY <1>1, <1>2, <1>3, <1>4, <1>5, <1>6 DEF Next

\* Where the run was refused an operation, the fold stops with the same answer and
\* passes over what follows.
LEMMA AgreesHolds == AgreesInv => RunAgrees
PROOF
<1> SUFFICES ASSUME AgreesInv PROVE RunAgrees
  OBVIOUS
<1>1. steps \in Seq(OpInput) /\ ReplayedBy
  BY DEF AgreesInv
<1>2. CASE stop = "running"
  <2>1. Run(steps, 0, loaded) = [eng |-> eng, stop |-> "ok", done |-> Len(steps)]
    BY <1>1, RunWhole DEF ReplayedBy
  <2>2. QED BY <1>2, <2>1 DEF RunAgrees
<1>3. CASE stop # "running"
  <2>1. PICK op \in OpInput : Verdict(eng, op) = stop /\ stop # "ok"
    BY <1>3 DEF AgreesInv, Refused
  <2>2. PICK most, all, end : /\ most = Append(steps, op) /\ all = Append(most, Checkpoint)
                              /\ end = [eng |-> eng, stop |-> stop, done |-> Len(steps)]
    OBVIOUS
  <2>3. Checkpoint \in OpInput
    BY DEF OpInput
  <2>4. most \in Seq(OpInput) /\ all \in Seq(OpInput)
    BY <1>1, <2>2, <2>3
  <2>5. steps \o <<op, Checkpoint>> = all
    BY <1>1, <2>2, <2>3
  <2>6. Runs!Folded(Booted(loaded), most) = end
    <3>1. Runs!Folded(Booted(loaded), most)
            = RunStep([eng |-> eng, stop |-> "ok", done |-> Len(steps)], op)
      BY <1>1, <2>2, Runs!FoldAppend DEF ReplayedBy
    <3>2. QED BY <2>1, <2>2, <3>1 DEF RunStep
  <2>7. Runs!Folded(Booted(loaded), all) = end
    <3>1. Runs!Folded(Booted(loaded), Append(most, Checkpoint))
            = RunStep(Runs!Folded(Booted(loaded), most), Checkpoint)
      BY <2>3, <2>4, Runs!FoldAppend
    <3>2. RunStep(end, Checkpoint) = end
      BY <2>1, <2>2 DEF RunStep
    <3>3. QED BY <2>2, <2>6, <3>1, <3>2
  <2>8. Run(steps \o <<op, Checkpoint>>, 0, loaded) = end
    BY <2>4, <2>5, <2>7, RunWhole
  <2>9. QED BY <1>3, <2>2, <2>8 DEF RunAgrees
<1>4. QED BY <1>2, <1>3

\* The run a simulation of the service makes over a log is the engine's, step by
\* step, up to the first operation that is refused.
THEOREM RunsAgree == Spec => []RunAgrees
  BY AgreesInit, AgreesStep, AgreesHolds, PTL DEF Spec
-----------------------------------------------------------------------------
\* What Validate answers on a run's log.
THEOREM RejectionsExact == Spec => []RejectionExact
PROOF
<1>1. TypeOK => RejectionExact
  <2> SUFFICES ASSUME TypeOK PROVE RejectionExact
    OBVIOUS
  <2>1. steps \in Seq(OpInput) /\ Len(steps) \in Nat /\ DOMAIN steps = 1 .. Len(steps)
    BY LenProperties DEF TypeOK
  <2>2. {i \in Losses : \A j \in Checkpoints : j > i} = Unguarded(steps)
    BY <2>1 DEF Losses, Checkpoints, Unguarded
  <2>3. Validate(steps, {}) = First(Unguarded(steps))
    BY <2>1, ValidateIs
  <2>4. ASSUME NEW c \in 1 .. MaxSteps + 1
        PROVE  Validate(steps, {c}) = IF c > Len(steps) THEN {c} ELSE Validate(steps, {})
    <3>1. {x \in {c} : x > Len(steps)} = IF c > Len(steps) THEN {c} ELSE {}
      OBVIOUS
    <3>2. QED BY <2>1, <2>3, <3>1, ValidateIs
  <2>5. QED BY <2>2, <2>3, <2>4 DEF RejectionExact, First
<1>2. QED BY <1>1, TypeCorrect, PTL

\* A run's log that loses power after checkpoints only is recoverable, and the
\* replay stops at the next power loss.
THEOREM ReplaysStop == Spec => []ReplayStopsAtLoss
PROOF
<1>1. TypeOK => ReplayStopsAtLoss
  <2> SUFFICES ASSUME TypeOK PROVE ReplayStopsAtLoss
    OBVIOUS
  <2>1. steps \in Seq(OpInput) /\ Len(steps) \in Nat /\ DOMAIN steps = 1 .. Len(steps)
    BY LenProperties DEF TypeOK
  <2>2. ASSUME Validate(steps, {}) = {}, Losses # {}
        PROVE  Recoverable(steps)
    <3>1. First(Unguarded(steps)) = {}
      BY <2>1, <2>2, ValidateIs
    <3>2. Unguarded(steps) = {}
      BY <2>1, <3>1, FirstExists
    <3>3. QED BY <2>1, <2>2, <3>2, RecoveryIs DEF Losses
  <2>3. ASSUME Recoverable(steps)
        PROVE  LET from == LastCheckpoint(steps)
                   end  == from + Replay(steps, from)
               IN  /\ end <= Len(steps)
                   /\ \A i \in from + 1 .. end : steps[i].type \notin Marker
                   /\ end < Len(steps) => end + 1 \in Losses
    <3>1. PICK from, count : from = LastCheckpoint(steps) /\ count = Replay(steps, from)
      OBVIOUS
    <3>2. /\ from \in 1 .. Len(steps) /\ count \in Nat /\ from + count <= Len(steps)
          /\ \A i \in from + 1 .. from + count : steps[i].type \notin Marker
          /\ from + count < Len(steps) => steps[from + count + 1].type = "powerloss"
      BY <2>1, <2>3, <3>1, RecoveryIs
    <3>3. from + count < Len(steps) => from + count + 1 \in DOMAIN steps
      BY <2>1, <3>2
    <3>4. QED BY <3>1, <3>2, <3>3 DEF Losses
  <2>4. QED BY <2>2, <2>3 DEF ReplayStopsAtLoss
<1>2. QED BY <1>1, TypeCorrect, PTL

\* The two accounts of wear agree on every table a run reaches.
THEOREM AccountsAgree == Spec => []BalanceExplainsCheck
PROOF
<1>1. TypeOK /\ WearLedger => BalanceExplainsCheck
  <2> SUFFICES ASSUME TypeOK, WearLedger PROVE BalanceExplainsCheck
    OBVIOUS
  <2>1. eng.blocks \in [Block -> BlockRow]
    BY DEF TypeOK, EngineState
  <2>2. ASSUME NEW b \in Block, Judged(eng.blocks[b])
        PROVE  eng.blocks[b].erase \in 0 .. MaxEraseCycles - 1
    <3>1. eng.blocks[b].erase \in Nat
      BY <2>1 DEF BlockRow
    <3>2. eng.blocks[b].erase <= MaxEraseCycles /\ eng.blocks[b].erase # MaxEraseCycles
      BY <2>2 DEF WearLedger, Judged
    <3>3. QED BY <3>1, <3>2, EngineAssumption
  <2>3. QED BY <2>1, <2>2, BalanceIs DEF BalanceExplainsCheck
<1>2. QED BY <1>1, TypeCorrect, WearAccounted, PTL
==============================================================================
