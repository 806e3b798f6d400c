-------------------------- MODULE DataLayerProofs --------------------------
(***************************************************************************)
(* What a unit of work and the query builder guarantee for any table, any  *)
(* filters and any nesting of blocks.                                      *)
(***************************************************************************)
EXTENDS DataLayer, TLAPS, FiniteSetTheorems, SequenceTheorems

Savepoint == [table : Tables, open : BOOLEAN]
Entered == [table : Tables, committed : BOOLEAN]

\* What a block leaves behind when it is popped.
LEMMA FrontProperties ==
  ASSUME NEW S, NEW s \in Seq(S), s # <<>>
  PROVE  /\ Len(s) \in Nat \ {0}
         /\ Front(s) \in Seq(S) /\ Len(Front(s)) = Len(s) - 1
         /\ \A i \in 1 .. Len(s) - 1 : Front(s)[i] = s[i]
         /\ Last(s) \in S
<1>1. Len(s) \in Nat \ {0}
  BY EmptySeq
<1>2. \A i \in 1 .. Len(s) : s[i] \in S
  BY ElementOfSeq
<1>3. \A i \in 1 .. Len(s) - 1 : s[i] \in S
  BY <1>1, <1>2
<1>4. /\ Front(s) \in Seq(S) /\ Len(Front(s)) = Len(s) - 1
      /\ \A i \in 1 .. Len(s) - 1 : Front(s)[i] = s[i]
  <2> DEFINE n == Len(s) - 1
  <2>1. n \in Nat
    BY <1>1
  <2>2. \A i \in 1 .. n : s[i] \in S
    BY <1>3
  <2> HIDE DEF n
  <2>3. /\ SubSeq(s, 1, n) \in Seq(S)
        /\ Len(SubSeq(s, 1, n)) = IF 1 <= n THEN n - 1 + 1 ELSE 0
        /\ \A i \in 1 .. n - 1 + 1 : SubSeq(s, 1, n)[i] = s[1 + i - 1]
    BY <2>1, <2>2, SubSeqProperties
  <2>4. Len(SubSeq(s, 1, n)) = n
    BY <2>1, <2>3
  <2>5. \A i \in 1 .. n : SubSeq(s, 1, n)[i] = s[i]
    BY <2>1, <2>3
  <2>. QED  BY <2>3, <2>4, <2>5 DEF Front, n
<1>. QED  BY <1>1, <1>2, <1>4 DEF Last

\* A function on 1 to n is a sequence of length n.
LEMMA FunctionIsSeq ==
  ASSUME NEW n \in Nat, NEW S, NEW f \in [1 .. n -> S]
  PROVE  f \in Seq(S) /\ Len(f) = n
<1>1. f \in Seq(S)
  BY SeqDef
<1>2. Len(f) \in Nat /\ DOMAIN f = 1 .. Len(f) /\ DOMAIN f = 1 .. n
  BY <1>1, LenProperties
<1>. QED  BY <1>1, <1>2

-----------------------------------------------------------------------------
(* The inductive invariant *)

\* In a writing session the table a block found can still be had back unless
\* somebody committed in it: from the savepoint of a nested block, and for the
\* outermost block from what is committed.
CanBeUndone ==
  /\ \A i \in 1 .. Len(stack) :
       ~blocks[i + 1].committed => stack[i].open /\ stack[i].table = blocks[i + 1].table
  /\ blocks # <<>> /\ ~blocks[1].committed => blocks[1].table = committed

BlocksInv ==
  /\ TypeOK
  /\ BookkeepingFollowsBlocks
  /\ ~leaked /\ session = "write" => CanBeUndone

LEMMA BlocksInit == ASSUME Init PROVE BlocksInv
<1>1. TypeOK
  <2>1. 0 \in 0 .. MaxWrites /\ 0 \in 0 .. MaxFaults
    BY DataLayerAssumption
  <2>2. blocks = <<>> /\ stack = <<>> /\ <<>> \in Seq(Savepoint) /\ <<>> \in Seq(Entered)
    BY EmptySeq DEF Init
  <2>. QED  BY <2>1, <2>2 DEF Init, TypeOK, Savepoint, Entered
<1>2. BookkeepingFollowsBlocks
  BY EmptySeq DEF Init, BookkeepingFollowsBlocks
<1>. QED  BY <1>1, <1>2 DEF Init, BlocksInv

\* A step that enters and leaves no block keeps the invariant if it commits
\* nothing behind the back of a writing session.
LEMMA InPlace ==
  ASSUME BlocksInv, UNCHANGED <<uowVars, blocks, leaked>>,
         committed' \in Tables, work' \in Tables, aborted' \in BOOLEAN, raising' \in BOOLEAN,
         writes' \in 0 .. MaxWrites, faults' \in 0 .. MaxFaults,
         session = "write" => committed' = committed
  PROVE  BlocksInv'
<1> USE DEF BlocksInv, uowVars
<1>1. TypeOK'
  BY DEF TypeOK
<1>2. BookkeepingFollowsBlocks'
  BY DEF BookkeepingFollowsBlocks
<1>3. ~leaked' /\ session' = "write" => CanBeUndone'
  BY DEF CanBeUndone
<1>. QED  BY <1>1, <1>2, <1>3

\* A statement writes a table.
LEMMA WritesInv ==
  ASSUME BlocksInv, NEW T \in Tables, Writes(T)
  PROVE  BlocksInv'
<1>1. writes' \in 0 .. MaxWrites
  BY DataLayerAssumption DEF Writes, BlocksInv, TypeOK
<1>. QED  BY <1>1, InPlace DEF Writes, BlocksInv, TypeOK

LEMMA StatementInv == ASSUME BlocksInv, Statement PROVE BlocksInv'
<1>1. work \in Tables
  BY DEF BlocksInv, TypeOK
<1>2. ASSUME NEW query \in Queries, Delete(query) PROVE BlocksInv'
  <2>1. [t \in Tickets |-> IF t \in Deleted(work, query) THEN Nothing ELSE work[t]] \in Tables
    BY <1>1 DEF Tables
  <2>. QED  BY <1>2, <2>1, WritesInv DEF Delete
<1>3. ASSUME NEW query \in Queries, NEW v \in Statuses, Update(query, v) PROVE BlocksInv'
  <2>1. [t \in Tickets |-> IF t \in Updated(work, query) THEN v ELSE work[t]] \in Tables
    BY <1>1 DEF Tables
  <2>. QED  BY <1>3, <2>1, WritesInv DEF Update
<1>4. ASSUME NEW query \in Queries, NEW t \in Tickets, NEW given \in Statuses \cup {Nothing},
             Create(query, t, given)
      PROVE  BlocksInv'
  <2>1. Filled(query, given) \subseteq Statuses
    BY FilterAssumption DEF Filled
  <2>2. PICK v \in Filled(query, given) : Writes([work EXCEPT ![t] = v])
    BY <1>4 DEF Create
  <2>3. [work EXCEPT ![t] = v] \in Tables
    BY <1>1, <2>1 DEF Tables
  <2>. QED  BY <2>2, <2>3, WritesInv
<1>5. CASE StatementFails
  BY <1>5, InPlace DEF StatementFails, BlocksInv, TypeOK
<1>. QED  BY <1>2, <1>3, <1>4, <1>5 DEF Statement

\* A block is entered: flat, as the first one or in a read-only session, or
\* with a savepoint.
LEMMA EnterFlatInv ==
  ASSUME BlocksInv, NEW asked \in BOOLEAN, EnterFlat(asked)
  PROVE  BlocksInv'
<1> USE DEF BlocksInv
<1>1. /\ session' = IF session # "none" THEN session ELSE IF Mode(asked) THEN "read" ELSE "write"
      /\ work' = IF session # "none" THEN work ELSE committed
      /\ depth' = depth + 1 /\ readonly' = Mode(asked)
      /\ blocks' = Append(blocks, [table |-> work', committed |-> FALSE])
      /\ UNCHANGED <<committed, aborted, raising, leaked, writes, faults, stack>>
      /\ asked => session = "none" \/ readonly
      /\ depth = 0 \/ Mode(asked)
  BY DEF EnterFlat, Opens, Enters
<1>2. work' \in Tables /\ [table |-> work', committed |-> FALSE] \in Entered
  BY <1>1 DEF TypeOK, Entered
<1>3. blocks \in Seq(Entered) /\ Len(blocks) \in Nat
  BY LenProperties DEF TypeOK, Entered
<1>4. /\ blocks' \in Seq(Entered) /\ blocks' # <<>> /\ Len(blocks') = Len(blocks) + 1
      /\ \A i \in 1 .. Len(blocks) : blocks'[i] = blocks[i]
      /\ blocks'[Len(blocks) + 1] = [table |-> work', committed |-> FALSE]
  BY <1>1, <1>2, <1>3, AppendProperties
<1>5. TypeOK'
  <2>1. session' \in {"write", "read"} /\ readonly' \in BOOLEAN /\ depth' \in Nat
    BY <1>1 DEF TypeOK, Mode
  <2>. QED  BY <1>1, <1>2, <1>4, <2>1 DEF TypeOK, Entered
<1>6. ASSUME ~leaked PROVE BookkeepingFollowsBlocks'
  <2>1. /\ depth = Len(blocks) /\ (session = "none") = (blocks = <<>>)
        /\ session = "none" => ~readonly
        /\ session # "none" => readonly = (session = "read")
        /\ Len(stack) = IF readonly \/ depth = 0 THEN 0 ELSE depth - 1
        /\ session \in {"none", "write", "read"} /\ readonly \in BOOLEAN /\ depth \in Nat
    BY <1>6 DEF BookkeepingFollowsBlocks, TypeOK
  <2>2. depth = 0 <=> session = "none"
    BY <1>3, <2>1, EmptySeq
  <2>3. readonly' = (session' = "read") /\ session' # "none"
    BY <1>1, <2>1, <2>2 DEF Mode
  <2>4. Len(stack') = 0 /\ depth' = Len(blocks') /\ (depth' = 1 \/ readonly')
    BY <1>1, <1>4, <2>1, <2>2 DEF Mode
  <2>. QED  BY <1>1, <2>1, <2>3, <2>4 DEF BookkeepingFollowsBlocks
<1>7. ASSUME ~leaked, session' = "write" PROVE CanBeUndone'
  <2>1. Len(stack') = 0 /\ Len(blocks) = 0 /\ session = "none"
    BY <1>1, <1>3, <1>6, <1>7, EmptySeq DEF BookkeepingFollowsBlocks, TypeOK, Mode
  <2>2. blocks'[1].table = committed'
    BY <1>1, <1>4, <2>1
  <2>. QED  BY <2>1, <2>2 DEF CanBeUndone
<1>. QED  BY <1>1, <1>5, <1>6, <1>7 DEF BookkeepingFollowsBlocks

LEMMA EnterNestedInv == ASSUME BlocksInv, EnterNested PROVE BlocksInv'
<1> USE DEF BlocksInv
<1>1. /\ session' = IF session # "none" THEN session ELSE "write"
      /\ work' = IF session # "none" THEN work ELSE committed
      /\ depth > 0 /\ depth' = depth + 1 /\ ~readonly /\ readonly' = FALSE
      /\ blocks' = Append(blocks, [table |-> work', committed |-> FALSE])
      /\ stack' = Append(stack, [table |-> work, open |-> TRUE])
      /\ UNCHANGED <<committed, aborted, raising, leaked, writes, faults>>
  BY DEF EnterNested, Opens, Enters
<1>2. /\ work' \in Tables /\ [table |-> work', committed |-> FALSE] \in Entered
      /\ [table |-> work, open |-> TRUE] \in Savepoint
  BY <1>1 DEF TypeOK, Entered, Savepoint
<1>3. /\ blocks \in Seq(Entered) /\ Len(blocks) \in Nat
      /\ stack \in Seq(Savepoint) /\ Len(stack) \in Nat
  BY LenProperties DEF TypeOK, Entered, Savepoint
<1>4. /\ blocks' \in Seq(Entered) /\ blocks' # <<>> /\ Len(blocks') = Len(blocks) + 1
      /\ \A i \in 1 .. Len(blocks) : blocks'[i] = blocks[i]
      /\ blocks'[Len(blocks) + 1] = [table |-> work', committed |-> FALSE]
  BY <1>1, <1>2, <1>3, AppendProperties
<1>5. /\ stack' \in Seq(Savepoint) /\ Len(stack') = Len(stack) + 1
      /\ \A i \in 1 .. Len(stack) : stack'[i] = stack[i]
      /\ stack'[Len(stack) + 1] = [table |-> work, open |-> TRUE]
  BY <1>1, <1>2, <1>3, AppendProperties
<1>6. TypeOK'
  <2>1. session' \in {"write", "read"} /\ depth' \in Nat
    BY <1>1 DEF TypeOK
  <2>. QED  BY <1>1, <1>2, <1>4, <1>5, <2>1 DEF TypeOK, Entered, Savepoint
<1>7. ASSUME ~leaked
      PROVE  /\ session = "write" /\ session' = "write" /\ work' = work
             /\ depth = Len(blocks) /\ Len(stack) = depth - 1
  <2>1. depth = Len(blocks) /\ Len(stack) = depth - 1
    BY <1>1, <1>7 DEF BookkeepingFollowsBlocks
  <2>2. blocks # <<>>
    BY <1>1, <2>1, EmptySeq
  <2>3. session = "write"
    BY <1>1, <1>7, <2>2 DEF BookkeepingFollowsBlocks, TypeOK
  <2>. QED  BY <1>1, <2>1, <2>3
<1>8. ASSUME ~leaked PROVE BookkeepingFollowsBlocks'
  <2>1. depth' = Len(blocks') /\ depth' # 0 /\ Len(stack') = depth' - 1
    BY <1>1, <1>3, <1>4, <1>5, <1>7, <1>8
  <2>2. readonly' = FALSE /\ session' = "write"
    BY <1>1, <1>7, <1>8
  <2>. QED  BY <2>1, <2>2 DEF BookkeepingFollowsBlocks
<1>9. ASSUME ~leaked, session' = "write" PROVE CanBeUndone'
  <2>1. CanBeUndone
    BY <1>7, <1>9
  <2>2. ASSUME NEW i \in 1 .. Len(stack'), ~blocks'[i + 1].committed
        PROVE  stack'[i].open /\ stack'[i].table = blocks'[i + 1].table
    <3>1. CASE i = Len(stack) + 1
      <4>1. i + 1 = Len(blocks) + 1
        BY <1>3, <1>7, <1>9, <3>1
      <4>2. blocks'[i + 1].table = work
        BY <1>4, <1>7, <1>9, <4>1
      <4>. QED  BY <1>5, <3>1, <4>2
    <3>2. CASE i \in 1 .. Len(stack)
      <4>1. i + 1 \in 1 .. Len(blocks)
        BY <1>3, <1>7, <1>9, <3>2
      <4>2. blocks'[i + 1] = blocks[i + 1] /\ stack'[i] = stack[i]
        BY <1>4, <1>5, <3>2, <4>1
      <4>. QED  BY <2>1, <2>2, <3>2, <4>2 DEF CanBeUndone
    <3>. QED  BY <1>3, <1>5, <3>1, <3>2
  <2>3. blocks'[1] = blocks[1] /\ blocks # <<>>
    <3>1. 1 \in 1 .. Len(blocks)
      BY <1>1, <1>3, <1>7, <1>9
    <3>. QED  BY <1>3, <1>4, <3>1, EmptySeq
  <2>. QED  BY <1>1, <2>1, <2>2, <2>3 DEF CanBeUndone
<1>. QED  BY <1>1, <1>6, <1>8, <1>9 DEF BookkeepingFollowsBlocks

\* A block that could not be entered is counted: the bookkeeping is given up.
LEMMA EnterFailsInv == ASSUME BlocksInv, EnterFails PROVE BlocksInv'
<1>1. /\ session' \in {"none", "write", "read"} /\ work' \in Tables /\ depth' \in Nat
      /\ readonly' = FALSE /\ leaked' = TRUE /\ raising' = TRUE
      /\ UNCHANGED <<committed, stack, aborted, blocks, writes>>
  BY DEF EnterFails, Opens, BlocksInv, TypeOK
<1>2. faults' \in 0 .. MaxFaults
  BY DataLayerAssumption DEF EnterFails, BlocksInv, TypeOK
<1>. QED  BY <1>1, <1>2 DEF BlocksInv, TypeOK, BookkeepingFollowsBlocks

-----------------------------------------------------------------------------
(* Leaving a block *)

\* The last block and its savepoint are popped.
LEMMA ExitNestedInv == ASSUME BlocksInv, ExitNested PROVE BlocksInv'
<1> USE DEF BlocksInv
<1>1. /\ blocks # <<>> /\ depth > 1 /\ ~readonly /\ stack # <<>>
      /\ blocks' = Front(blocks) /\ depth' = depth - 1 /\ stack' = Front(stack)
      /\ UNCHANGED <<committed, session, readonly, leaked, writes, faults>>
  BY DEF ExitNested, Leaves
<1>2. blocks \in Seq(Entered) /\ stack \in Seq(Savepoint)
  BY DEF TypeOK, Entered, Savepoint
<1>3. /\ Len(blocks) \in Nat \ {0} /\ blocks' \in Seq(Entered) /\ Len(blocks') = Len(blocks) - 1
      /\ \A i \in 1 .. Len(blocks) - 1 : blocks'[i] = blocks[i]
  BY <1>1, <1>2, FrontProperties
<1>4. /\ Len(stack) \in Nat \ {0} /\ stack' \in Seq(Savepoint) /\ Len(stack') = Len(stack) - 1
      /\ \A i \in 1 .. Len(stack) - 1 : stack'[i] = stack[i]
      /\ Last(stack) \in Savepoint
  BY <1>1, <1>2, FrontProperties
<1>5. work' \in Tables /\ aborted' \in BOOLEAN /\ raising' \in BOOLEAN
  BY <1>4 DEF ExitNested, TypeOK, Savepoint
<1>6. ASSUME ~leaked
      PROVE  /\ depth = Len(blocks) /\ Len(stack) = depth - 1
             /\ session = "write" /\ blocks' # <<>>
  <2>1. depth = Len(blocks) /\ Len(stack) = depth - 1
    BY <1>1, <1>6 DEF BookkeepingFollowsBlocks, TypeOK
  <2>2. session = "write"
    BY <1>1, <1>6 DEF BookkeepingFollowsBlocks, TypeOK
  <2>3. Len(blocks') # 0
    BY <1>1, <1>3, <2>1
  <2>. QED  BY <2>1, <2>2, <2>3, EmptySeq
<1>7. TypeOK'
  <2>1. depth' \in Nat
    BY <1>1 DEF TypeOK
  <2>2. ~leaked' => (session' = "none") = (blocks' = <<>>)
    BY <1>1, <1>6
  <2>. QED  BY <1>1, <1>3, <1>4, <1>5, <2>1, <2>2 DEF TypeOK, Entered, Savepoint
<1>8. ASSUME ~leaked PROVE BookkeepingFollowsBlocks'
  BY <1>1, <1>3, <1>4, <1>6, <1>8 DEF BookkeepingFollowsBlocks, TypeOK
<1>9. ASSUME ~leaked, session' = "write" PROVE CanBeUndone'
  <2>1. CanBeUndone
    BY <1>6, <1>9
  <2>2. ASSUME NEW i \in 1 .. Len(stack')
        PROVE  i \in 1 .. Len(stack) /\ stack'[i] = stack[i] /\ blocks'[i + 1] = blocks[i + 1]
    <3>1. i \in 1 .. Len(stack) - 1 /\ i \in 1 .. Len(stack) /\ i + 1 \in 1 .. Len(blocks) - 1
      BY <1>3, <1>4, <1>6, <1>9
    <3>. QED  BY <1>3, <1>4, <3>1
  <2>3. blocks'[1] = blocks[1]
    <3>1. 1 \in 1 .. Len(blocks) - 1
      BY <1>1, <1>3, <1>6, <1>9
    <3>. QED  BY <1>3, <3>1
  <2>. QED  BY <1>1, <2>1, <2>2, <2>3 DEF CanBeUndone
<1>. QED  BY <1>1, <1>7, <1>8, <1>9 DEF BookkeepingFollowsBlocks

\* A block of a read-only session only counts.
LEMMA ExitReadonlyInv == ASSUME BlocksInv, ExitReadonly PROVE BlocksInv'
<1> USE DEF BlocksInv
<1>1. /\ blocks # <<>> /\ depth > 1 /\ readonly
      /\ blocks' = Front(blocks) /\ depth' = depth - 1
      /\ UNCHANGED <<committed, work, session, readonly, stack, aborted, raising, leaked, writes, faults>>
  BY DEF ExitReadonly, Leaves
<1>2. blocks \in Seq(Entered)
  BY DEF TypeOK, Entered
<1>3. /\ Len(blocks) \in Nat \ {0} /\ blocks' \in Seq(Entered) /\ Len(blocks') = Len(blocks) - 1
  BY <1>1, <1>2, FrontProperties
<1>4. ASSUME ~leaked
      PROVE  depth = Len(blocks) /\ Len(stack) = 0 /\ session = "read" /\ blocks' # <<>>
  <2>1. depth = Len(blocks) /\ Len(stack) = 0 /\ session = "read"
    BY <1>1, <1>4 DEF BookkeepingFollowsBlocks, TypeOK
  <2>2. Len(blocks') # 0
    BY <1>1, <1>3, <2>1
  <2>. QED  BY <2>1, <2>2, EmptySeq
<1>5. TypeOK'
  <2>1. depth' \in Nat
    BY <1>1 DEF TypeOK
  <2>2. ~leaked' => (session' = "none") = (blocks' = <<>>)
    BY <1>1, <1>4
  <2>. QED  BY <1>1, <1>3, <2>1, <2>2 DEF TypeOK, Entered
<1>6. ASSUME ~leaked PROVE BookkeepingFollowsBlocks'
  <2>1. depth' = Len(blocks') /\ readonly' /\ session' = "read" /\ Len(stack') = 0
    BY <1>1, <1>3, <1>4, <1>6
  <2>. QED  BY <2>1 DEF BookkeepingFollowsBlocks
<1>. QED  BY <1>1, <1>4, <1>5, <1>6 DEF BookkeepingFollowsBlocks

\* The outermost block closes the session and resets the mode.
LEMMA ExitOuterInv == ASSUME BlocksInv, ExitOuter PROVE BlocksInv'
<1> USE DEF BlocksInv
<1>1. /\ blocks # <<>> /\ depth = 1 /\ blocks' = Front(blocks)
      /\ depth' = 0 /\ session' = "none" /\ readonly' = FALSE
      /\ work' = committed /\ aborted' = FALSE
      /\ UNCHANGED <<committed, stack, raising, leaked, writes, faults>>
  BY DEF ExitOuter, Leaves
<1>2. blocks \in Seq(Entered)
  BY DEF TypeOK, Entered
<1>3. blocks' \in Seq(Entered) /\ Len(blocks') = Len(blocks) - 1
  BY <1>1, <1>2, FrontProperties
<1>4. ASSUME ~leaked PROVE Len(blocks') = 0 /\ blocks' = <<>> /\ Len(stack) = 0
  <2>1. Len(blocks) = 1 /\ Len(stack) = 0
    BY <1>1, <1>4 DEF BookkeepingFollowsBlocks, TypeOK
  <2>. QED  BY <1>3, <2>1, EmptySeq
<1>5. TypeOK'
  BY <1>1, <1>3, <1>4 DEF TypeOK, Entered
<1>6. BookkeepingFollowsBlocks'
  BY <1>1, <1>4 DEF BookkeepingFollowsBlocks
<1>. QED  BY <1>1, <1>5, <1>6

\* A block too few is left when one could not be entered.
LEMMA ExitUnmatchedInv == ASSUME BlocksInv, ExitUnmatched PROVE BlocksInv'
<1> USE DEF BlocksInv
<1>1. /\ blocks # <<>> /\ depth > 1 /\ ~readonly /\ stack = <<>>
      /\ blocks' = Front(blocks) /\ depth' = depth - 1 /\ raising' = TRUE
      /\ UNCHANGED <<committed, work, session, readonly, stack, aborted, leaked, writes, faults>>
  BY DEF ExitUnmatched, Leaves
<1>2. leaked
  BY <1>1, EmptySeq DEF BookkeepingFollowsBlocks, TypeOK
<1>3. blocks \in Seq(Entered)
  BY DEF TypeOK, Entered
<1>4. blocks' \in Seq(Entered) /\ depth' \in Nat
  BY <1>1, <1>3, FrontProperties DEF TypeOK
<1>. QED  BY <1>1, <1>2, <1>4 DEF TypeOK, BookkeepingFollowsBlocks, Entered

-----------------------------------------------------------------------------
(* The other steps *)

\* commit() closes every savepoint and marks every block.
LEMMA CommitInv == ASSUME BlocksInv, Commit PROVE BlocksInv'
<1> USE DEF BlocksInv
<1>1. CASE readonly
  BY <1>1, InPlace DEF Commit, TypeOK, uowVars
<1>2. CASE ~readonly
  <2>1. /\ committed' = (IF aborted THEN committed ELSE work) /\ work' = committed'
        /\ aborted' = FALSE
        /\ stack' = [i \in DOMAIN stack |-> [stack[i] EXCEPT !.open = FALSE]]
        /\ blocks' = [i \in DOMAIN blocks |-> [blocks[i] EXCEPT !.committed = TRUE]]
        /\ UNCHANGED <<raising, session, readonly, depth, leaked, writes, faults>>
    BY <1>2 DEF Commit
  <2>2. /\ blocks \in Seq(Entered) /\ Len(blocks) \in Nat /\ DOMAIN blocks = 1 .. Len(blocks)
        /\ stack \in Seq(Savepoint) /\ Len(stack) \in Nat /\ DOMAIN stack = 1 .. Len(stack)
    BY LenProperties DEF TypeOK, Entered, Savepoint
  <2>3. /\ \A i \in 1 .. Len(blocks) : blocks[i] \in Entered
        /\ \A i \in 1 .. Len(stack) : stack[i] \in Savepoint
    BY <2>2, ElementOfSeq
  <2>4. /\ blocks' \in [1 .. Len(blocks) -> Entered]
        /\ stack' \in [1 .. Len(stack) -> Savepoint]
        /\ \A i \in 1 .. Len(blocks) : blocks'[i].committed
    BY <2>1, <2>2, <2>3 DEF Entered, Savepoint
  <2>5. /\ blocks' \in Seq(Entered) /\ stack' \in Seq(Savepoint)
        /\ Len(blocks') = Len(blocks) /\ Len(stack') = Len(stack)
    BY <2>2, <2>4, FunctionIsSeq
  <2>6. (blocks' = <<>>) = (blocks = <<>>)
    BY <2>2, <2>5, EmptySeq
  <2>7. TypeOK'
    BY <2>1, <2>5, <2>6 DEF TypeOK, Entered, Savepoint
  <2>8. BookkeepingFollowsBlocks'
    BY <2>1, <2>5 DEF BookkeepingFollowsBlocks
  <2>9. ASSUME ~leaked', session' = "write" PROVE CanBeUndone'
    <3>1. \A i \in 1 .. Len(stack') : i + 1 \in 1 .. Len(blocks)
      BY <1>2, <2>1, <2>2, <2>5, <2>9 DEF BookkeepingFollowsBlocks, TypeOK
    <3>2. blocks' # <<>> => 1 \in 1 .. Len(blocks)
      BY <2>2, <2>6, EmptySeq
    <3>. QED  BY <2>4, <3>1, <3>2 DEF CanBeUndone
  <2>. QED  BY <2>7, <2>8, <2>9
<1>. QED  BY <1>1, <1>2

LEMMA BlockInv == ASSUME BlocksInv, Block PROVE BlocksInv'
<1>1. CASE ReadonlyRefused
  BY <1>1, InPlace DEF ReadonlyRefused, BlocksInv, TypeOK
<1>. QED
  BY <1>1, EnterFlatInv, EnterNestedInv, EnterFailsInv, ExitNestedInv, ExitUnmatchedInv,
     ExitReadonlyInv, ExitOuterInv, CommitInv DEF Block

LEMMA BlocksNext == ASSUME BlocksInv, [Next]_vars PROVE BlocksInv'
<1>1. CASE Raise \/ Catch
  BY <1>1, InPlace DEF Raise, Catch, BlocksInv, TypeOK
<1>2. CASE NextRequest
  <2>1. TypeOK'
    <3>1. <<>> \in Seq(Savepoint)
      BY EmptySeq
    <3>. QED  BY <1>2, <3>1 DEF NextRequest, BlocksInv, TypeOK, Savepoint
  <2>2. BookkeepingFollowsBlocks'
    BY <1>2, EmptySeq DEF NextRequest, BookkeepingFollowsBlocks
  <2>. QED  BY <1>2, <2>1, <2>2 DEF NextRequest, BlocksInv
<1>3. CASE UNCHANGED vars
  BY <1>3, InPlace DEF vars, BlocksInv, TypeOK
<1>. QED  BY <1>1, <1>2, <1>3, BlockInv, StatementInv DEF Next

LEMMA BlocksInvariance == Spec => []BlocksInv
<1>1. Init => BlocksInv
  BY BlocksInit
<1>2. BlocksInv /\ [Next]_vars => BlocksInv'
  BY BlocksNext
<1>. QED  BY <1>1, <1>2, PTL DEF Spec

-----------------------------------------------------------------------------
(* Leaving a block with an exception *)

LEMMA UndoStep ==
  ASSUME BlocksInv, [Next]_vars,
         Len(blocks') < Len(blocks), raising', session = "write", ~leaked
  PROVE  Last(blocks).committed \/ aborted' \/ work' = Last(blocks).table
<1>1. /\ blocks \in Seq(Entered) /\ Len(blocks) \in Nat
      /\ depth = Len(blocks) /\ depth \in Nat /\ ~readonly
      /\ Len(stack) = IF depth = 0 THEN 0 ELSE depth - 1
      /\ CanBeUndone
  BY LenProperties DEF BlocksInv, TypeOK, BookkeepingFollowsBlocks, Entered
<1>2. CASE ExitNested
  <2>1. /\ Last(stack) = stack[depth - 1] /\ Last(blocks) = blocks[(depth - 1) + 1]
        /\ depth - 1 \in 1 .. Len(stack)
    BY <1>1, <1>2 DEF ExitNested, Last
  <2>2. ~Last(blocks).committed => Last(stack).open /\ Last(stack).table = Last(blocks).table
    BY <1>1, <2>1 DEF CanBeUndone
  <2>3. CASE raising
    BY <1>2, <2>2, <2>3 DEF ExitNested
  <2>4. CASE ~raising /\ Last(stack).open
    <3>1. aborted \in BOOLEAN /\ raising' = aborted /\ aborted' = aborted
      BY <1>2, <2>4 DEF ExitNested, BlocksInv, TypeOK
    <3>. QED  BY <3>1
  <2>. QED  BY <2>2, <2>3, <2>4
<1>3. CASE ExitOuter
  <2>1. Last(blocks) = blocks[1] /\ blocks # <<>> /\ work' = committed
    BY <1>1, <1>3 DEF ExitOuter, Last
  <2>. QED  BY <1>1, <2>1 DEF CanBeUndone
<1>4. ~ExitUnmatched /\ ~ExitReadonly
  <2>1. ASSUME ExitUnmatched PROVE FALSE
    <3>1. stack = <<>> /\ depth > 1
      BY <2>1 DEF ExitUnmatched
    <3>2. Len(stack) = 0
      BY <3>1
    <3>. QED  BY <1>1, <3>1, <3>2
  <2>2. ~ExitReadonly
    BY <1>1 DEF ExitReadonly
  <2>. QED  BY <2>1, <2>2
<1>5. ASSUME NEW T \in Tables, blocks' = Append(blocks, [table |-> T, committed |-> FALSE])
      PROVE  FALSE
  <2>1. [table |-> T, committed |-> FALSE] \in Entered
    BY DEF Entered
  <2>2. Len(blocks') = Len(blocks) + 1
    BY <1>1, <1>5, <2>1, AppendProperties
  <2>. QED  BY <1>1, <2>2
<1>6. ~EnterNested /\ \A asked \in BOOLEAN : ~EnterFlat(asked)
  <2>1. ASSUME EnterNested \/ \E asked \in BOOLEAN : EnterFlat(asked)
        PROVE  work' \in Tables /\ blocks' = Append(blocks, [table |-> work', committed |-> FALSE])
    BY <2>1 DEF EnterNested, EnterFlat, Opens, Enters, BlocksInv, TypeOK
  <2>. QED  BY <1>5, <2>1
<1>7. ~Commit
  <2>1. ASSUME Commit PROVE Len(blocks') = Len(blocks)
    <3>1. DOMAIN blocks = 1 .. Len(blocks)
      BY <1>1, LenProperties
    <3>. QED  BY <1>1, <2>1, <3>1 DEF Commit
  <2>. QED  BY <1>1, <2>1
<1>8. blocks' # blocks
  BY <1>1
<1>9. ~ReadonlyRefused /\ ~EnterFails /\ ~Raise /\ ~Catch /\ ~NextRequest /\ ~UNCHANGED vars
  BY <1>8 DEF ReadonlyRefused, EnterFails, Raise, Catch, NextRequest, vars
<1>10. ~Statement
  BY <1>8 DEF Statement, StatementFails, Delete, Update, Create, Writes
<1>. QED  BY <1>2, <1>3, <1>4, <1>6, <1>7, <1>9, <1>10 DEF Next, Block

-----------------------------------------------------------------------------
(* What filters are compiled to *)

\* The condition a filter is compiled to, whether it is kept, and whether it
\* holds of a ticket and its item.
Condition(f) == [at |-> Resolve(f.key), values |-> f.values]
InTable(f) == Resolve(f.key).field \in Columns[Resolve(f.key).model]
Kept(f) == ~f.null /\ InTable(f)
HoldsOf(f, t) ==
  LET at == Resolve(f.key) IN
  Test(Condition(f), IF at.model = "item" THEN ItemColumn(ItemOf[t], at.field)
                     ELSE Column(work, t, at.field))

LEMMA PairFront == ASSUME NEW a, NEW b PROVE Front(<<a, b>>) = <<a>>
<1> DEFINE S == {a, b}
           s == <<a, b>>
<1>1. s \in Seq(S) /\ s # <<>> /\ Len(s) = 2 /\ s[1] = a
  OBVIOUS
<1>2. <<a>> \in Seq(S) /\ Len(<<a>>) = 1 /\ <<a>>[1] = a
  OBVIOUS
<1> HIDE DEF s, S
<1>3. Front(s) \in Seq(S) /\ Len(Front(s)) = 1 /\ Front(s)[1] = a
  <2>1. Front(s) \in Seq(S) /\ Len(Front(s)) = Len(s) - 1
    BY <1>1, FrontProperties
  <2>2. \A i \in 1 .. Len(s) - 1 : Front(s)[i] = s[i]
    BY <1>1, FrontProperties
  <2>3. 1 \in 1 .. Len(s) - 1
    BY <1>1
  <2>. QED  BY <1>1, <2>1, <2>2, <2>3
<1>4. Front(s) = <<a>>
  BY <1>2, <1>3, SeqEqual
<1>. QED  BY <1>4 DEF s

\* A name alone or with an operator is a column of the ticket.
LEMMA OwnName ==
  ASSUME NEW name, name \notin Operators \cup Relations,
         NEW f, f.key \in {<<name>>} \cup {<<name, op>> : op \in Operators}, NEW t
  PROVE  /\ InTable(f) <=> Known(f)
         /\ HoldsOf(f, t) <=> Meant(f, t)
<1>1. CASE f.key = <<name>>
  <2>1. Resolve(f.key) = [model |-> "ticket", field |-> name, op |-> "eq"]
    BY <1>1 DEF Resolve, Last
  <2>2. Path(f.key) = <<name>> /\ Last(f.key) = name
    BY <1>1 DEF Path, Last
  <2>. QED
    BY <2>1, <2>2 DEF InTable, Known, HoldsOf, Meant, Condition, Test, Columns, Operators
<1>2. ASSUME NEW op \in Operators, f.key = <<name, op>>
      PROVE  /\ InTable(f) <=> Known(f)
             /\ HoldsOf(f, t) <=> Meant(f, t)
  <2>1. Resolve(f.key) = [model |-> "ticket", field |-> name, op |-> op]
    BY <1>2 DEF Resolve, Last
  <2>2. Path(f.key) = <<name>> /\ Last(f.key) = op
    BY <1>2, PairFront DEF Path, Last
  <2>. QED
    BY <2>1, <2>2 DEF InTable, Known, HoldsOf, Meant, Condition, Test, Columns, Operators
<1>. QED  BY <1>1, <1>2

\* A name after a relation is a column of the item.
LEMMA RelatedName ==
  ASSUME NEW name, name \notin Operators \cup Relations,
         NEW relation \in Relations, NEW f, f.key = <<relation, name>>, NEW t
  PROVE  /\ InTable(f) <=> Known(f)
         /\ HoldsOf(f, t) <=> Meant(f, t)
<1>1. Resolve(f.key) = [model |-> "item", field |-> name, op |-> "eq"]
  BY DEF Resolve, Last
<1>2. Path(f.key) = <<relation, name>> /\ Last(f.key) = name
  BY DEF Path, Last
<1>. QED
  BY <1>1, <1>2 DEF InTable, Known, HoldsOf, Meant, Condition, Test, Columns, Operators

\* An operator after them both is taken for the name of the column.
LEMMA OperatorAsName ==
  ASSUME NEW name, name \notin Operators \cup Relations,
         NEW relation \in Relations, NEW op \in Operators,
         NEW f, f.key = <<relation, name, op>>
  PROVE  ~InTable(f)
<1>1. Resolve(f.key) = [model |-> "item", field |-> op, op |-> "eq"]
  BY DEF Resolve, Last
<1>. QED  BY <1>1 DEF InTable, Columns, Operators

LEMMA Understood ==
  ASSUME NEW query \in Queries, NEW f \in query, NEW t
  PROVE  /\ Len(f.key) < 3 => (InTable(f) <=> Known(f)) /\ (HoldsOf(f, t) <=> Meant(f, t))
         /\ ~ (Len(f.key) < 3) => ~InTable(f)
<1>1. PICK name : name \notin Operators \cup Relations /\ f.key \in Keys(name)
  BY FilterAssumption
<1>2. ASSUME f.key \in {<<name>>} \cup {<<name, op>> : op \in Operators}
      PROVE  Len(f.key) < 3 /\ (InTable(f) <=> Known(f)) /\ (HoldsOf(f, t) <=> Meant(f, t))
  <2>1. Len(f.key) < 3
    <3>1. Len(<<name>>) < 3 /\ \A op : Len(<<name, op>>) < 3
      OBVIOUS
    <3>. QED  BY <1>2, <3>1
  <2>. QED  BY <1>1, <1>2, <2>1, OwnName
<1>3. ASSUME NEW relation \in Relations, f.key = <<relation, name>>
      PROVE  Len(f.key) < 3 /\ (InTable(f) <=> Known(f)) /\ (HoldsOf(f, t) <=> Meant(f, t))
  BY <1>1, <1>3, RelatedName
<1>4. ASSUME NEW relation \in Relations, NEW op \in Operators, f.key = <<relation, name, op>>
      PROVE  ~InTable(f) /\ ~ (Len(f.key) < 3)
  BY <1>1, <1>4, OperatorAsName
<1>5. \/ f.key \in {<<name>>} \cup {<<name, op>> : op \in Operators}
      \/ \E relation \in Relations : f.key = <<relation, name>>
      \/ \E relation \in Relations, op \in Operators : f.key = <<relation, name, op>>
  BY <1>1 DEF Keys
<1>. QED  BY <1>2, <1>3, <1>4, <1>5

\* The conditions of a query, those of the item joined, test what each kept
\* filter says of a ticket.
LEMMA SelectedByFilters ==
  ASSUME NEW query \in Queries
  PROVE  Selected(work, query) = {t \in Rows(work) : \A f \in query : Kept(f) => HoldsOf(f, t)}
<1>1. Conditions(query) = {Condition(f) : f \in {g \in query : Kept(g)}}
  BY DEF Conditions, Condition, Kept, InTable
<1>2. \A f \in query : Condition(f).at = Resolve(f.key) /\ Resolve(f.key).model \in {"ticket", "item"}
  BY DEF Condition, Resolve
<1>3. /\ Own[query] = {c \in Conditions(query) : c.at.model = "ticket"}
      /\ Related[query] = Conditions(query) \ Own[query]
  BY DEF Own, Related
<1>4. ASSUME NEW t
      PROVE  (/\ \A c \in Own[query] : Test(c, Column(work, t, c.at.field))
              /\ \A c \in Related[query] : Test(c, ItemColumn(ItemOf[t], c.at.field)))
             <=> \A f \in query : Kept(f) => HoldsOf(f, t)
  <2> DEFINE TestOf(c) == Test(c, IF c.at.model = "item" THEN ItemColumn(ItemOf[t], c.at.field)
                                  ELSE Column(work, t, c.at.field))
  <2>1. \A f \in query : HoldsOf(f, t) <=> TestOf(Condition(f))
    BY <1>2 DEF HoldsOf
  <2>2. (\A f \in query : Kept(f) => HoldsOf(f, t)) <=> \A c \in Conditions(query) : TestOf(c)
    <3> HIDE DEF TestOf
    <3>. QED  BY <1>1, <2>1
  <2>3. \A c \in Conditions(query) : c.at.model \in {"ticket", "item"}
    BY <1>1, <1>2
  <2>4. \A c \in Own[query] : c.at.model = "ticket"
    BY <1>3
  <2>5. \A c \in Related[query] : c.at.model = "item"
    BY <1>3, <2>3
  <2>. QED  BY <1>3, <2>2, <2>4, <2>5
<1>. QED  BY <1>4 DEF Selected, MeetsOwn

LEMMA FiltersWiden == DroppedFiltersWiden
<1> SUFFICES ASSUME NEW query \in Queries
             PROVE  LET clear == {f \in query : ~f.null /\ Known(f)}
                        meant == {t \in Rows(work) : \A f \in clear : Meant(f, t)}
                    IN  /\ meant \subseteq Selected(work, query)
                        /\ (\A f \in clear : Len(f.key) < 3) => Selected(work, query) = meant
  BY DEF DroppedFiltersWiden
<1> DEFINE clear == {f \in query : ~f.null /\ Known(f)}
           meant == {t \in Rows(work) : \A f \in clear : Meant(f, t)}
<1>1. \A f \in query : Kept(f) => f \in clear /\ Len(f.key) < 3
  BY Understood DEF Kept
<1>2. \A f \in query : \A t : Kept(f) => (HoldsOf(f, t) <=> Meant(f, t))
  BY <1>1, Understood
<1>3. meant \subseteq Selected(work, query)
  BY <1>1, <1>2, SelectedByFilters
<1>4. ASSUME \A f \in clear : Len(f.key) < 3 PROVE Selected(work, query) = meant
  <2>1. \A f \in clear : f \in query /\ Kept(f)
    BY <1>4, Understood DEF Kept
  <2>. QED  BY <1>2, <1>3, <2>1, SelectedByFilters
<1>. QED  BY <1>3, <1>4

-----------------------------------------------------------------------------
(* What the statements do with them *)

\* The rows of a query come in an order in which each has one place.
LEMMA RowsInOrder ==
  ASSUME NEW S, IsFiniteSet(S)
  PROVE  /\ SetToSeq(S) \in [1 .. Cardinality(S) -> S]
         /\ \A x \in S : \E i \in 1 .. Cardinality(S) : SetToSeq(S)[i] = x
<1> DEFINE n == Cardinality(S)
           s == SetToSeq(S)
<1>1. n \in Nat /\ ExistsBijection(1 .. n, S)
  BY FS_CardinalityType
<1>2. \E f \in [1 .. n -> S] : IsInjective(f)
  BY <1>1 DEF ExistsBijection, Bijection, Injection
<1>3. s \in [1 .. n -> S] /\ IsInjective(s)
  BY <1>2 DEF SetToSeq
<1>4. Cardinality(1 .. n) = n
  BY <1>1, FS_Interval
<1>5. s \in Surjection(1 .. n, S)
  <2> HIDE DEF s
  <2>1. s \in Injection(1 .. n, S)
    BY <1>3 DEF Injection
  <2>. QED  BY <1>4, <2>1, FS_Injection
<1>. QED  BY <1>3, <1>5 DEF Surjection

LEMMA SelectedFinite ==
  ASSUME NEW query \in Queries
  PROVE  /\ Selected(work, query) \subseteq Tickets
         /\ IsFiniteSet(Selected(work, query))
         /\ Cardinality(Selected(work, query)) \in Nat
         /\ Cardinality(Tickets) \in Nat
         /\ Cardinality(Selected(work, query)) <= Cardinality(Tickets)
<1>1. Selected(work, query) \in SUBSET Tickets
  BY DEF Selected, MeetsOwn, Rows
<1>2. IsFiniteSet(Tickets)
  BY DataLayerAssumption
<1>. QED  BY <1>1, <1>2, FS_Subset, FS_CardinalityType

\* A page of one row.
LEMMA PageOfOne ==
  ASSUME NEW query \in Queries, NEW n \in Nat
  PROVE  LET all == Selected(work, query)
             page == Paginate(work, query, n, 1)
         IN  IF n < Cardinality(all)
               THEN Range(page.page) = {SetToSeq(all)[n + 1]} /\ page.total = Cardinality(all)
               ELSE Range(page.page) = {} /\ page.total = 0
<1> DEFINE all == Selected(work, query)
           N == Cardinality(all)
           rows == SetToSeq(all)
           slice == Slice(rows, n, 1)
<1>1. N \in Nat /\ IsFiniteSet(all)
  BY SelectedFinite
<1>2. rows \in [1 .. N -> all]
  BY <1>1, RowsInOrder
<1>3. Len(rows) = N
  BY <1>1, <1>2, FunctionIsSeq
<1> HIDE DEF all, N, rows
<1>4. slice = [i \in 1 .. (IF N - n < 1 THEN N - n ELSE 1) |-> rows[n + i]]
  BY <1>3 DEF Slice
<1>5. CASE n < N
  <2>1. 1 .. (IF N - n < 1 THEN N - n ELSE 1) = {1}
    BY <1>1, <1>5
  <2> HIDE DEF slice
  <2>2. DOMAIN slice = {1} /\ slice[1] = rows[n + 1]
    BY <1>4, <2>1
  <2>3. Range(slice) = {rows[n + 1]} /\ slice # <<>>
    BY <2>2 DEF Range
  <2>. QED  BY <1>5, <2>3 DEF Paginate, Count, all, N, rows, slice
<1>6. CASE ~ (n < N)
  <2>1. 1 .. (IF N - n < 1 THEN N - n ELSE 1) = {}
    BY <1>1, <1>6
  <2> HIDE DEF slice
  <2>2. DOMAIN slice = {} /\ slice \in [1 .. 0 -> all]
    BY <1>4, <2>1
  <2>3. Range(slice) = {}
    BY <2>2 DEF Range
  <2>4. slice = <<>>
    BY <2>2, FunctionIsSeq, EmptySeq
  <2>. QED  BY <1>6, <2>3, <2>4 DEF Paginate, all, N, rows, slice
<1>. QED  BY <1>5, <1>6

LEMMA StatementsAgree == EveryStatementMeansTheSameRows
<1> SUFFICES ASSUME NEW query \in Queries
             PROVE  LET all == Selected(work, query)
                        Page(n) == Paginate(work, query, n, 1)
                    IN  /\ Deleted(work, query) = all
                        /\ all \subseteq Updated(work, query)
                        /\ Related[query] = {} => Updated(work, query) = all
                        /\ Exists(work, query) = (Count(work, query) > 0)
                        /\ Get(work, query) # Nothing <=> Count(work, query) = 1
                        /\ \A n \in 0..Cardinality(Tickets) :
                             Page(n).total = IF n < Cardinality(all) THEN Cardinality(all) ELSE 0
                        /\ UNION {Range(Page(n).page) : n \in 0..Cardinality(Tickets)} = all
  BY DEF EveryStatementMeansTheSameRows
<1> DEFINE all == Selected(work, query)
           Page(n) == Paginate(work, query, n, 1)
<1>1. /\ all \subseteq Tickets /\ IsFiniteSet(all) /\ Cardinality(all) \in Nat
      /\ Cardinality(Tickets) \in Nat /\ Cardinality(all) <= Cardinality(Tickets)
  BY SelectedFinite
<1>2. \A t \in MeetsOwn(work, query) : t \in Tickets /\ ItemOf[t] \in Items
  BY DataLayerAssumption DEF MeetsOwn, Rows
<1>3. Deleted(work, query) = all
  BY <1>2 DEF Deleted, Selected
<1>4. all \subseteq Updated(work, query)
  BY <1>2 DEF Updated, Selected
<1>5. Related[query] = {} => Updated(work, query) = all
  BY <1>2 DEF Updated, Selected
<1>6. Exists(work, query) = (Count(work, query) > 0)
  <2>1. Cardinality(all) = 0 <=> all = {}
    BY <1>1, FS_EmptySet
  <2>. QED  BY <1>1, <2>1 DEF Exists, Count
<1>7. Get(work, query) # Nothing <=> Count(work, query) = 1
  <2>1. ASSUME Cardinality(all) = 1 PROVE (CHOOSE t \in all : TRUE) # Nothing
    <3>1. all # {}
      BY <1>1, <2>1, FS_EmptySet
    <3>. QED  BY <1>1, <3>1, DataLayerAssumption
  <2>. QED  BY <2>1 DEF Get, Count
<1>8. \A n \in 0 .. Cardinality(Tickets) :
        Page(n).total = IF n < Cardinality(all) THEN Cardinality(all) ELSE 0
  BY PageOfOne
<1>9. UNION {Range(Page(n).page) : n \in 0 .. Cardinality(Tickets)} = all
  <2>1. ASSUME NEW n \in 0 .. Cardinality(Tickets) PROVE Range(Page(n).page) \subseteq all
    <3>1. CASE n < Cardinality(all)
      <4>1. n + 1 \in 1 .. Cardinality(all)
        BY <1>1, <3>1
      <4>2. SetToSeq(all)[n + 1] \in all
        BY <1>1, <4>1, RowsInOrder
      <4>. QED  BY <3>1, <4>2, PageOfOne
    <3>2. CASE ~ (n < Cardinality(all))
      BY <3>2, PageOfOne
    <3>. QED  BY <3>1, <3>2
  <2>2. ASSUME NEW t \in all PROVE \E n \in 0 .. Cardinality(Tickets) : t \in Range(Page(n).page)
    <3>1. PICK i \in 1 .. Cardinality(all) : SetToSeq(all)[i] = t
      BY <1>1, RowsInOrder
    <3> DEFINE n == i - 1
    <3>2. n \in Nat /\ n < Cardinality(all) /\ n + 1 = i /\ n \in 0 .. Cardinality(Tickets)
      BY <1>1
    <3> HIDE DEF n
    <3>3. Range(Page(n).page) = {SetToSeq(all)[n + 1]}
      BY <3>2, PageOfOne
    <3>. QED  BY <3>1, <3>2, <3>3
  <2>. QED  BY <2>1, <2>2
<1>. QED  BY <1>3, <1>4, <1>5, <1>6, <1>7, <1>8, <1>9

-----------------------------------------------------------------------------
(* Theorems *)

\* Every variable keeps its type, and a session is open exactly while blocks
\* run, unless one could not be entered.
THEOREM UnitOfWorkTypeCorrect == Spec => []TypeOK
<1>1. BlocksInv => TypeOK
  BY DEF BlocksInv
<1>. QED  BY <1>1, BlocksInvariance, PTL

\* However deep blocks nest, and whatever they raise and catch, the depth,
\* the mode and the savepoints of the unit of work are those of the blocks that
\* run.
THEOREM BookkeepingIsRight == Spec => []BookkeepingFollowsBlocks
<1>1. BlocksInv => BookkeepingFollowsBlocks
  BY DEF BlocksInv
<1>. QED  BY <1>1, BlocksInvariance, PTL

\* A block that fails takes back all its statements, unless it was committed
\* or the transaction is given up.
THEOREM FailureUndoesABlock == Spec => FailedBlockIsUndone
<1>1. BlocksInv /\ [Next]_vars =>
        [ Len(blocks') < Len(blocks) /\ raising' /\ session = "write" /\ ~leaked =>
            Last(blocks).committed \/ aborted' \/ work' = Last(blocks).table ]_vars
  BY UndoStep
<1>. QED  BY <1>1, BlocksInvariance, PTL DEF Spec, FailedBlockIsUndone

\* A filter the builder does not understand finds more rows, never other ones.
THEOREM FiltersOnlyWiden == Spec => []DroppedFiltersWiden
BY FiltersWiden, PTL

\* all(), get(), exists(), count(), the pages, delete() and update() agree on
\* the rows a query is about.
THEOREM StatementsMeanTheSameRows == Spec => []EveryStatementMeansTheSameRows
BY StatementsAgree, PTL
=============================================================================
