-------------------------- MODULE MergeProofs ----------------------------
(***************************************************************************)
(* Proofs about the merges, for every set of archives, whatever their      *)
(* directories hold, and all bands.  A band merge that succeeds has        *)
(* written of each tile the copies of exactly the bands that have it, no   *)
(* layer twice, and an archive that is called out of order is.  A shard    *)
(* merge that succeeds has written the union of its archives, by id, and   *)
(* the two archives a refusal names are to blame.  Both rest on one        *)
(* invariant of the stream they read (StreamInv).                          *)
(***************************************************************************)
EXTENDS BandMerge, ShardMerge, FiniteSetTheorems, WellFoundedInduction, TLAPS

\* What a merge is given, and what stands for the absence of a value.
Given ==
  /\ SizesAssumption
  /\ None \notin Nat
  /\ \A s, i : None \notin {Tile(s, i), Fault(s), End}
  /\ \A k, s, t, i : None \notin {[kind |-> k, source |-> s], [kind |-> "done"],
                       [kind |-> k, first |-> s, second |-> t, id |-> i]}

-----------------------------------------------------------------------------
(* Positions in a directory *)

Pos(s)  == <<cursor[s].entry, cursor[s].taken>>
Fore(s) == <<Upcoming(s).entry, Upcoming(s).taken>>

\* At the start, or at a tile of the directory.
Placed(s) == Pos(s) = <<0, 0>> \/ Pos(s) \in Claims(s)

\* The tiles up to the cursor.
Passed(s) == {c \in Claims(s) : ~Before(Pos(s), c)}

CursorType == cursor \in [Sources -> [entry : Nat, taken : Nat]]

LEMMA EntryType ==
  ASSUME Given, dir \in Archives, NEW s \in Sources
  PROVE  /\ N \in Nat /\ Len(dir[s]) \in Nat
         /\ \A e \in 1..Len(dir[s]) :
              /\ dir[s][e].id \in Nat /\ dir[s][e].run \in Nat \ {0}
              /\ dir[s][e].inside \in BOOLEAN
<1>1. dir \in Seq(Seq(Entry))
  BY DEF Given, SizesAssumption
<1>2. dir[s] \in Seq(Entry) /\ N \in Nat
  BY <1>1 DEF Sources, N
<1>3. ASSUME NEW e \in 1..Len(dir[s])  PROVE dir[s][e] \in Entry
  BY <1>2
<1> QED  BY <1>2, <1>3 DEF Entry

LEMMA ClaimType ==
  ASSUME NEW s, NEW c
  PROVE  c \in Claims(s) <=>
           \E e \in 1..Len(dir[s]) : \E k \in 1..dir[s][e].run : c = <<e, k>>
BY DEF Claims

\* A step of the iterator goes to the next tile, and there is none if it is
\* exhausted.
LEMMA Stepping ==
  ASSUME Given, dir \in Archives, CursorType, NEW s \in Sources, Placed(s)
  PROVE  /\ Upcoming(s) \in [entry : Nat, taken : Nat]
         /\ ~Exhausted(s) =>
              /\ Fore(s) \in Claims(s) /\ Before(Pos(s), Fore(s))
              /\ IdAt(s, Upcoming(s)) = IdOf(s, Fore(s))
              /\ IdOf(s, Fore(s)) \in Nat
         /\ \A c \in Claims(s) :
              Before(Pos(s), c) <=> ~Exhausted(s) /\ ~Before(c, Fore(s))
         /\ Exhausted(s) => \A c \in Claims(s) : ~Before(Fore(s), c)
<1> DEFINE d == dir[s]
           e == cursor[s].entry
           k == cursor[s].taken
<1>1. /\ e \in Nat /\ k \in Nat /\ cursor[s] = [entry |-> e, taken |-> k]
      /\ Len(d) \in Nat
      /\ \A f \in 1..Len(d) : d[f].id \in Nat /\ d[f].run \in Nat \ {0}
  BY EntryType DEF CursorType
<1>2. (e = 0 /\ k = 0) \/ (e \in 1..Len(d) /\ k \in 1..d[e].run)
  BY ClaimType DEF Placed, Pos
<1>3. CASE e # 0 /\ k < d[e].run
  <2>1. Upcoming(s) = [entry |-> e, taken |-> k + 1]
    BY <1>1, <1>3 DEF Upcoming
  <2>2. e \in 1..Len(d) /\ k + 1 \in 1..d[e].run /\ ~Exhausted(s)
    BY <1>1, <1>2, <1>3, <2>1 DEF Exhausted
  <2>3. Fore(s) = <<e, k + 1>> /\ Pos(s) = <<e, k>>
    BY <2>1 DEF Fore, Pos
  <2>4. Fore(s) \in Claims(s)
    BY <2>2, <2>3, ClaimType
  <2>5. ASSUME NEW c \in Claims(s)
        PROVE  Before(Pos(s), c) <=> ~Before(c, Fore(s))
    <3>1. PICK f \in 1..Len(d) : \E m \in 1..d[f].run : c = <<f, m>>
      BY ClaimType
    <3>2. PICK m \in 1..d[f].run : c = <<f, m>>
      BY <3>1
    <3> QED  BY <1>1, <2>3, <3>1, <3>2 DEF Before
  <2> QED  BY <1>1, <2>1, <2>2, <2>3, <2>4, <2>5 DEF Before, IdAt, IdOf
<1>4. CASE ~(e # 0 /\ k < d[e].run)
  <2>1. Upcoming(s) = [entry |-> e + 1, taken |-> 1]
    BY <1>1, <1>4 DEF Upcoming
  <2>2. Fore(s) = <<e + 1, 1>> /\ Pos(s) = <<e, k>>
    BY <2>1 DEF Fore, Pos
  <2>3. e # 0 => k = d[e].run
    BY <1>1, <1>2, <1>4
  <2>4. Exhausted(s) <=> e + 1 > Len(d)
    BY <2>1 DEF Exhausted
  <2>5. ~Exhausted(s) => Fore(s) \in Claims(s) /\ IdOf(s, Fore(s)) \in Nat
    <3>1. SUFFICES ASSUME ~Exhausted(s)
                   PROVE  Fore(s) \in Claims(s) /\ IdOf(s, Fore(s)) \in Nat
      OBVIOUS
    <3>2. e + 1 \in 1..Len(d)
      BY <1>1, <2>4, <3>1
    <3>3. d[e + 1].id \in Nat /\ 1 \in 1..d[e + 1].run
      BY <1>1, <3>2
    <3>4. Fore(s) \in Claims(s)
      BY <2>2, <3>2, <3>3, ClaimType
    <3> QED  BY <2>2, <3>3, <3>4 DEF IdOf
  <2>6. ASSUME NEW c \in Claims(s)
        PROVE  /\ Before(Pos(s), c) <=> ~Exhausted(s) /\ ~Before(c, Fore(s))
               /\ Exhausted(s) => ~Before(Fore(s), c)
    <3>1. PICK f \in 1..Len(d) : \E m \in 1..d[f].run : c = <<f, m>>
      BY ClaimType
    <3>2. PICK m \in 1..d[f].run : c = <<f, m>>
      BY <3>1
    <3>3. m \in Nat /\ m >= 1 /\ (f = e => m <= k)
      BY <1>1, <2>3, <3>1, <3>2
    <3>4. Before(Pos(s), c) <=> e < f
      BY <1>1, <2>2, <3>2, <3>3 DEF Before
    <3>5. Before(c, Fore(s)) <=> f < e + 1
      BY <1>1, <2>2, <3>2, <3>3 DEF Before
    <3>6. Before(Fore(s), c) => e + 1 <= f
      BY <1>1, <2>2, <3>2, <3>3 DEF Before
    <3> QED  BY <1>1, <2>4, <3>1, <3>4, <3>5, <3>6
  <2> QED  BY <1>1, <2>1, <2>2, <2>5, <2>6 DEF Before, IdAt, IdOf
<1> QED  BY <1>3, <1>4

LEMMA BeforeOrder ==
  ASSUME NEW c \in Nat \X Nat, NEW d \in Nat \X Nat, NEW e \in Nat \X Nat
  PROVE  /\ ~Before(c, c)
         /\ Before(c, d) \/ c = d \/ Before(d, c)
         /\ ~(Before(c, d) /\ Before(d, c))
         /\ Before(c, d) /\ Before(d, e) => Before(c, e)
<1>1. /\ c[1] \in Nat /\ c[2] \in Nat /\ c = <<c[1], c[2]>>
      /\ d[1] \in Nat /\ d[2] \in Nat /\ d = <<d[1], d[2]>>
      /\ e[1] \in Nat /\ e[2] \in Nat
  OBVIOUS
<1> QED  BY <1>1 DEF Before

LEMMA ClaimPairs ==
  ASSUME Given, dir \in Archives, NEW s \in Sources
  PROVE  Claims(s) \subseteq Nat \X Nat
<1>1. ASSUME NEW c \in Claims(s)  PROVE c \in Nat \X Nat
  <2>1. PICK e \in 1..Len(dir[s]) : \E k \in 1..dir[s][e].run : c = <<e, k>>
    BY ClaimType
  <2>2. PICK k \in 1..dir[s][e].run : c = <<e, k>>
    BY <2>1
  <2>3. e \in Nat /\ k \in Nat
    BY EntryType
  <2> QED  BY <2>2, <2>3
<1> QED  BY <1>1

LEMMA PosPair ==
  ASSUME CursorType, NEW s \in Sources
  PROVE  Pos(s) \in Nat \X Nat
BY DEF CursorType, Pos

\* The directories are never written, nor is what is said of them.
LEMMA DirFixed ==
  ASSUME dir' = dir
  PROVE  /\ Sources' = Sources /\ N' = N
         /\ \A s : /\ Claims(s)' = Claims(s) /\ Readable(s)' = Readable(s)
                   /\ ReadableIds(s)' = ReadableIds(s) /\ InTurn(s)' = InTurn(s)
         /\ \A s, c : /\ IdOf(s, c)' = IdOf(s, c)
                      /\ Unreadable(s, c)' = Unreadable(s, c)
                      /\ OutOfTurn(s, c)' = OutOfTurn(s, c)
<1>1. /\ Sources' = Sources /\ N' = N
      /\ \A s : /\ Claims(s)' = Claims(s) /\ Readable(s)' = Readable(s)
      /\ \A s, c : /\ IdOf(s, c)' = IdOf(s, c)
                   /\ Unreadable(s, c)' = Unreadable(s, c)
  BY DEF Sources, N, Claims, Readable, IdOf, Unreadable
<1>2. \A s : ReadableIds(s)' = ReadableIds(s)
  BY <1>1 DEF ReadableIds
<1>3. \A s : InTurn(s)' = InTurn(s)
  BY <1>1 DEF InTurn, Before
<1>4. \A s, c : OutOfTurn(s, c)' = OutOfTurn(s, c)
  BY <1>1 DEF OutOfTurn, Before
<1> QED  BY <1>1, <1>2, <1>3, <1>4

-----------------------------------------------------------------------------
(* The stream *)

Held   == given # None /\ given.kind = "tile"
Broken == pending # None \/ (given # None /\ given.kind = "fault")

\* Its directory lists an id twice, or one below an earlier one.
Bad(s) == \E c, d \in Readable(s) : Before(c, d) /\ IdOf(s, d) <= IdOf(s, c)

\* What the heads are after tile i of archive s was handed out: those of the
\* others come after it, and its own too unless its directory is at fault.
Last(s, i) ==
  /\ \A t \in Sources \ {s} :
       heads[t] # None => i < heads[t] \/ (i = heads[t] /\ s < t)
  /\ heads[s] # None /\ heads[s] <= i => Bad(s)

\* Of one archive: nothing up to the cursor is wrong, the head is the tile at
\* the cursor, and there is one while there is a tile to come.
SourceInv(s) ==
  /\ Placed(s) \/ (primed /\ heads[s] = None)
  /\ \A c \in Passed(s) : ~Unreadable(s, c)
  /\ heads[s] # None => \E c \in Passed(s) : c = Pos(s) /\ heads[s] = IdOf(s, c)
  /\ primed => heads[s] # None \/ Passed(s) = Claims(s) \/ Broken

StreamInv ==
  /\ dir \in Archives /\ CursorType
  /\ heads \in [Sources -> 0..(Top - 1) \cup {None}]
  /\ \A s \in Sources : SourceInv(s)
  /\ Held => /\ primed
             /\ \E s \in Sources, i \in 0..(Top - 1) : given = Tile(s, i) /\ Last(s, i)
  /\ given = End => /\ primed /\ pending = None
                    /\ \A s \in Sources : heads[s] = None

\* What is known of an archive once it was asked for its next tile.
LEMMA Walked ==
  ASSUME Given, dir \in Archives, dir' = dir, CursorType,
         NEW s \in Sources, Placed(s), ~Faulty(s), cursor'[s] = Upcoming(s)
  PROVE  /\ cursor'[s] \in [entry : Nat, taken : Nat]
         /\ Ahead(s) \in 0..(Top - 1) \cup {None}
         /\ Exhausted(s) => /\ Ahead(s) = None
                            /\ Passed(s) = Claims(s) /\ Passed(s)' = Claims(s)
         /\ ~Exhausted(s) =>
              /\ Pos(s)' = Fore(s) /\ Fore(s) \in Claims(s)
              /\ Before(Pos(s), Fore(s))
              /\ Passed(s)' = Passed(s) \cup {Fore(s)}
              /\ ~Unreadable(s, Fore(s))
              /\ Ahead(s) = IdOf(s, Fore(s)) /\ Ahead(s) \in 0..(Top - 1)
              /\ \A c \in Passed(s) : Before(c, Fore(s))
<1>1. /\ Upcoming(s) \in [entry : Nat, taken : Nat]
      /\ ~Exhausted(s) =>
           /\ Fore(s) \in Claims(s) /\ Before(Pos(s), Fore(s))
           /\ IdAt(s, Upcoming(s)) = IdOf(s, Fore(s))
           /\ IdOf(s, Fore(s)) \in Nat
      /\ \A c \in Claims(s) :
           Before(Pos(s), c) <=> ~Exhausted(s) /\ ~Before(c, Fore(s))
      /\ Exhausted(s) => \A c \in Claims(s) : ~Before(Fore(s), c)
  BY Stepping
<1>2. Pos(s)' = Fore(s)
  BY DEF Pos, Fore
<1>3. Passed(s)' = {c \in Claims(s) : ~Before(Fore(s), c)}
  BY <1>2, DirFixed DEF Passed, Before
<1>4. CASE Exhausted(s)
  BY <1>1, <1>3, <1>4 DEF Passed, Ahead
<1>5. CASE ~Exhausted(s)
  <2>1. Claims(s) \subseteq Nat \X Nat
    BY ClaimPairs
  <2>2. \A c \in Claims(s) : ~Before(Fore(s), c) <=> c = Fore(s) \/ Before(c, Fore(s))
    BY <1>1, <1>5, <2>1, BeforeOrder
  <2>3. Passed(s)' = Passed(s) \cup {Fore(s)}
    BY <1>1, <1>3, <1>5, <2>2 DEF Passed
  <2>4. /\ dir[s][Upcoming(s).entry].inside
        /\ ~(Spent(dir[s], Upcoming(s).entry) > Limit)
        /\ ~(IdAt(s, Upcoming(s)) >= Top)
    BY <1>5 DEF Faulty
  <2>5. ~Unreadable(s, Fore(s))
    BY <1>1, <1>5, <2>4 DEF Unreadable, Fore
  <2>6. Ahead(s) = IdOf(s, Fore(s)) /\ Ahead(s) \in 0..(Top - 1)
    <3>1. Ahead(s) = IdAt(s, Upcoming(s))
      BY <1>5 DEF Ahead
    <3>2. Top \in Nat
      BY DEF Given, SizesAssumption
    <3> QED  BY <1>1, <1>5, <2>4, <3>1, <3>2
  <2>7. \A c \in Passed(s) : Before(c, Fore(s))
    BY <1>1, <1>5 DEF Passed
  <2> QED  BY <1>1, <1>2, <1>5, <2>3, <2>5, <2>6, <2>7
<1> QED  BY <1>4, <1>5

\* The tiles up to the cursor come before anything that is wrong.
LEMMA PassedReadable ==
  ASSUME Given, StreamInv, NEW s \in Sources
  PROVE  /\ Passed(s) \subseteq Readable(s)
         /\ Passed(s) = Claims(s) => Readable(s) = Claims(s)
<1>1. Claims(s) \subseteq Nat \X Nat /\ Pos(s) \in Nat \X Nat
  BY ClaimPairs, PosPair DEF StreamInv
<1>2. ASSUME NEW c \in Passed(s), NEW d \in Claims(s), Unreadable(s, d)
      PROVE  Before(c, d)
  <2>1. Before(Pos(s), d)
    BY <1>2 DEF StreamInv, SourceInv, Passed
  <2>2. c = Pos(s) \/ Before(c, Pos(s))
    BY <1>1, BeforeOrder DEF Passed
  <2>3. c \in Nat \X Nat /\ d \in Nat \X Nat
    BY <1>1 DEF Passed
  <2> QED  BY <1>1, <2>1, <2>2, <2>3, BeforeOrder
<1>3. Passed(s) \subseteq Readable(s)
  BY <1>2 DEF Readable, Passed
<1> QED  BY <1>3 DEF Readable

\* The tile an archive gives next comes right behind those it gave.
LEMMA Ensuing ==
  ASSUME Given, dir \in Archives, CursorType, NEW s \in Sources, Placed(s),
         ~Faulty(s), ~Exhausted(s)
  PROVE  /\ Fore(s) \in Claims(s) /\ ~Unreadable(s, Fore(s))
         /\ Ahead(s) = IdOf(s, Fore(s)) /\ Ahead(s) \in 0..(Top - 1)
         /\ \A c \in Passed(s) : Before(c, Fore(s))
         /\ \A d \in Claims(s) : d \in Passed(s) \/ d = Fore(s) \/ Before(Fore(s), d)
<1>1. /\ Fore(s) \in Claims(s) /\ Before(Pos(s), Fore(s))
      /\ IdAt(s, Upcoming(s)) = IdOf(s, Fore(s))
      /\ IdOf(s, Fore(s)) \in Nat
      /\ \A c \in Claims(s) : Before(Pos(s), c) <=> ~Before(c, Fore(s))
  BY Stepping
<1>2. Claims(s) \subseteq Nat \X Nat
  BY ClaimPairs
<1>3. ~Unreadable(s, Fore(s)) /\ ~(IdAt(s, Upcoming(s)) >= Top)
  BY <1>1 DEF Unreadable, Fore, Faulty
<1>4. Ahead(s) = IdOf(s, Fore(s)) /\ Ahead(s) \in 0..(Top - 1)
  <2>1. Ahead(s) = IdAt(s, Upcoming(s))
    BY DEF Ahead
  <2>2. Top \in Nat
    BY DEF Given, SizesAssumption
  <2> QED  BY <1>1, <1>3, <2>1, <2>2
<1>5. ASSUME NEW d \in Claims(s)
      PROVE  d \in Passed(s) \/ d = Fore(s) \/ Before(Fore(s), d)
  <2>1. d \in Nat \X Nat /\ Fore(s) \in Nat \X Nat
    BY <1>1, <1>2
  <2> QED  BY <1>1, <2>1, BeforeOrder DEF Passed
<1> QED  BY <1>1, <1>3, <1>4, <1>5 DEF Passed

\* An archive whose next id is no greater than one it gave is at fault.
LEMMA Descent ==
  ASSUME Given, StreamInv, NEW s \in Sources, Placed(s), ~Faulty(s),
         ~Exhausted(s), NEW c \in Passed(s), Ahead(s) <= IdOf(s, c)
  PROVE  Bad(s)
<1>1. /\ Fore(s) \in Claims(s) /\ ~Unreadable(s, Fore(s))
      /\ Ahead(s) = IdOf(s, Fore(s)) /\ Before(c, Fore(s))
      /\ \A d \in Claims(s) : d \in Passed(s) \/ d = Fore(s) \/ Before(Fore(s), d)
  BY Ensuing DEF StreamInv
<1>2. Fore(s) \in Readable(s)
  BY <1>1 DEF Readable, StreamInv, SourceInv
<1>3. c \in Readable(s)
  BY PassedReadable
<1> QED  BY <1>1, <1>2, <1>3 DEF Bad

LEMMA SourceKept ==
  ASSUME dir' = dir, primed' = primed, Broken => Broken', NEW s,
         cursor'[s] = cursor[s], heads'[s] = heads[s], SourceInv(s)
  PROVE  SourceInv(s)'
<1>1. /\ Claims(s)' = Claims(s)
      /\ \A c : Unreadable(s, c)' = Unreadable(s, c) /\ IdOf(s, c)' = IdOf(s, c)
  BY DirFixed
<1>2. Pos(s)' = Pos(s)
  BY DEF Pos
<1>3. Passed(s)' = Passed(s) /\ Placed(s)' = Placed(s)
  BY <1>1, <1>2 DEF Passed, Placed, Before
<1>4. heads'[s] # None => \E c \in Passed(s)' : c = Pos(s)' /\ heads'[s] = IdOf(s, c)'
  BY <1>1, <1>2, <1>3 DEF SourceInv
<1>5. \A c \in Passed(s)' : ~Unreadable(s, c)'
  BY <1>1, <1>3 DEF SourceInv
<1> QED  BY <1>1, <1>3, <1>4, <1>5 DEF SourceInv

LEMMA SourceWalked ==
  ASSUME Given, dir \in Archives, dir' = dir, CursorType, NEW s \in Sources,
         SourceInv(s), Placed(s), ~Faulty(s), cursor'[s] = Upcoming(s),
         \/ primed' /\ heads'[s] = Ahead(s)
         \/ ~primed' /\ heads'[s] = None /\ ~Exhausted(s)
  PROVE  SourceInv(s)'
<1>1. /\ Claims(s)' = Claims(s)
      /\ \A c : Unreadable(s, c)' = Unreadable(s, c) /\ IdOf(s, c)' = IdOf(s, c)
  BY DirFixed
<1>2. CASE Exhausted(s)
  <2>1. Ahead(s) = None /\ Passed(s) = Claims(s) /\ Passed(s)' = Claims(s)
    BY <1>2, Walked
  <2>2. \A c \in Passed(s)' : ~Unreadable(s, c)'
    BY <1>1, <2>1 DEF SourceInv
  <2>3. primed' /\ heads'[s] = None
    BY <1>2, <2>1
  <2> QED  BY <1>1, <2>1, <2>2, <2>3 DEF SourceInv
<1>3. CASE ~Exhausted(s)
  <2>1. /\ Pos(s)' = Fore(s) /\ Fore(s) \in Claims(s)
        /\ Passed(s)' = Passed(s) \cup {Fore(s)} /\ ~Unreadable(s, Fore(s))
        /\ Ahead(s) = IdOf(s, Fore(s)) /\ Ahead(s) \in 0..(Top - 1)
    BY <1>3, Walked
  <2>2. \A c \in Passed(s)' : ~Unreadable(s, c)'
    BY <1>1, <2>1 DEF SourceInv
  <2>3. Placed(s)'
    BY <1>1, <2>1 DEF Placed
  <2>4. heads'[s] # None => \E c \in Passed(s)' : c = Pos(s)' /\ heads'[s] = IdOf(s, c)'
    BY <1>1, <2>1
  <2>5. primed' => heads'[s] # None
    <3>1. Ahead(s) # None
      BY <2>1 DEF Given
    <3> QED  BY <3>1
  <2> QED  BY <2>2, <2>3, <2>4, <2>5 DEF SourceInv
<1> QED  BY <1>2, <1>3

LEMMA StartEmpty ==
  ASSUME Given, dir \in Archives, NEW s \in Sources, Pos(s) = <<0, 0>>
  PROVE  Passed(s) = {}
<1>1. ASSUME NEW c \in Claims(s)  PROVE Before(Pos(s), c)
  <2>1. PICK e \in 1..Len(dir[s]) : \E k \in 1..dir[s][e].run : c = <<e, k>>
    BY ClaimType
  <2>2. e \in Nat /\ e > 0
    BY EntryType
  <2> QED  BY <2>1, <2>2 DEF Before
<1> QED  BY <1>1 DEF Passed

LEMMA StreamInvInit == Given /\ StreamInit => StreamInv
<1> SUFFICES ASSUME Given, StreamInit  PROVE StreamInv
  OBVIOUS
<1>1. dir \in Archives /\ CursorType
      /\ heads \in [Sources -> 0..(Top - 1) \cup {None}]
  BY DEF StreamInit, CursorType
<1>2. given = None /\ ~primed
  BY DEF StreamInit
<1>3. ASSUME NEW s \in Sources  PROVE SourceInv(s)
  <2>1. Pos(s) = <<0, 0>> /\ heads[s] = None
    BY DEF StreamInit, Pos
  <2>2. Passed(s) = {}
    BY <1>1, <2>1, StartEmpty
  <2> QED  BY <1>2, <2>1, <2>2 DEF SourceInv, Placed
<1> QED  BY <1>1, <1>2, <1>3 DEF StreamInv, Held, Given

\* One call of the stream.
LEMMA StreamInvAdvance ==
  ASSUME Given, StreamInv, Advance
  PROVE  StreamInv'
<1> USE DEF iterator
<1>0. /\ dir' = dir /\ given = None /\ Sources' = Sources /\ ~Held
      /\ \A s : Bad(s)' = Bad(s)
      /\ None \notin {End}
  <2>1. dir' = dir /\ given = None
    BY DEF Advance, Prime, Pop, HandOutError, Dry
  <2> QED  BY <2>1, DirFixed DEF Held, Bad, Given, Before
<1>1. CASE Prime
  <2>1. ~primed /\ primed' /\ pending' = pending
    BY <1>1 DEF Prime
  <2>2. \A s \in Sources : Placed(s)
    BY <2>1 DEF StreamInv, SourceInv
  <2>3. CASE \E s \in Sources : Faulty(s)
    <3>1. heads' = heads /\ cursor' = cursor
      BY <1>1, <2>3 DEF Prime
    <3>2. PICK f : given' = Fault(f)
      BY <1>1, <2>3 DEF Prime
    <3>3. Broken' /\ ~Held' /\ given' # End
      BY <3>2 DEF Broken, Held, Fault, End, Given
    <3>4. ASSUME NEW s \in Sources  PROVE SourceInv(s)'
      <4>1. /\ Claims(s)' = Claims(s)
            /\ \A c : Unreadable(s, c)' = Unreadable(s, c) /\ IdOf(s, c)' = IdOf(s, c)
        BY <1>0, DirFixed
      <4>2. Pos(s)' = Pos(s)
        BY <3>1 DEF Pos
      <4>3. Passed(s)' = Passed(s) /\ Placed(s)' = Placed(s)
        BY <4>1, <4>2 DEF Passed, Placed, Before
      <4>4. heads'[s] # None => \E c \in Passed(s)' : c = Pos(s)' /\ heads'[s] = IdOf(s, c)'
        BY <3>1, <4>1, <4>2, <4>3 DEF StreamInv, SourceInv
      <4>5. \A c \in Passed(s)' : ~Unreadable(s, c)'
        BY <4>1, <4>3 DEF StreamInv, SourceInv
      <4> QED  BY <2>2, <3>3, <4>3, <4>4, <4>5 DEF SourceInv
    <3> QED  BY <1>0, <3>1, <3>3, <3>4 DEF StreamInv, CursorType
  <2>4. CASE ~\E s \in Sources : Faulty(s)
    <3>1. /\ heads' = [s \in Sources |-> Ahead(s)]
          /\ cursor' = [s \in Sources |-> Upcoming(s)] /\ given' = None
      BY <1>0, <1>1, <2>4 DEF Prime
    <3>2. ASSUME NEW s \in Sources
          PROVE  /\ cursor'[s] \in [entry : Nat, taken : Nat]
                 /\ heads'[s] \in 0..(Top - 1) \cup {None}
      <4>1. Placed(s) /\ ~Faulty(s) /\ cursor'[s] = Upcoming(s) /\ heads'[s] = Ahead(s)
        BY <2>2, <2>4, <3>1
      <4> QED  BY <1>0, <4>1, Walked DEF StreamInv
    <3>3. ASSUME NEW s \in Sources  PROVE SourceInv(s)'
      <4>1. Placed(s) /\ ~Faulty(s) /\ cursor'[s] = Upcoming(s) /\ heads'[s] = Ahead(s)
        BY <2>2, <2>4, <3>1
      <4> QED  BY <1>0, <2>1, <4>1, SourceWalked DEF StreamInv
    <3>4. CursorType' /\ heads' \in [Sources -> 0..(Top - 1) \cup {None}]
      BY <1>0, <3>1, <3>2 DEF CursorType
    <3> QED  BY <1>0, <3>1, <3>3, <3>4 DEF StreamInv, Held
  <2> QED  BY <2>3, <2>4
<1>2. CASE Pop
  <2>1. PICK s \in Sources :
          /\ First(s) /\ given' = Tile(s, heads[s])
          /\ \/ /\ Faulty(s) /\ pending' = s /\ cursor' = cursor
                /\ heads' = [heads EXCEPT ![s] = None]
             \/ /\ ~Faulty(s) /\ pending' = pending
                /\ heads' = [heads EXCEPT ![s] = Ahead(s)]
                /\ cursor' = [cursor EXCEPT ![s] = Upcoming(s)]
    BY <1>2 DEF Pop
  <2>2. primed /\ primed' /\ pending = None
    BY <1>2 DEF Pop
  <2>3. PICK i \in 0..(Top - 1) : heads[s] = i /\ heads[s] # None
    BY <2>1 DEF First, StreamInv
  <2>4. Placed(s) /\ \E c \in Passed(s) : c = Pos(s) /\ heads[s] = IdOf(s, c)
    BY <2>2, <2>3 DEF StreamInv, SourceInv
  <2>5. ASSUME NEW t \in Sources \ {s}  PROVE SourceInv(t)'
    <3>1. heads'[t] = heads[t] /\ cursor'[t] = cursor[t] /\ ~Broken /\ primed' = primed
      BY <1>0, <2>1, <2>2 DEF StreamInv, CursorType, Broken
    <3> QED  BY <1>0, <3>1, SourceKept DEF StreamInv
  <2>6. CASE Faulty(s)
    <3>1. /\ heads' = [heads EXCEPT ![s] = None] /\ cursor' = cursor /\ pending' = s
          /\ heads'[s] = None
      BY <2>1, <2>6 DEF StreamInv
    <3>2. Broken'
      BY <3>1 DEF Broken, Given, Sources
    <3>3. SourceInv(s)'
      <4>1. /\ Claims(s)' = Claims(s)
            /\ \A c : Unreadable(s, c)' = Unreadable(s, c)
        BY <1>0, DirFixed
      <4>2. Passed(s)' = Passed(s)
        BY <3>1, <4>1 DEF Passed, Pos, Before
      <4> QED  BY <2>2, <3>1, <3>2, <4>1, <4>2 DEF StreamInv, SourceInv
    <3>4. Last(s, i)'
      BY <1>0, <2>1, <2>3, <3>1 DEF Last, First, StreamInv
    <3>5. given' = Tile(s, i)' /\ given' # End
      BY <2>1, <2>3 DEF Tile, End
    <3>6. heads' \in [Sources -> 0..(Top - 1) \cup {None}]
      BY <3>1 DEF StreamInv
    <3>7. \A t \in Sources : SourceInv(t)'
      BY <2>5, <3>3
    <3> QED  BY <1>0, <2>2, <3>1, <3>4, <3>5, <3>6, <3>7 DEF StreamInv, CursorType
  <2>7. CASE ~Faulty(s)
    <3>1. /\ heads' = [heads EXCEPT ![s] = Ahead(s)]
          /\ cursor' = [cursor EXCEPT ![s] = Upcoming(s)] /\ pending' = pending
          /\ heads'[s] = Ahead(s) /\ cursor'[s] = Upcoming(s)
      BY <2>1, <2>7 DEF StreamInv, CursorType
    <3>2. /\ Upcoming(s) \in [entry : Nat, taken : Nat]
          /\ Ahead(s) \in 0..(Top - 1) \cup {None}
      BY <1>0, <2>4, <2>7, <3>1, Walked DEF StreamInv
    <3>3. SourceInv(s)'
      BY <1>0, <2>2, <2>4, <2>7, <3>1, SourceWalked DEF StreamInv
    <3>4. ~Exhausted(s) /\ Ahead(s) <= heads[s] => Bad(s)
      BY <2>4, <2>7, Descent
    <3>5. Exhausted(s) => heads'[s] = None
      BY <3>1 DEF Ahead
    <3>6. /\ CursorType' /\ heads' \in [Sources -> 0..(Top - 1) \cup {None}]
      BY <1>0, <3>1, <3>2 DEF StreamInv, CursorType
    <3>7. \A t \in Sources : SourceInv(t)'
      BY <2>5, <3>3
    <3>8. heads'[s] # None /\ heads'[s] <= i => Bad(s)
      BY <2>3, <3>1, <3>4, <3>5
    <3>9. Last(s, i)'
      BY <1>0, <2>1, <2>3, <3>1, <3>8 DEF Last, First, StreamInv
    <3>10. given' = Tile(s, i)' /\ given' # End
      BY <2>1, <2>3 DEF Tile, End
    <3> QED  BY <1>0, <2>2, <3>6, <3>7, <3>9, <3>10 DEF StreamInv
  <2> QED  BY <2>6, <2>7
<1>3. CASE HandOutError
  <2>1. /\ given' = Fault(pending) /\ heads' = heads /\ cursor' = cursor
        /\ primed' = primed /\ Broken'
    BY <1>3 DEF HandOutError, Broken, Fault, Given
  <2>2. ~Held' /\ given' # End
    BY <2>1 DEF Held, Fault, End
  <2>3. \A s \in Sources : SourceInv(s)'
    BY <1>0, <2>1, SourceKept DEF StreamInv
  <2> QED  BY <1>0, <2>1, <2>2, <2>3 DEF StreamInv, CursorType
<1>4. CASE Dry
  <2>1. /\ given' = End /\ heads' = heads /\ cursor' = cursor
        /\ primed' = primed /\ pending' = pending /\ primed /\ pending = None
        /\ \A s \in Sources : heads[s] = None
    BY <1>4 DEF Dry
  <2>2. ~Held' /\ ~Broken
    BY <1>0, <2>1 DEF Held, End, Broken
  <2>3. \A s \in Sources : SourceInv(s)'
    BY <1>0, <2>1, <2>2, SourceKept DEF StreamInv
  <2> QED  BY <1>0, <2>1, <2>2, <2>3 DEF StreamInv, CursorType
<1> QED  BY <1>1, <1>2, <1>3, <1>4 DEF Advance

\* What was handed out is used.
LEMMA StreamInvUsed ==
  ASSUME Given, StreamInv, UNCHANGED iterator, Held, given' = None
  PROVE  StreamInv'
<1>1. /\ dir' = dir /\ cursor' = cursor /\ heads' = heads /\ pending' = pending
      /\ primed' = primed /\ Sources' = Sources
  BY DirFixed DEF iterator
<1>2. ~Held' /\ given' # End
  BY DEF Held, Given
<1>3. Broken => Broken'
  BY <1>1 DEF Broken, Held
<1>4. \A s \in Sources : SourceInv(s)'
  BY <1>1, <1>3, SourceKept DEF StreamInv
<1> QED  BY <1>1, <1>2, <1>4 DEF StreamInv, CursorType

LEMMA StreamInvKept ==
  ASSUME Given, StreamInv, UNCHANGED stream
  PROVE  StreamInv'
<1>1. /\ dir' = dir /\ cursor' = cursor /\ heads' = heads /\ pending' = pending
      /\ primed' = primed /\ given' = given /\ Sources' = Sources
  BY DirFixed DEF stream, iterator
<1>2. \A s, c : Bad(s)' = Bad(s)
  BY <1>1, DirFixed DEF Bad, Before
<1>3. \A s \in Sources : SourceInv(s)'
  BY <1>1, SourceKept DEF StreamInv, Broken
<1>4. \A s, i : Last(s, i)' = Last(s, i) /\ Tile(s, i)' = Tile(s, i)
  BY <1>1, <1>2 DEF Last, Tile
<1> QED  BY <1>1, <1>3, <1>4 DEF StreamInv, CursorType, Held

\* A tile is copied straight from its archive.
LEMMA StreamInvCopied ==
  ASSUME Given, StreamInv, NEW s \in Sources, Placed(s), ~Faulty(s),
         ~Exhausted(s), ~primed, given = None, heads[s] = None,
         UNCHANGED <<dir, heads, pending, primed, given>>,
         cursor' = [cursor EXCEPT ![s] = Upcoming(s)]
  PROVE  StreamInv'
<1>1. dir' = dir /\ Sources' = Sources /\ ~Held' /\ given' # End
  BY DirFixed DEF Held, Given
<1>2. cursor'[s] = Upcoming(s) /\ Upcoming(s) \in [entry : Nat, taken : Nat]
  BY Stepping DEF StreamInv, CursorType
<1>3. CursorType'
  BY <1>1, <1>2 DEF StreamInv, CursorType
<1>4. SourceInv(s)'
  BY <1>1, <1>2, SourceWalked DEF StreamInv
<1>5. ASSUME NEW t \in Sources \ {s}  PROVE SourceInv(t)'
  <2>1. cursor'[t] = cursor[t] /\ heads'[t] = heads[t] /\ Broken' = Broken
    BY DEF StreamInv, CursorType, Broken
  <2> QED  BY <2>1, SourceKept DEF StreamInv
<1> QED  BY <1>1, <1>3, <1>4, <1>5 DEF StreamInv

-----------------------------------------------------------------------------
(* The bands' loop *)

\* The copies taken are of bands that cover the id, in band order, and of the
\* archives up to the one that gave the last.
GroupInv ==
  /\ group \in Seq(Sources)
  /\ open => Shared /\ primed /\ prev \in Sources /\ id \in 0..(Top - 1)
  /\ ~open => group = <<>>
  /\ id # None => id \in 0..(Top - 1)
  /\ \A j \in 1..Len(group) :
       /\ group[j] <= prev
       /\ band[group[j]].lo <= ZoomOf[id] /\ ZoomOf[id] <= band[group[j]].hi
  /\ \A i, j \in 1..Len(group) : i < j => group[i] < group[j]

\* How what comes next relates to the id seen last.
NextInv ==
  /\ open /\ given = None => \A s, i : s = prev /\ i = id => Last(s, i)
  /\ open /\ Held /\ given.id = id => prev <= given.source
  /\ Held /\ id # None => \A s :
       /\ s = given.source
       /\ given.id < id \/ (open /\ given.id = id /\ s = prev)
       => Bad(s)
  /\ Shared /\ ~open /\ id # None =>
       given # None /\ (given.kind = "tile" => given.id # id)

\* A tile written is of the archives whose copies were taken.
WrittenInv ==
  /\ written \in Seq([id : Nat, from : Seq(Sources)])
  /\ \A k \in 1..Len(written) : LET f == written[k].from IN
       \A i, j \in 1..Len(f) :
         i < j => f[i] < f[j] /\ band[f[i]].layer # band[f[j]].layer

Rank(s) == Cardinality({t \in Sources : band[t].lo < band[s].lo})

\* Bands that share no zoom: the id seen last is one an archive up to the
\* current gave.
CopyInv ==
  /\ at \in Nat
  /\ ~Shared => /\ ~primed /\ given = None /\ ~open
                /\ \A s \in Sources : heads[s] = None
  /\ ~Shared /\ id # None =>
       \E t \in Sources, i \in 0..(Top - 1) :
         /\ i = id /\ Covers(t, i) /\ Rank(t) <= at
         /\ \E c \in Passed(t) : IdOf(t, c) = i

BlameInv ==
  Ended("outOfOrder") => \E s : s = outcome.source /\ Bad(s)

Inv ==
  /\ StreamInv /\ GroupInv /\ NextInv /\ WrittenInv /\ CopyInv /\ BlameInv
  /\ band \in [Sources -> Bands] /\ Valid(band)

\* A step that opens an archive or ends the merge.
Quiet == UNCHANGED <<stream, band, at, group, open, prev, id, written>>

LEMMA Steps ==
  ASSUME Next
  PROVE  \/ Call \/ OpenGroup \/ JoinGroup \/ WriteGroup \/ Quiet
         \/ \E s \in Sources : CopyTile(s) \/ NextBand(s)
<1>1. ASSUME NEW s \in Sources, Open(s) \/ OpenFails(s) \/ CopyStops(s)
      PROVE  Quiet
  BY <1>1 DEF Open, OpenFails, CopyStops, Report, Quiet
<1>2. ASSUME OutOfOrder \/ Repeated \/ WriteFails \/ Stopped \/ Finish
      PROVE  Quiet
  BY <1>2 DEF OutOfOrder, Repeated, WriteFails, Stopped, Finish, Report, Quiet
<1> QED  BY <1>1, <1>2 DEF Next

LEMMA Fixed ==
  ASSUME dir' = dir, band' = band
  PROVE  /\ Sources' = Sources /\ N' = N /\ Shared' = Shared
         /\ \A s, i : Covers(s, i)' = Covers(s, i) /\ Tile(s, i)' = Tile(s, i)
         /\ \A s : Rank(s)' = Rank(s) /\ Bad(s)' = Bad(s)
BY DirFixed DEF Shared, Overlap, Covers, Rank, Bad, Before, Tile

LEMMA StepFixed ==
  ASSUME Next
  PROVE  dir' = dir /\ band' = band
<1>1. CASE Call
  BY <1>1 DEF Call, loop, Advance, Prime, Pop, HandOutError, Dry, iterator
<1>2. CASE OpenGroup \/ JoinGroup \/ WriteGroup \/ Quiet
  BY <1>2 DEF OpenGroup, JoinGroup, WriteGroup, Quiet, Takes, stream, iterator
<1>3. CASE \E s \in Sources : CopyTile(s) \/ NextBand(s)
  BY <1>3 DEF CopyTile, NextBand, stream, iterator
<1> QED  BY <1>1, <1>2, <1>3, Steps

LEMMA StreamInvNext ==
  ASSUME Given, ZoomAssumption, Inv, Next
  PROVE  StreamInv'
<1>1. CASE Call
  BY <1>1, StreamInvAdvance DEF Call, Inv
<1>2. CASE OpenGroup \/ JoinGroup
  <2>1. Held /\ given' = None /\ UNCHANGED iterator
    BY <1>2 DEF OpenGroup, JoinGroup, HasTile, Takes, Held
  <2> QED  BY <2>1, StreamInvUsed DEF Inv
<1>3. CASE WriteGroup \/ Quiet
  BY <1>3, StreamInvKept DEF WriteGroup, Quiet, Inv
<1>4. ASSUME NEW s \in Sources, CopyTile(s)  PROVE StreamInv'
  <2>1. ~Shared
    BY <1>4 DEF CopyTile, Copying
  <2>2. ~primed /\ given = None /\ heads[s] = None
    BY <2>1 DEF Inv, CopyInv
  <2>3. Placed(s)
    BY <2>2 DEF Inv, StreamInv, SourceInv
  <2>4. /\ ~Faulty(s) /\ ~Exhausted(s)
        /\ UNCHANGED <<dir, heads, pending, primed, given>>
        /\ cursor' = [cursor EXCEPT ![s] = Upcoming(s)]
    BY <1>4 DEF CopyTile
  <2> QED  BY <2>2, <2>3, <2>4, StreamInvCopied DEF Inv
<1>5. ASSUME NEW s \in Sources, NextBand(s)  PROVE StreamInv'
  BY <1>5, StreamInvKept DEF NextBand, Inv
<1> QED  BY <1>1, <1>2, <1>3, <1>4, <1>5, Steps

\* Bands that cover an id have different layers.
LEMMA LayersApart ==
  ASSUME Given, ZoomAssumption, band \in [Sources -> Bands], Valid(band), dir \in Archives,
         NEW i \in 0..(Top - 1), NEW s \in Sources, NEW t \in Sources, s # t,
         Covers(s, i), Covers(t, i)
  PROVE  band[s].layer # band[t].layer
<1>1. ZoomOf[i] \in Nat
  BY DEF Given, ZoomAssumption
<1>2. Zooms \subseteq Nat
  BY DEF Given, ZoomAssumption, Zooms
<1>3. /\ band[s].lo \in Nat /\ band[s].hi \in Nat
      /\ band[t].lo \in Nat /\ band[t].hi \in Nat
  BY <1>2 DEF Bands
<1>4. Overlap(band[s], band[t])
  BY <1>1, <1>3 DEF Covers, Overlap
<1> QED  BY <1>4 DEF Valid

\* A group takes the copy of a later archive than the last, or is opened.
LEMMA GroupTakes ==
  ASSUME Given, ZoomAssumption, Inv, NEW s \in Sources, NEW i \in 0..(Top - 1), Shared,
         Takes(s, i), primed, dir' = dir, band' = band,
         ~open \/ (id = i /\ prev < s)
  PROVE  GroupInv'
<1>1. /\ open' = TRUE /\ prev' = s /\ id' = i /\ primed'
      /\ group' = IF Covers(s, i) THEN Append(group, s) ELSE group
  BY DEF Takes, iterator
<1>2. Sources' = Sources /\ Shared' = Shared
  BY Fixed
<1>3. group \in Seq(Sources) /\ Len(group) \in Nat /\ (~open => Len(group) = 0)
  BY DEF Inv, GroupInv
<1>4. ASSUME NEW j \in 1..Len(group)
      PROVE  /\ group[j] \in Sources /\ group[j] < s
             /\ band[group[j]].lo <= ZoomOf[i] /\ ZoomOf[i] <= band[group[j]].hi
  <2>1. open /\ id = i /\ prev < s
    BY <1>3
  <2>2. group[j] \in Sources /\ group[j] <= prev /\ prev \in Sources
    BY <1>3, <2>1 DEF Inv, GroupInv
  <2>3. group[j] < s
    BY <2>1, <2>2 DEF Sources
  <2>4. band[group[j]].lo <= ZoomOf[i] /\ ZoomOf[i] <= band[group[j]].hi
    BY <2>1 DEF Inv, GroupInv
  <2> QED  BY <2>2, <2>3, <2>4
<1>5. CASE Covers(s, i)
  <2>1. /\ group' \in Seq(Sources) /\ Len(group') = Len(group) + 1
        /\ \A j \in 1..Len(group) : group'[j] = group[j]
        /\ group'[Len(group) + 1] = s
    BY <1>1, <1>3, <1>5
  <2>2. ASSUME NEW j \in 1..Len(group')
        PROVE  /\ group'[j] <= s
               /\ band[group'[j]].lo <= ZoomOf[i] /\ ZoomOf[i] <= band[group'[j]].hi
    <3>1. CASE j \in 1..Len(group)
      <4>1. group'[j] = group[j] /\ group[j] \in Sources
        BY <1>4, <2>1, <3>1
      <4>2. group[j] <= s
        BY <1>4, <3>1 DEF Sources
      <4> QED  BY <1>4, <3>1, <4>1, <4>2
    <3>2. CASE j = Len(group) + 1
      BY <1>5, <2>1, <3>2 DEF Covers, Sources
    <3> QED  BY <1>3, <2>1, <3>1, <3>2
  <2>3. ASSUME NEW h \in 1..Len(group'), NEW j \in 1..Len(group'), h < j
        PROVE  group'[h] < group'[j]
    <3>1. h \in 1..Len(group)
      BY <1>3, <2>1, <2>3
    <3>2. CASE j \in 1..Len(group)
      BY <2>1, <2>3, <3>1, <3>2 DEF Inv, GroupInv
    <3>3. CASE j = Len(group) + 1
      BY <1>4, <2>1, <3>1, <3>3
    <3> QED  BY <1>3, <2>1, <3>2, <3>3
  <2> QED  BY <1>1, <1>2, <2>1, <2>2, <2>3 DEF GroupInv
<1>6. CASE ~Covers(s, i)
  <2>1. group' = group
    BY <1>1, <1>6
  <2>2. \A j \in 1..Len(group) : group[j] <= s
    BY <1>4 DEF Sources
  <2> QED  BY <1>1, <1>2, <1>3, <1>4, <2>1, <2>2 DEF Inv, GroupInv
<1> QED  BY <1>5, <1>6

\* The tile that a call handed out.
LEMMA Tiled ==
  ASSUME Given, ZoomAssumption, Inv, HasTile
  PROVE  /\ Held /\ primed /\ \E s \in Sources, i \in 0..(Top - 1) :
                       given = Tile(s, i) /\ given.source = s /\ given.id = i /\ Last(s, i)
BY DEF Inv, StreamInv, HasTile, Held, Tile

LEMMA GroupInvNext ==
  ASSUME Given, ZoomAssumption, Inv, Next
  PROVE  GroupInv'
<1>0. dir' = dir /\ band' = band /\ Sources' = Sources /\ Shared' = Shared
  BY StepFixed, Fixed
<1>1. CASE Call \/ Quiet \/ \E s \in Sources : NextBand(s)
  <2>1. /\ group' = group /\ open' = open /\ prev' = prev /\ id' = id
        /\ primed => primed'
    BY <1>1 DEF Call, Quiet, NextBand, loop, stream, iterator, Advance, Prime,
                Pop, HandOutError, Dry
  <2> QED  BY <1>0, <2>1 DEF Inv, GroupInv
<1>2. CASE OpenGroup \/ JoinGroup
  <2>1. HasTile /\ Shared
    BY <1>2 DEF OpenGroup, JoinGroup, HasTile, Merging
  <2>2. PICK s \in Sources, i \in 0..(Top - 1) : given.source = s /\ given.id = i
    BY <2>1, Tiled
  <2>3. Takes(s, i) /\ primed
    BY <1>2, <2>1, <2>2, Tiled DEF OpenGroup, JoinGroup
  <2>4. ~open \/ (id = i /\ prev < s)
    <3>1. SUFFICES ASSUME JoinGroup  PROVE id = i /\ prev < s
      BY <1>2 DEF OpenGroup
    <3>2. open /\ id = i /\ prev # s /\ Held
      BY <2>1, <2>2, <3>1, Tiled DEF JoinGroup
    <3>3. prev <= s /\ prev \in Sources
      BY <2>2, <3>2 DEF Inv, NextInv, GroupInv
    <3> QED  BY <3>2, <3>3 DEF Sources
  <2> QED  BY <1>0, <2>1, <2>3, <2>4, GroupTakes
<1>3. CASE WriteGroup
  <2>1. group' = <<>> /\ open' = FALSE /\ id' = id /\ group' \in Seq(Sources)
        /\ Len(group') = 0
    BY <1>3 DEF WriteGroup
  <2> QED  BY <1>0, <2>1 DEF Inv, GroupInv
<1>4. CASE \E s \in Sources : CopyTile(s)
  <2>1. group' = group /\ open' = open /\ prev' = prev /\ ~open
    BY <1>4 DEF CopyTile, Copying, Inv, CopyInv
  <2>2. PICK s \in Sources : CopyTile(s)
    BY <1>4
  <2>3. Placed(s) /\ ~Faulty(s) /\ ~Exhausted(s)
    BY <2>2 DEF CopyTile, Copying, Inv, CopyInv, StreamInv, SourceInv
  <2>4. Ahead(s) \in 0..(Top - 1)
    BY <2>3, Ensuing DEF Inv, StreamInv
  <2>5. id' = id \/ id' = Ahead(s)
    BY <2>2 DEF CopyTile
  <2> QED  BY <1>0, <2>1, <2>4, <2>5 DEF Inv, GroupInv
<1> QED  BY <1>1, <1>2, <1>3, <1>4, Steps

LEMMA NextInvNext ==
  ASSUME Given, ZoomAssumption, Inv, Next
  PROVE  NextInv'
<1>0. /\ dir' = dir /\ band' = band /\ Sources' = Sources /\ Shared' = Shared
      /\ \A s : Bad(s)' = Bad(s)
  BY StepFixed, Fixed
<1>1. CASE Call
  <2>1. /\ Shared /\ Merging /\ Advance /\ given = None
        /\ open' = open /\ prev' = prev /\ id' = id
    BY <1>1 DEF Call, Merging, loop, Advance, Prime, Pop, HandOutError, Dry
  <2>2. open \/ id = None
    BY <2>1 DEF Inv, NextInv
  <2>3. CASE Pop
    <3>1. PICK s \in Sources : First(s) /\ given' = Tile(s, heads[s])
      BY <2>3 DEF Pop
    <3>2. PICK i \in 0..(Top - 1) : heads[s] = i /\ heads[s] # None
      BY <3>1 DEF First, Inv, StreamInv
    <3>3. /\ given' # None /\ Held' /\ given'.kind = "tile"
          /\ given'.source = s /\ given'.id = i
      BY <3>1, <3>2 DEF Held, Tile, Given
    <3>4. open => prev \in Sources /\ id \in 0..(Top - 1) /\ id # None
      BY DEF Inv, GroupInv, Given
    <3>5. open => \A q, n : q = prev /\ n = id => Last(q, n)
      BY <2>1 DEF Inv, NextInv
    <3>6. open /\ s # prev => id < i \/ (id = i /\ prev < s)
      BY <3>2, <3>4, <3>5 DEF Last
    <3>7. open /\ s = prev /\ i <= id => Bad(s)
      BY <3>2, <3>4, <3>5 DEF Last
    <3>8. open /\ i = id => prev <= s
      <4>1. CASE s = prev
        BY <4>1 DEF Sources
      <4>2. CASE s # prev
        BY <3>4, <3>6, <4>2 DEF Sources
      <4> QED  BY <4>1, <4>2
    <3>9. open /\ (i < id \/ (i = id /\ s = prev)) => Bad(s)
      <4>1. CASE s = prev
        BY <3>4, <3>7, <4>1
      <4>2. CASE s # prev
        BY <3>4, <3>6, <4>2
      <4> QED  BY <4>1, <4>2
    <3> QED  BY <1>0, <2>1, <2>2, <3>3, <3>8, <3>9 DEF NextInv
  <2>4. CASE Prime
    <3>1. ~open /\ ~Held'
      BY <2>1, <2>4 DEF Prime, Inv, GroupInv, Held, Fault
    <3> QED  BY <2>1, <2>2, <3>1 DEF NextInv
  <2>5. CASE HandOutError \/ Dry
    <3>1. given' # None /\ ~Held' /\ given'.kind # "tile"
      BY <2>5 DEF HandOutError, Dry, Held, Fault, End, Given
    <3> QED  BY <3>1 DEF NextInv
  <2> QED  BY <2>1, <2>3, <2>4, <2>5 DEF Advance
<1>2. CASE OpenGroup \/ JoinGroup
  <2>1. HasTile /\ Shared
    BY <1>2 DEF OpenGroup, JoinGroup, HasTile, Merging
  <2>2. PICK s \in Sources, i \in 0..(Top - 1) :
          given.source = s /\ given.id = i /\ Last(s, i)
    BY <2>1, Tiled
  <2>3. /\ open' = TRUE /\ prev' = s /\ id' = i /\ given' = None /\ UNCHANGED iterator
    BY <1>2, <2>2 DEF OpenGroup, JoinGroup, Takes
  <2>4. Last(s, i)'
    BY <1>0, <2>2, <2>3 DEF Last, iterator
  <2> QED  BY <2>3, <2>4 DEF NextInv, Held
<1>3. CASE WriteGroup
  <2>1. /\ open /\ given # None /\ (given.kind = "tile" => given.id # id)
        /\ given' = given /\ open' = FALSE /\ id' = id
    BY <1>3 DEF WriteGroup, Complete, stream
  <2> QED  BY <1>0, <2>1 DEF Inv, NextInv, Held
<1>4. CASE Quiet \/ \E s \in Sources : NextBand(s)
  <2>1. /\ UNCHANGED stream /\ open' = open /\ prev' = prev /\ id' = id
    BY <1>4 DEF Quiet, NextBand
  <2>2. given' = given /\ \A s, i : Last(s, i)' = Last(s, i)
    BY <1>0, <2>1 DEF stream, iterator, Last
  <2> QED  BY <1>0, <2>1, <2>2 DEF Inv, NextInv, Held
<1>5. CASE \E s \in Sources : CopyTile(s)
  <2>1. ~Shared /\ ~open /\ open' = open /\ given = None /\ given' = given
    BY <1>5 DEF CopyTile, Copying, Inv, CopyInv
  <2> QED  BY <1>0, <2>1 DEF NextInv, Held
<1> QED  BY <1>1, <1>2, <1>3, <1>4, <1>5, Steps

LEMMA WrittenAppended ==
  ASSUME WrittenInv, NEW i \in Nat, NEW f \in Seq(Sources),
         \A h, j \in 1..Len(f) :
           h < j => f[h] < f[j] /\ band[f[h]].layer # band[f[j]].layer,
         written' = Append(written, [id |-> i, from |-> f]),
         band' = band, Sources' = Sources
  PROVE  WrittenInv'
<1> DEFINE Rising(g) == \A h, j \in 1..Len(g) :
                          h < j => g[h] < g[j] /\ band[g[h]].layer # band[g[j]].layer
<1>1. /\ written' \in Seq([id : Nat, from : Seq(Sources)])
      /\ Len(written) \in Nat /\ Len(written') = Len(written) + 1
      /\ \A k \in 1..Len(written) : written'[k] = written[k]
      /\ written'[Len(written) + 1] = [id |-> i, from |-> f]
  BY DEF WrittenInv
<1>2. (\A k \in 1..Len(written) : Rising(written[k].from)) /\ Rising(f)
  BY DEF WrittenInv
<1>3. WrittenInv' <=> /\ written' \in Seq([id : Nat, from : Seq(Sources)])
                      /\ \A k \in 1..Len(written') : Rising(written'[k].from)
  BY DEF WrittenInv
<1> HIDE DEF Rising
<1>4. ASSUME NEW k \in 1..Len(written')  PROVE Rising(written'[k].from)
  <2>1. CASE k \in 1..Len(written)
    BY <1>1, <1>2, <2>1
  <2>2. CASE k = Len(written) + 1
    BY <1>1, <1>2, <2>2
  <2>3. k \in 1..Len(written) \/ k = Len(written) + 1
    BY <1>1
  <2> QED  BY <2>1, <2>2, <2>3
<1> QED  BY <1>1, <1>3, <1>4

LEMMA WrittenInvNext ==
  ASSUME Given, ZoomAssumption, Inv, Next
  PROVE  WrittenInv'
<1>0. dir' = dir /\ band' = band /\ Sources' = Sources
  BY StepFixed, Fixed
<1>1. CASE written' = written
  BY <1>0, <1>1 DEF Inv, WrittenInv
<1>2. CASE WriteGroup /\ group # <<>>
  <2>1. /\ written' = Append(written, [id |-> id, from |-> group])
        /\ group \in Seq(Sources) /\ id \in 0..(Top - 1)
    BY <1>2 DEF WriteGroup, Complete, Inv, GroupInv
  <2>2. ASSUME NEW h \in 1..Len(group), NEW j \in 1..Len(group), h < j
        PROVE  /\ group[h] < group[j]
               /\ band[group[h]].layer # band[group[j]].layer
    <3>1. group[h] \in Sources /\ group[j] \in Sources
      BY <2>1
    <3>2. group[h] < group[j]
      BY <2>2 DEF Inv, GroupInv
    <3>3. group[h] # group[j]
      BY <3>1, <3>2 DEF Sources
    <3>4. Covers(group[h], id) /\ Covers(group[j], id)
      BY DEF Inv, GroupInv, Covers
    <3> QED  BY <2>1, <3>1, <3>2, <3>3, <3>4, LayersApart DEF Inv, StreamInv
  <2>3. id \in Nat
    BY <2>1
  <2> QED  BY <1>0, <2>1, <2>2, <2>3, WrittenAppended DEF Inv
<1>3. ASSUME NEW s \in Sources, CopyTile(s), Covers(s, Ahead(s))
      PROVE  WrittenInv'
  <2>1. written' = Append(written, [id |-> Ahead(s), from |-> <<s>>])
    BY <1>3 DEF CopyTile
  <2>2. Placed(s) /\ ~Faulty(s) /\ ~Exhausted(s)
    BY <1>3 DEF CopyTile, Copying, Inv, CopyInv, StreamInv, SourceInv
  <2>3. Ahead(s) \in Nat
    BY <2>2, Ensuing DEF Inv, StreamInv
  <2>4. /\ <<s>> \in Seq(Sources) /\ Len(<<s>>) = 1
        /\ \A h, j \in 1..1 : ~(h < j)
    OBVIOUS
  <2> QED  BY <1>0, <2>1, <2>3, <2>4, WrittenAppended DEF Inv
<1>4. /\ Call \/ OpenGroup \/ JoinGroup \/ Quiet => written' = written
      /\ WriteGroup /\ group = <<>> => written' = written
      /\ \A s \in Sources : NextBand(s) => written' = written
      /\ \A s \in Sources : CopyTile(s) /\ ~Covers(s, Ahead(s)) => written' = written
  BY DEF Call, OpenGroup, JoinGroup, Quiet, Takes, WriteGroup, NextBand, CopyTile, loop
<1> QED  BY <1>1, <1>2, <1>3, <1>4, Steps

LEMMA RankType ==
  ASSUME Given, ZoomAssumption, dir \in Archives, NEW s
  PROVE  Rank(s) \in Nat
<1>1. N \in Nat
  BY DEF Given, SizesAssumption, N
<1>2. IsFiniteSet(Sources)
  BY <1>1, FS_Interval DEF Sources
<1>3. IsFiniteSet({t \in Sources : band[t].lo < band[s].lo})
  BY <1>2, FS_Subset
<1> QED  BY <1>3, FS_CardinalityType DEF Rank

LEMMA CopyInvNext ==
  ASSUME Given, ZoomAssumption, Inv, Next
  PROVE  CopyInv'
<1>0. /\ dir' = dir /\ band' = band /\ Sources' = Sources /\ Shared' = Shared
      /\ \A s, i : Covers(s, i)' = Covers(s, i)
      /\ \A s : Rank(s)' = Rank(s) /\ Claims(s)' = Claims(s)
      /\ \A s, c : IdOf(s, c)' = IdOf(s, c)
  BY StepFixed, Fixed, DirFixed
<1>1. CASE Call \/ OpenGroup \/ JoinGroup \/ WriteGroup
  <2>1. Shared /\ at' = at
    BY <1>1 DEF Call, OpenGroup, JoinGroup, WriteGroup, HasTile, Merging, Takes, loop
  <2> QED  BY <1>0, <2>1 DEF Inv, CopyInv
<1>2. CASE Quiet
  <2>1. /\ primed' = primed /\ given' = given /\ open' = open /\ heads' = heads
        /\ cursor' = cursor /\ at' = at /\ id' = id
    BY <1>2 DEF Quiet, stream, iterator
  <2>2. \A s : Passed(s)' = Passed(s)
    BY <1>0, <2>1 DEF Passed, Pos, Before
  <2> QED  BY <1>0, <2>1, <2>2 DEF Inv, CopyInv
<1>3. ASSUME NEW s \in Sources, NextBand(s)  PROVE CopyInv'
  <2>1. /\ primed' = primed /\ given' = given /\ open' = open /\ heads' = heads
        /\ cursor' = cursor /\ at' = at + 1 /\ id' = id /\ ~Shared
    BY <1>3 DEF NextBand, Copying, stream, iterator
  <2>2. \A t : Passed(t)' = Passed(t)
    BY <1>0, <2>1 DEF Passed, Pos, Before
  <2>3. \A t : Rank(t) \in Nat /\ at \in Nat
    BY RankType DEF Inv, StreamInv, CopyInv
  <2>4. \A t : Rank(t) <= at => Rank(t) <= at + 1
    BY <2>3
  <2> QED  BY <1>0, <2>1, <2>2, <2>3, <2>4 DEF Inv, CopyInv
<1>4. ASSUME NEW s \in Sources, CopyTile(s)  PROVE CopyInv'
  <2>1. /\ UNCHANGED <<primed, given, open, heads, at>>
        /\ cursor' = [cursor EXCEPT ![s] = Upcoming(s)]
        /\ ~Shared /\ Turn(s) /\ ~Faulty(s) /\ ~Exhausted(s)
    BY <1>4 DEF CopyTile, Copying
  <2>2. /\ ~primed /\ given = None /\ ~open /\ at \in Nat
        /\ \A t \in Sources : heads[t] = None
    BY <2>1 DEF Inv, CopyInv
  <2>3. Placed(s) /\ dir \in Archives /\ CursorType
    BY <2>2 DEF Inv, StreamInv, SourceInv
  <2>4. cursor'[s] = Upcoming(s) /\ \A t \in Sources \ {s} : cursor'[t] = cursor[t]
    BY <2>1, <2>3 DEF CursorType
  <2>5. /\ Fore(s) \in Claims(s) /\ Ahead(s) = IdOf(s, Fore(s))
        /\ Ahead(s) \in 0..(Top - 1)
        /\ Passed(s)' = Passed(s) \cup {Fore(s)}
    BY <1>0, <2>1, <2>3, <2>4, Walked
  <2>6. ASSUME NEW t \in Sources  PROVE Passed(t) \subseteq Passed(t)'
    <3>1. CASE t = s
      BY <2>5, <3>1
    <3>2. CASE t # s
      BY <1>0, <2>4, <3>2 DEF Passed, Pos, Before
    <3> QED  BY <3>1, <3>2
  <2>7. CASE Covers(s, Ahead(s))
    <3>1. PICK i \in 0..(Top - 1) : i = Ahead(s) /\ i = IdOf(s, Fore(s))
      BY <2>5
    <3>2. id' = i /\ Covers(s, i)'
      BY <1>0, <1>4, <2>7, <3>1 DEF CopyTile
    <3>3. Rank(s)' <= at'
      BY <1>0, <2>1, <2>2 DEF Turn, Rank
    <3>4. Fore(s) \in Passed(s)'
      BY <2>5
    <3>5. \E c \in Passed(s)' : IdOf(s, c)' = i
      BY <1>0, <3>1, <3>4
    <3> QED  BY <1>0, <2>1, <2>2, <3>2, <3>3, <3>5 DEF CopyInv
  <2>8. CASE ~Covers(s, Ahead(s))
    <3>1. id' = id
      BY <1>4, <2>8 DEF CopyTile
    <3> QED  BY <1>0, <2>1, <2>2, <2>6, <3>1 DEF Inv, CopyInv
  <2> QED  BY <2>7, <2>8
<1> QED  BY <1>1, <1>2, <1>3, <1>4, Steps

LEMMA RankOrder ==
  ASSUME Given, ZoomAssumption, Inv, NEW s \in Sources, NEW t \in Sources, band[s].lo < band[t].lo
  PROVE  Rank(s) < Rank(t)
<1> DEFINE below(b) == {u \in Sources : band[u].lo < band[b].lo}
<1>1. \A u \in Sources : band[u].lo \in Nat
  <2>1. Zooms \subseteq Nat
    BY DEF Given, ZoomAssumption, Zooms
  <2> QED  BY <2>1 DEF Inv, Bands
<1>2. IsFiniteSet(below(t))
  <2>1. N \in Nat
    BY DEF Given, SizesAssumption, N, Inv, StreamInv
  <2>2. IsFiniteSet(Sources)
    BY <2>1, FS_Interval DEF Sources
  <2> QED  BY <2>2, FS_Subset
<1>3. \A u \in below(s) : u \in below(t)
  <2>1. ASSUME NEW u \in below(s)  PROVE u \in below(t)
    <3>1. band[u].lo \in Nat /\ band[s].lo \in Nat /\ band[t].lo \in Nat
      BY <1>1
    <3> QED  BY <3>1
  <2> QED  BY <2>1
<1>4. s \in below(t) /\ s \notin below(s)
  BY <1>1
<1>5. below(s) # below(t) /\ below(s) \in SUBSET below(t)
  BY <1>3, <1>4
<1>6. Cardinality(below(s)) < Cardinality(below(t))
  <2> HIDE DEF below
  <2>1. /\ Cardinality(below(s)) <= Cardinality(below(t))
        /\ Cardinality(below(s)) # Cardinality(below(t))
    BY <1>2, <1>5, FS_Subset
  <2>2. Cardinality(below(s)) \in Nat /\ Cardinality(below(t)) \in Nat
    BY <1>2, <1>5, FS_Subset, FS_CardinalityType
  <2> QED  BY <2>1, <2>2
<1> QED  BY <1>6 DEF Rank

\* Of bands that share no zoom, no two have their turn at once.
LEMMA RankApart ==
  ASSUME Given, ZoomAssumption, Inv, ~Shared, NEW s \in Sources, NEW t \in Sources, Rank(s) = Rank(t)
  PROVE  s = t
<1>1. SUFFICES ASSUME s # t  PROVE FALSE
  OBVIOUS
<1>2. ~Overlap(band[s], band[t])
  BY <1>1 DEF Shared
<1>3. /\ band[s].lo \in Nat /\ band[s].hi \in Nat /\ band[s].lo <= band[s].hi
      /\ band[t].lo \in Nat /\ band[t].hi \in Nat /\ band[t].lo <= band[t].hi
  <2>1. Zooms \subseteq Nat
    BY DEF Given, ZoomAssumption, Zooms
  <2> QED  BY <2>1 DEF Inv, Bands
<1>4. band[s].lo < band[t].lo \/ band[t].lo < band[s].lo
  BY <1>2, <1>3 DEF Overlap
<1>5. Rank(s) < Rank(t) \/ Rank(t) < Rank(s)
  BY <1>4, RankOrder
<1>6. Rank(s) \in Nat
  BY RankType DEF Inv, StreamInv
<1> QED  BY <1>5, <1>6

\* The archives copied so far have coarser zooms, and so lower ids: if the
\* next id descends, the one it descends from is of its own archive.
LEMMA CopyBlame ==
  ASSUME Given, ZoomAssumption, Inv, NEW s \in Sources, Copying(s), ~Faulty(s), ~Exhausted(s),
         Covers(s, Ahead(s)), Descends(Ahead(s))
  PROVE  Bad(s)
<1>1. ~Shared /\ Turn(s) /\ id # None /\ Ahead(s) <= id
  BY DEF Copying, Descends
<1>2. PICK t \in Sources, i \in 0..(Top - 1) :
        /\ i = id /\ Covers(t, i) /\ Rank(t) <= at
        /\ \E c \in Passed(t) : IdOf(t, c) = i
  BY <1>1 DEF Inv, CopyInv
<1>3. Placed(s)
  BY <1>1 DEF Inv, CopyInv, StreamInv, SourceInv
<1>4. PICK j \in 0..(Top - 1) : j = Ahead(s) /\ j <= i
  BY <1>1, <1>2, <1>3, Ensuing DEF Inv, StreamInv
<1>5. CASE t = s
  BY <1>2, <1>3, <1>4, <1>5, Descent DEF Inv
<1>6. CASE t # s
  <2>1. Zooms \subseteq Nat /\ ZoomOf[i] \in Nat /\ ZoomOf[j] \in Nat
        /\ ZoomOf[j] <= ZoomOf[i]
    BY <1>4 DEF Given, ZoomAssumption, Zooms
  <2>2. /\ band[s].lo \in Nat /\ band[s].hi \in Nat
        /\ band[t].lo \in Nat /\ band[t].hi \in Nat
    BY <2>1 DEF Inv, Bands
  <2>3. ~Overlap(band[s], band[t])
    BY <1>1, <1>6 DEF Shared
  <2>4. band[s].lo <= ZoomOf[j] /\ ZoomOf[i] <= band[t].hi /\ band[t].lo <= ZoomOf[i]
        /\ ZoomOf[j] <= band[s].hi
    BY <1>2, <1>4 DEF Covers
  <2>5. band[s].lo < band[t].lo
    BY <2>1, <2>2, <2>3, <2>4 DEF Overlap
  <2>6. Rank(s) < Rank(t) /\ Rank(s) = at /\ Rank(t) \in Nat /\ at \in Nat
    BY <1>1, <2>5, RankOrder, RankType DEF Turn, Rank, Inv, StreamInv, CopyInv
  <2> QED  BY <1>2, <2>6
<1> QED  BY <1>5, <1>6

LEMMA BlameInvNext ==
  ASSUME Given, ZoomAssumption, Inv, Next
  PROVE  BlameInv'
<1>0. \A s : Bad(s)' = Bad(s)
  BY StepFixed, Fixed
<1>1. CASE ~Ended("outOfOrder")'
  BY <1>1 DEF BlameInv
<1>2. CASE OutOfOrder
  <2>1. HasTile /\ Shared /\ ~open /\ Descends(given.id)
    BY <1>2 DEF OutOfOrder, HasTile, Merging
  <2>2. PICK s \in Sources, i \in 0..(Top - 1) :
          Held /\ given # None /\ given.kind = "tile" /\ given.source = s /\ given.id = i
    BY <2>1, Tiled DEF HasTile
  <2>3. id # None /\ i <= id /\ i # id
    BY <2>1, <2>2 DEF Descends, Inv, NextInv
  <2>4. Bad(s)
    <3>1. i < id
      BY <2>3 DEF Inv, GroupInv
    <3> QED  BY <2>2, <2>3, <3>1 DEF Inv, NextInv
  <2>5. outcome'.source = s
    BY <1>2, <2>2 DEF OutOfOrder, Report
  <2> QED  BY <1>0, <2>4, <2>5 DEF BlameInv
<1>3. CASE Repeated
  <2>1. HasTile /\ open /\ given.id = id /\ given.source = prev
    BY <1>3 DEF Repeated
  <2>2. Held /\ id # None /\ prev \in Sources
    BY <2>1, Tiled DEF Inv, GroupInv, Given
  <2>3. PICK s \in Sources : s = prev /\ Bad(s)
    BY <2>1, <2>2 DEF Inv, NextInv
  <2>4. outcome'.source = s
    BY <1>3, <2>1, <2>3 DEF Repeated, Report
  <2> QED  BY <1>0, <2>3, <2>4 DEF BlameInv
<1>4. ASSUME NEW s \in Sources, CopyStops(s), Ended("outOfOrder")'
      PROVE  BlameInv'
  <2>1. ~Faulty(s) /\ Covers(s, Ahead(s)) /\ Descends(Ahead(s)) /\ outcome'.source = s
    BY <1>4 DEF CopyStops, Report, Ended
  <2>2. Copying(s) /\ ~Exhausted(s)
    BY <1>4 DEF CopyStops
  <2>3. Bad(s)
    BY <2>1, <2>2, CopyBlame
  <2> QED  BY <1>0, <2>1, <2>3 DEF BlameInv
<1>5. \/ ~Ended("outOfOrder")' \/ OutOfOrder \/ Repeated
      \/ \E s \in Sources : CopyStops(s)
  <2>1. ASSUME Call \/ OpenGroup \/ JoinGroup \/ WriteGroup
        PROVE  outcome' = None
    BY <2>1 DEF Call, OpenGroup, JoinGroup, WriteGroup, HasTile, Merging, Running,
                Takes, loop
  <2>2. ASSUME WriteFails \/ Stopped \/ Finish
        PROVE  outcome'.kind # "outOfOrder"
    BY <2>2 DEF WriteFails, Stopped, Finish, Report
  <2>3. ASSUME NEW s \in Sources, Open(s) \/ CopyTile(s) \/ NextBand(s)
        PROVE  outcome' = None
    BY <2>3 DEF Open, ToOpen, CopyTile, NextBand, Copying, Running
  <2>4. ASSUME NEW s \in Sources, OpenFails(s)
        PROVE  outcome'.kind # "outOfOrder"
    BY <2>4 DEF OpenFails, Report
  <2> QED  BY <2>1, <2>2, <2>3, <2>4 DEF Next, Ended
<1> QED  BY <1>1, <1>2, <1>3, <1>4, <1>5

LEMMA Invariant ==
  ASSUME Given, ZoomAssumption  PROVE Spec => []Inv
<1>1. Init => Inv
  <2> SUFFICES ASSUME Init  PROVE Inv
    OBVIOUS
  <2>1. /\ group = <<>> /\ open = FALSE /\ prev = None /\ id = None
        /\ written = <<>> /\ outcome = None /\ given = None /\ at = 0
        /\ heads = [s \in Sources |-> None] /\ primed = FALSE
        /\ band \in [Sources -> Bands] /\ Valid(band)
    BY DEF Init, StreamInit
  <2>2. /\ group \in Seq(Sources) /\ Len(group) = 0 /\ Len(written) = 0
        /\ written \in Seq([id : Nat, from : Seq(Sources)])
    BY <2>1
  <2>3. GroupInv /\ WrittenInv
    BY <2>1, <2>2 DEF GroupInv, WrittenInv
  <2>4. NextInv /\ CopyInv /\ BlameInv
    BY <2>1 DEF NextInv, CopyInv, BlameInv, Held, Ended
  <2> QED  BY <2>1, <2>3, <2>4, StreamInvInit DEF Inv, Init
<1>2. Inv /\ [Next]_vars => Inv'
  <2> SUFFICES ASSUME Inv, [Next]_vars  PROVE Inv'
    OBVIOUS
  <2>1. CASE Next
    <3>1. dir' = dir /\ band' = band
      BY <2>1, StepFixed
    <3>2. Sources' = Sources /\ Bands' = Bands /\ Valid(band)'
      BY <3>1 DEF Inv, Sources, N, Bands, Zooms, Valid, Overlap
    <3> QED  BY <2>1, <3>1, <3>2, StreamInvNext, GroupInvNext, NextInvNext,
                WrittenInvNext, CopyInvNext, BlameInvNext DEF Inv
  <2>2. CASE UNCHANGED vars
    <3>1. /\ UNCHANGED stream /\ dir' = dir /\ band' = band /\ primed' = primed
          /\ cursor' = cursor /\ heads' = heads /\ given' = given
          /\ UNCHANGED <<at, group, open, prev, id, written, outcome>>
      BY <2>2 DEF vars, stream, iterator, loop
    <3>2. /\ Sources' = Sources /\ Shared' = Shared
          /\ \A s, i : Covers(s, i)' = Covers(s, i)
          /\ \A s : Rank(s)' = Rank(s) /\ Bad(s)' = Bad(s)
      BY <3>1, Fixed
    <3>3. /\ \A s, i : Last(s, i)' = Last(s, i)
          /\ \A s : Passed(s)' = Passed(s)
          /\ \A s, c : IdOf(s, c)' = IdOf(s, c)
      BY <3>1, <3>2, DirFixed DEF Last, Passed, Pos, Before
    <3>4. StreamInv'
      BY <3>1, StreamInvKept DEF Inv
    <3>5. GroupInv' /\ WrittenInv'
      BY <3>1, <3>2 DEF Inv, GroupInv, WrittenInv
    <3>6. NextInv'
      BY <3>1, <3>2, <3>3 DEF Inv, NextInv, Held
    <3>7. CopyInv'
      BY <3>1, <3>2, <3>3 DEF Inv, CopyInv
    <3>8. BlameInv'
      BY <3>1, <3>2 DEF Inv, BlameInv, Ended
    <3>9. Bands' = Bands /\ Valid(band)'
      BY <3>1, <3>2 DEF Inv, Bands, Zooms, Valid, Overlap
    <3> QED  BY <3>1, <3>2, <3>4, <3>5, <3>6, <3>7, <3>8, <3>9 DEF Inv
  <2> QED  BY <2>1, <2>2
<1> QED  BY <1>1, <1>2, PTL DEF Spec

\* merge_prepared_bands never comes upon a tile that two bands claim for one
\* layer, whatever the directories hold: validate_bands has refused such
\* bands.  And the layers of a tile written are of different names, in band
\* order.
THEOREM NoLayerTwice ==
  ASSUME Given, ZoomAssumption  PROVE Spec => []NeverClaimedTwice
<1>1. ASSUME Inv, ClaimedTwice  PROVE FALSE
  <2>1. HasTile /\ open /\ given.id = id /\ given.source # prev /\ Held
    BY <1>1, Tiled DEF ClaimedTwice
  <2>2. PICK s \in Sources : s = given.source /\ Covers(s, id) /\ Claimed(s)
    BY <1>1, <2>1, Tiled DEF ClaimedTwice
  <2>3. PICK k \in 1..Len(group) : band[group[k]].layer = band[s].layer
    BY <2>2 DEF Claimed
  <2>4. PICK t \in Sources : t = group[k]
    BY <1>1 DEF Inv, GroupInv
  <2>5. t <= prev /\ prev <= s /\ prev \in Sources /\ id \in 0..(Top - 1) /\ Covers(t, id)
    BY <1>1, <2>1, <2>2, <2>4 DEF Inv, GroupInv, NextInv, Covers
  <2>6. t # s
    BY <2>1, <2>2, <2>5 DEF Sources
  <2> QED  BY <1>1, <2>2, <2>3, <2>4, <2>5, <2>6, LayersApart DEF Inv, StreamInv
<1>2. Inv => NeverClaimedTwice
  BY <1>1 DEF Inv, WrittenInv, NeverClaimedTwice
<1> QED  BY <1>2, Invariant, PTL

\* merge_prepared_bands names a band as out of order only if that band's own
\* directory lists an id twice, or one below an earlier one; on both paths.
THEOREM BlameIsJust ==
  ASSUME Given, ZoomAssumption  PROVE Spec => []BlamesTheRightBand
<1>1. Inv => BlamesTheRightBand
  BY DEF Inv, BlameInv, Bad, BlamesTheRightBand
<1> QED  BY <1>1, Invariant, PTL

-----------------------------------------------------------------------------
(* What was given is written *)

Gave(s, i) == \E c \in Passed(s) : IdOf(s, c) = i

WrittenOf(s, i) ==
  \E k \in 1..Len(written) :
    written[k].id = i /\ \E j \in 1..Len(written[k].from) : written[k].from[j] = s

Grouped(s) == \E j \in 1..Len(group) : group[j] = s

\* The copy of archive s is in the output, or in the group to be written.
Taken(s, i) == WrittenOf(s, i) \/ (open /\ id = i /\ Grouped(s))

AscendInv ==
  /\ \A j, k \in 1..Len(written) : j < k => written[j].id < written[k].id
  /\ \A k \in 1..Len(written) :
       id # None /\ written[k].id <= id /\ (open => written[k].id < id)

\* Of the tiles passed, those a band covers are taken, unless they are still
\* to be; and nothing else is.
CompleteInv ==
  /\ ~primed => \A s \in Sources : heads[s] = None
  /\ \A s \in Sources : \A i : \A c \in Passed(s) :
       IdOf(s, c) = i /\ Covers(s, i) =>
         Taken(s, i) \/ given = Tile(s, i) \/ (heads[s] # None /\ c = Pos(s))
  /\ \A s, i : Taken(s, i) => s \in Sources /\ Covers(s, i) /\ Gave(s, i)
  /\ \A s, i : given = Tile(s, i) => s \in Sources /\ Gave(s, i)
  /\ ~Shared => \A s \in Sources : Rank(s) < at => Passed(s) = Claims(s)

DoneInv ==
  Ended("done") =>
    /\ ~open /\ ~Held
    /\ \A s \in Sources : heads[s] = None /\ Passed(s) = Claims(s)

LEMMA AppendedOf ==
  ASSUME WrittenInv, NEW i, NEW f \in Seq(Sources),
         written' = Append(written, [id |-> i, from |-> f])
  PROVE  \A s, n : WrittenOf(s, n)' <=>
                     WrittenOf(s, n) \/ (n = i /\ \E j \in 1..Len(f) : f[j] = s)
<1>1. /\ Len(written) \in Nat /\ Len(written') = Len(written) + 1
      /\ \A k \in 1..Len(written) : written'[k] = written[k]
      /\ written'[Len(written) + 1] = [id |-> i, from |-> f]
  BY DEF WrittenInv
<1>2. \A k : k \in 1..Len(written') <=> k \in 1..Len(written) \/ k = Len(written) + 1
  BY <1>1
<1>3. ASSUME NEW s, NEW n
      PROVE  WrittenOf(s, n)' <=> WrittenOf(s, n) \/ (n = i /\ \E j \in 1..Len(f) : f[j] = s)
  <2>1. WrittenOf(s, n)' <=>
          \/ WrittenOf(s, n)
          \/ /\ written'[Len(written) + 1].id = n
             /\ \E j \in 1..Len(written'[Len(written) + 1].from) :
                  written'[Len(written) + 1].from[j] = s
    BY <1>1, <1>2 DEF WrittenOf
  <2>2. written'[Len(written) + 1].id = i /\ written'[Len(written) + 1].from = f
    BY <1>1
  <2> QED  BY <2>1, <2>2
<1> QED  BY <1>3

LEMMA TakenByGroup ==
  ASSUME Inv, NEW s \in Sources, NEW i, Takes(s, i), ~open \/ id = i
  PROVE  \A t, n : Taken(t, n)' <=> Taken(t, n) \/ (t = s /\ n = i /\ Covers(s, i))
<1>1. /\ open' = TRUE /\ id' = i /\ written' = written
      /\ group' = IF Covers(s, i) THEN Append(group, s) ELSE group
      /\ group \in Seq(Sources) /\ Len(group) \in Nat /\ (~open => Len(group) = 0)
  BY DEF Takes, Inv, GroupInv
<1>2. \A t : Grouped(t)' <=> Grouped(t) \/ (t = s /\ Covers(s, i))
  <2>1. CASE Covers(s, i)
    <3>1. /\ Len(group') = Len(group) + 1 /\ group'[Len(group) + 1] = s
          /\ \A j \in 1..Len(group) : group'[j] = group[j]
      BY <1>1, <2>1
    <3>2. \A j : j \in 1..Len(group') <=> j \in 1..Len(group) \/ j = Len(group) + 1
      BY <1>1, <3>1
    <3> QED  BY <2>1, <3>1, <3>2 DEF Grouped
  <2>2. CASE ~Covers(s, i)
    BY <1>1, <2>2 DEF Grouped
  <2> QED  BY <2>1, <2>2
<1>3. \A t : ~open => ~Grouped(t)
  BY <1>1 DEF Grouped
<1>4. \A t, n : WrittenOf(t, n)' <=> WrittenOf(t, n)
  BY <1>1 DEF WrittenOf
<1> QED  BY <1>1, <1>2, <1>3, <1>4 DEF Taken

LEMMA TakenWritten ==
  ASSUME Inv, WriteGroup
  PROVE  \A t, n : Taken(t, n)' <=> Taken(t, n)
<1>1. open /\ open' = FALSE /\ group \in Seq(Sources)
  BY DEF WriteGroup, Complete, Inv, GroupInv
<1>2. CASE group = <<>>
  <2>1. \A t : ~Grouped(t)
    BY <1>2 DEF Grouped
  <2>2. \A t, n : WrittenOf(t, n)' <=> WrittenOf(t, n)
    BY <1>2 DEF WriteGroup, WrittenOf
  <2> QED  BY <1>1, <2>1, <2>2 DEF Taken
<1>3. CASE group # <<>>
  <2>1. written' = Append(written, [id |-> id, from |-> group])
    BY <1>3 DEF WriteGroup
  <2>2. \A t, n : WrittenOf(t, n)' <=> WrittenOf(t, n) \/ (n = id /\ Grouped(t))
    BY <1>1, <2>1, AppendedOf DEF Inv, Grouped
  <2> QED  BY <1>1, <2>2 DEF Taken
<1> QED  BY <1>2, <1>3

LEMMA TakenByCopy ==
  ASSUME Inv, NEW s \in Sources, CopyTile(s)
  PROVE  \A t, n : Taken(t, n)' <=>
                     Taken(t, n) \/ (t = s /\ n = Ahead(s) /\ Covers(s, n))
<1>1. ~open /\ open' = open
  BY DEF CopyTile, Copying, Inv, CopyInv
<1>2. CASE Covers(s, Ahead(s))
  <2>1. PICK i, f : /\ written' = Append(written, [id |-> i, from |-> f])
                    /\ i = Ahead(s) /\ f = <<s>>
    BY <1>2 DEF CopyTile
  <2>2. f \in Seq(Sources) /\ Len(f) = 1 /\ f[1] = s
    BY <2>1
  <2>3. \A t : (\E j \in 1..Len(f) : f[j] = t) <=> t = s
    BY <2>2
  <2>4. \A t, n : WrittenOf(t, n)' <=>
                    WrittenOf(t, n) \/ (n = i /\ \E j \in 1..Len(f) : f[j] = t)
    <3>1. written' = Append(written, [id |-> i, from |-> f])
      BY <2>1
    <3>2. WrittenInv /\ f \in Seq(Sources)
      BY <2>2 DEF Inv
    <3> HIDE DEF Inv
    <3> QED  BY <3>1, <3>2, AppendedOf
  <2>5. \A n : n = i => n = Ahead(s) /\ Covers(s, n)
    BY <1>2, <2>1
  <2>6. \A t, n : WrittenOf(t, n)' <=>
                    WrittenOf(t, n) \/ (t = s /\ n = Ahead(s) /\ Covers(s, n))
    BY <2>1, <2>3, <2>4, <2>5
  <2> QED  BY <1>1, <2>6 DEF Taken
<1>3. CASE ~Covers(s, Ahead(s))
  <2>1. written' = written
    BY <1>3 DEF CopyTile
  <2>2. \A t, n : WrittenOf(t, n)' <=> WrittenOf(t, n)
    BY <2>1 DEF WrittenOf
  <2> QED  BY <1>1, <1>3, <2>2 DEF Taken
<1> QED  BY <1>2, <1>3

\* No step takes a cursor back.
LEMMA PassedGrows ==
  ASSUME Given, ZoomAssumption, Inv, Next
  PROVE  \A s \in Sources : Passed(s) \subseteq Passed(s)'
<1>0. /\ dir' = dir /\ band' = band /\ dir \in Archives /\ CursorType
      /\ \A s : Claims(s)' = Claims(s)
  BY StepFixed, DirFixed DEF Inv, StreamInv
<1>1. ASSUME NEW s \in Sources, cursor'[s] = cursor[s]
      PROVE  Passed(s) \subseteq Passed(s)'
  BY <1>0, <1>1 DEF Passed, Pos, Before
<1>2. ASSUME NEW s \in Sources, Placed(s), ~Faulty(s), cursor'[s] = Upcoming(s)
      PROVE  Passed(s) \subseteq Passed(s)'
  BY <1>0, <1>2, Walked
<1>3. ASSUME NEW s \in Sources
      PROVE  \/ cursor'[s] = cursor[s]
             \/ Placed(s) /\ ~Faulty(s) /\ cursor'[s] = Upcoming(s)
  <2>1. CASE Call
    <3>1. CASE Prime
      <4>1. Placed(s)
        BY <3>1 DEF Prime, Inv, StreamInv, SourceInv
      <4> QED  BY <3>1, <4>1 DEF Prime
    <3>2. CASE Pop
      <4>1. PICK t \in Sources :
              /\ First(t)
              /\ \/ cursor' = cursor
                 \/ ~Faulty(t) /\ cursor' = [cursor EXCEPT ![t] = Upcoming(t)]
        BY <3>2 DEF Pop
      <4>2. Placed(t)
        BY <4>1 DEF First, Inv, StreamInv, SourceInv
      <4> QED  BY <1>0, <4>1, <4>2 DEF CursorType
    <3>3. CASE HandOutError \/ Dry
      BY <3>3 DEF HandOutError, Dry, iterator
    <3> QED  BY <2>1, <3>1, <3>2, <3>3 DEF Call, Advance
  <2>2. CASE OpenGroup \/ JoinGroup \/ WriteGroup \/ Quiet
    BY <2>2 DEF OpenGroup, JoinGroup, WriteGroup, Quiet, Takes, stream, iterator
  <2>3. ASSUME NEW t \in Sources, CopyTile(t)
        PROVE  \/ cursor'[s] = cursor[s]
               \/ Placed(s) /\ ~Faulty(s) /\ cursor'[s] = Upcoming(s)
    <3>1. Placed(t)
      BY <2>3 DEF CopyTile, Copying, Inv, CopyInv, StreamInv, SourceInv
    <3> QED  BY <1>0, <2>3, <3>1 DEF CopyTile, CursorType
  <2>4. ASSUME NEW t \in Sources, NextBand(t)  PROVE cursor'[s] = cursor[s]
    BY <2>4 DEF NextBand, stream, iterator
  <2> QED  BY <2>1, <2>2, <2>3, <2>4, Steps
<1> QED  BY <1>1, <1>2, <1>3

LEMMA AscendInvNext ==
  ASSUME Given, ZoomAssumption, Inv, AscendInv, Next
  PROVE  AscendInv'
<1>0. /\ written \in Seq([id : Nat, from : Seq(Sources)])
      /\ Len(written) \in Nat /\ \A k \in 1..Len(written) : written[k].id \in Nat
      /\ id # None => id \in Nat
  <2> DEFINE T == [id : Nat, from : Seq(Sources)]
  <2>1. written \in Seq(T)
    BY DEF Inv, WrittenInv
  <2>2. \A k \in 1..Len(written) : written[k] \in T
    <3> HIDE DEF T
    <3> QED  BY <2>1
  <2>3. \A k \in 1..Len(written) : written[k].id \in Nat
    BY <2>2
  <2>4. id # None => id \in Nat
    BY DEF Inv, GroupInv
  <2> QED  BY <2>1, <2>3, <2>4
<1>1. ASSUME NEW i \in Nat, NEW f, written' = Append(written, [id |-> i, from |-> f]),
             \A k \in 1..Len(written) : written[k].id < i,
             id' = i, ~open'
      PROVE  AscendInv'
  <2>1. /\ Len(written') = Len(written) + 1
        /\ \A k \in 1..Len(written) : written'[k] = written[k]
        /\ written'[Len(written) + 1].id = i
    BY <1>0, <1>1
  <2>2. \A k \in 1..Len(written') : k \in 1..Len(written) \/ k = Len(written) + 1
    BY <1>0, <2>1
  <2>3. \A k \in 1..Len(written') : written'[k].id <= i
    BY <1>0, <1>1, <2>1, <2>2
  <2>4. ASSUME NEW j \in 1..Len(written'), NEW k \in 1..Len(written'), j < k
        PROVE  written'[j].id < written'[k].id
    <3>1. j \in 1..Len(written)
      BY <1>0, <2>1, <2>4
    <3>2. CASE k \in 1..Len(written)
      BY <2>1, <2>4, <3>1, <3>2 DEF AscendInv
    <3>3. CASE k = Len(written) + 1
      BY <1>1, <2>1, <3>1, <3>3
    <3> QED  BY <2>2, <3>2, <3>3
  <2>5. id' # None
    BY <1>1 DEF Given
  <2> QED  BY <1>1, <2>3, <2>4, <2>5 DEF AscendInv
<1>2. CASE Call \/ Quiet \/ \E s \in Sources : NextBand(s)
  <2>1. written' = written /\ id' = id /\ open' = open
    BY <1>2 DEF Call, loop, Quiet, NextBand
  <2> QED  BY <2>1 DEF AscendInv
<1>3. CASE OpenGroup
  <2>1. PICK i \in 0..(Top - 1) : given.id = i /\ Takes(given.source, i) /\ ~Descends(i)
    BY <1>3, Tiled DEF OpenGroup
  <2>2. written' = written /\ id' = i /\ i # None
    BY <2>1 DEF Takes, Given
  <2>3. \A k \in 1..Len(written) : written[k].id < i
    BY <1>0, <2>1 DEF AscendInv, Descends
  <2>4. \A k \in 1..Len(written) : written[k].id <= i
    BY <1>0, <2>3
  <2> QED  BY <2>2, <2>3, <2>4 DEF AscendInv
<1>4. CASE JoinGroup
  <2>1. written' = written /\ id' = id /\ open
    BY <1>4 DEF JoinGroup, Takes
  <2> QED  BY <2>1 DEF AscendInv
<1>5. CASE WriteGroup
  <2>1. open /\ id' = id /\ ~open'
    BY <1>5 DEF WriteGroup, Complete
  <2>2. CASE group = <<>>
    BY <1>5, <2>1, <2>2 DEF WriteGroup, AscendInv
  <2>3. CASE group # <<>>
    <3>1. PICK i \in Nat : i = id
      BY <2>1 DEF Inv, GroupInv
    <3>2. \A k \in 1..Len(written) : written[k].id < i
      BY <2>1, <3>1 DEF AscendInv
    <3> QED  BY <1>1, <1>5, <2>1, <2>3, <3>1, <3>2 DEF WriteGroup
  <2> QED  BY <2>2, <2>3
<1>6. ASSUME NEW s \in Sources, CopyTile(s)  PROVE AscendInv'
  <2>1. ~open /\ open' = open
    BY <1>6 DEF CopyTile, Copying, Inv, CopyInv
  <2>2. CASE ~Covers(s, Ahead(s))
    BY <1>6, <2>1, <2>2 DEF CopyTile, AscendInv
  <2>3. CASE Covers(s, Ahead(s))
    <3>1. Placed(s) /\ ~Faulty(s) /\ ~Exhausted(s)
      BY <1>6 DEF CopyTile, Copying, Inv, CopyInv, StreamInv, SourceInv
    <3>2. PICK i \in 0..(Top - 1) : i = Ahead(s)
      BY <3>1, Ensuing DEF Inv, StreamInv
    <3>3. /\ written' = Append(written, [id |-> i, from |-> <<s>>])
          /\ id' = i /\ ~Descends(i)
      BY <1>6, <2>3, <3>2 DEF CopyTile
    <3>4. \A k \in 1..Len(written) : written[k].id < i
      BY <1>0, <3>2, <3>3 DEF AscendInv, Descends
    <3> QED  BY <1>1, <2>1, <3>2, <3>3, <3>4
  <2> QED  BY <2>2, <2>3
<1> QED  BY <1>2, <1>3, <1>4, <1>5, <1>6, Steps

LEMMA CompleteInvNext ==
  ASSUME Given, ZoomAssumption, Inv, CompleteInv, Next
  PROVE  CompleteInv'
<1>0. /\ dir' = dir /\ band' = band /\ Sources' = Sources /\ Shared' = Shared
      /\ dir \in Archives /\ CursorType
      /\ \A s, i : Covers(s, i)' = Covers(s, i) /\ Tile(s, i)' = Tile(s, i)
      /\ \A s : Rank(s)' = Rank(s) /\ Claims(s)' = Claims(s)
      /\ \A s, c : IdOf(s, c)' = IdOf(s, c)
      /\ \A s \in Sources : Passed(s) \subseteq Passed(s)'
  BY StepFixed, Fixed, DirFixed, PassedGrows DEF Inv, StreamInv
<1>1. \A s \in Sources : \A i : Gave(s, i) => Gave(s, i)'
  BY <1>0 DEF Gave
<1>2. \A s : cursor' = cursor => Passed(s)' = Passed(s) /\ Pos(s)' = Pos(s)
  BY <1>0 DEF Passed, Pos, Before
<1>3. /\ \A s, i : None # Tile(s, i)
      /\ \A s, t, i, j : Tile(s, i) = Tile(t, j) => s = t /\ i = j
      /\ \A s, t, i : Fault(t) # Tile(s, i) /\ End # Tile(s, i)
  <2>1. \A s, i : None # Tile(s, i)
    BY DEF Given
  <2>2. \A s, i : Tile(s, i).kind = "tile" /\ Tile(s, i).source = s /\ Tile(s, i).id = i
    BY DEF Tile
  <2>3. \A t : Fault(t).kind = "fault" /\ End.kind = "end"
    BY DEF Fault, End
  <2> QED  BY <2>1, <2>2, <2>3
<1>4. CASE Call
  <2>1. /\ Shared /\ given = None /\ at' = at /\ Advance
        /\ UNCHANGED <<open, id, group, written>>
    BY <1>4 DEF Call, Merging, loop, Advance, Prime, Pop, HandOutError, Dry
  <2>2. \A s, i : Taken(s, i)' <=> Taken(s, i)
    BY <2>1 DEF Taken, WrittenOf, Grouped
  <2>3. \A s, i : Taken(s, i)' => s \in Sources /\ Covers(s, i) /\ Gave(s, i)'
    BY <1>1, <2>2 DEF CompleteInv
  <2>4. CASE Prime
    <3>1. ~primed /\ primed' /\ \A s \in Sources : heads[s] = None
      BY <2>4 DEF Prime, CompleteInv
    <3>2. \A s \in Sources : Placed(s)
      BY <3>1 DEF Inv, StreamInv, SourceInv
    <3>3. \A s, i : given' # Tile(s, i)
      <4>1. given' = None \/ \E t : given' = Fault(t)
        BY <2>1, <2>4 DEF Prime
      <4> QED  BY <1>3, <4>1
    <3>4. ASSUME NEW s \in Sources, NEW i, NEW c \in Passed(s)', IdOf(s, c) = i, Covers(s, i)
          PROVE  Taken(s, i) \/ (heads'[s] # None /\ c = Pos(s)')
      <4>1. CASE c \in Passed(s)
        BY <1>3, <2>1, <3>1, <3>4, <4>1 DEF CompleteInv
      <4>2. CASE c \notin Passed(s)
        <5>1. ~Faulty(s) /\ cursor'[s] = Upcoming(s) /\ heads'[s] = Ahead(s)
          BY <1>2, <2>4, <3>4, <4>2 DEF Prime
        <5>2. ~Exhausted(s)
          BY <1>0, <3>2, <3>4, <4>2, <5>1, Walked
        <5>3. c = Pos(s)' /\ Ahead(s) \in Nat
          BY <1>0, <3>2, <3>4, <4>2, <5>1, <5>2, Walked
        <5> QED  BY <5>1, <5>3 DEF Given
      <4> QED  BY <4>1, <4>2
    <3> QED  BY <1>0, <2>1, <2>2, <2>3, <3>1, <3>3, <3>4 DEF CompleteInv
  <2>5. CASE Pop
    <3>1. PICK s \in Sources :
            /\ First(s) /\ given' = Tile(s, heads[s])
            /\ \/ Faulty(s) /\ cursor' = cursor /\ heads' = [heads EXCEPT ![s] = None]
               \/ /\ ~Faulty(s) /\ heads' = [heads EXCEPT ![s] = Ahead(s)]
                  /\ cursor' = [cursor EXCEPT ![s] = Upcoming(s)]
      BY <2>5 DEF Pop
    <3>2. PICK i : i = heads[s] /\ i # None
      BY <3>1 DEF First
    <3>3. primed' /\ given' = Tile(s, i)
      BY <2>5, <3>1, <3>2 DEF Pop
    <3>4. Placed(s) /\ \E c \in Passed(s) : c = Pos(s) /\ IdOf(s, c) = i
      BY <3>2 DEF Inv, StreamInv, SourceInv
    <3>5. Gave(s, i) /\ Gave(s, i)'
      BY <1>1, <3>4 DEF Gave
    <3>6. ASSUME NEW t \in Sources, NEW n, NEW c \in Passed(t)', IdOf(t, c) = n, Covers(t, n)
          PROVE  Taken(t, n) \/ given' = Tile(t, n) \/ (heads'[t] # None /\ c = Pos(t)')
      <4>1. CASE t # s
        <5>1. heads'[t] = heads[t] /\ cursor'[t] = cursor[t]
          BY <1>0, <3>1, <4>1 DEF Inv, StreamInv, CursorType
        <5>2. Passed(t)' = Passed(t) /\ Pos(t)' = Pos(t)
          BY <1>0, <5>1 DEF Passed, Pos, Before
        <5> QED  BY <1>3, <2>1, <3>6, <5>1, <5>2 DEF CompleteInv
      <4>2. CASE t = s /\ c \in Passed(s)
        <5>1. CASE c = Pos(s)
          BY <3>3, <3>4, <3>6, <4>2, <5>1
        <5>2. CASE c # Pos(s)
          BY <1>3, <2>1, <3>6, <4>2, <5>2 DEF CompleteInv
        <5> QED  BY <5>1, <5>2
      <4>3. CASE t = s /\ c \notin Passed(s)
        <5>1. ~Faulty(s) /\ cursor'[s] = Upcoming(s) /\ heads'[s] = Ahead(s)
          BY <1>0, <1>2, <3>1, <3>6, <4>3 DEF Inv, StreamInv, CursorType
        <5>2. ~Exhausted(s)
          BY <1>0, <3>4, <3>6, <4>3, <5>1, Walked
        <5>3. c = Pos(s)' /\ Ahead(s) \in Nat
          BY <1>0, <3>4, <3>6, <4>3, <5>1, <5>2, Walked
        <5> QED  BY <4>3, <5>1, <5>3 DEF Given
      <4> QED  BY <4>1, <4>2, <4>3
    <3> QED  BY <1>0, <1>3, <2>1, <2>2, <2>3, <3>3, <3>5, <3>6 DEF CompleteInv
  <2>6. CASE HandOutError \/ Dry
    <3>1. UNCHANGED <<cursor, heads, primed>> /\ \A s, i : given' # Tile(s, i)
      BY <1>3, <2>6 DEF HandOutError, Dry, iterator
    <3> QED  BY <1>0, <1>2, <1>3, <2>1, <2>2, <2>3, <3>1 DEF CompleteInv
  <2> QED  BY <2>1, <2>4, <2>5, <2>6 DEF Advance
<1>5. CASE OpenGroup \/ JoinGroup
  <2>1. HasTile /\ Shared
    BY <1>5 DEF OpenGroup, JoinGroup, HasTile, Merging
  <2>2. PICK s \in Sources, i \in 0..(Top - 1) :
          given = Tile(s, i) /\ given.source = s /\ given.id = i
    BY <2>1, Tiled
  <2>3. Takes(s, i) /\ (~open \/ id = i)
    BY <1>5, <2>2 DEF OpenGroup, JoinGroup
  <2>4. /\ given' = None /\ UNCHANGED <<cursor, heads, primed>>
        /\ \A t, n : Taken(t, n)' <=> Taken(t, n) \/ (t = s /\ n = i /\ Covers(s, i))
    BY <2>3, TakenByGroup DEF Takes, iterator
  <2>5. Gave(s, i)'
    BY <1>1, <2>2 DEF CompleteInv
  <2>6. \A t, n : Taken(t, n)' => t \in Sources /\ Covers(t, n)' /\ Gave(t, n)'
    BY <1>0, <1>1, <2>4, <2>5 DEF CompleteInv
  <2>7. \A t \in Sources : \A n : \A c \in Passed(t)' :
          IdOf(t, c)' = n /\ Covers(t, n)' =>
            Taken(t, n)' \/ (heads'[t] # None /\ c = Pos(t)')
    <3>1. ASSUME NEW t \in Sources, NEW n, NEW c \in Passed(t),
                 IdOf(t, c) = n, Covers(t, n)
          PROVE  Taken(t, n)' \/ (heads[t] # None /\ c = Pos(t))
      <4>1. Taken(t, n) \/ given = Tile(t, n) \/ (heads[t] # None /\ c = Pos(t))
        BY <3>1 DEF CompleteInv
      <4>2. given = Tile(t, n) => t = s /\ n = i
        BY <1>3, <2>2
      <4> QED  BY <2>4, <3>1, <4>1, <4>2
    <3> QED  BY <1>0, <1>2, <2>4, <3>1
  <2> QED  BY <1>0, <1>3, <2>1, <2>4, <2>6, <2>7 DEF CompleteInv
<1>6. CASE WriteGroup
  <2>1. /\ UNCHANGED <<cursor, heads, primed, given>> /\ Shared
        /\ \A t, n : Taken(t, n)' <=> Taken(t, n)
    BY <1>6, TakenWritten DEF WriteGroup, Merging, stream, iterator
  <2> QED  BY <1>0, <1>1, <1>2, <2>1 DEF CompleteInv
<1>7. CASE Quiet
  <2>1. UNCHANGED <<cursor, heads, primed, given, at, open, id, group, written>>
    BY <1>7 DEF Quiet, stream, iterator
  <2>2. \A t, n : Taken(t, n)' <=> Taken(t, n)
    BY <2>1 DEF Taken, WrittenOf, Grouped
  <2> QED  BY <1>0, <1>1, <1>2, <2>1, <2>2 DEF CompleteInv
<1>8. ASSUME NEW s \in Sources, CopyTile(s)  PROVE CompleteInv'
  <2>1. /\ UNCHANGED <<primed, given, heads, at>>
        /\ cursor' = [cursor EXCEPT ![s] = Upcoming(s)]
        /\ ~Shared /\ Rank(s) = at /\ ~Faulty(s) /\ ~Exhausted(s)
    BY <1>8 DEF CopyTile, Copying, Turn, Rank
  <2>2. ~primed /\ given = None /\ \A t \in Sources : heads[t] = None
    BY <2>1 DEF Inv, CopyInv
  <2>3. Placed(s)
    BY <2>2 DEF Inv, StreamInv, SourceInv
  <2>4. cursor'[s] = Upcoming(s) /\ \A t \in Sources \ {s} : cursor'[t] = cursor[t]
    BY <1>0, <2>1 DEF CursorType
  <2>5. /\ Fore(s) \in Passed(s)' /\ Ahead(s) = IdOf(s, Fore(s))
        /\ Passed(s)' = Passed(s) \cup {Fore(s)}
    BY <1>0, <2>1, <2>3, <2>4, Walked
  <2>6. \A t \in Sources \ {s} : Passed(t)' = Passed(t)
    BY <1>0, <2>4 DEF Passed, Pos, Before
  <2>7. \A t, n : Taken(t, n)' <=>
                    Taken(t, n) \/ (t = s /\ n = Ahead(s) /\ Covers(s, n))
    BY <1>8, TakenByCopy
  <2>8. ASSUME NEW n, n = Ahead(s)  PROVE Gave(s, n)'
    <3>1. \E c \in Passed(s)' : IdOf(s, c)' = n
      BY <1>0, <2>5, <2>8
    <3> QED  BY <3>1 DEF Gave
  <2>9. \A t, n : Taken(t, n)' => t \in Sources /\ Covers(t, n) /\ Gave(t, n)'
    BY <1>1, <2>7, <2>8 DEF CompleteInv
  <2>10. ASSUME NEW t \in Sources, NEW n, NEW c \in Passed(t)', IdOf(t, c) = n, Covers(t, n)
         PROVE  Taken(t, n)'
    <3>1. CASE c \in Passed(t)
      BY <1>3, <2>2, <2>7, <2>10, <3>1 DEF CompleteInv
    <3>2. CASE c \notin Passed(t)
      <4>1. t = s /\ c = Fore(s)
        BY <2>5, <2>6, <2>10, <3>2
      <4>2. n = Ahead(s)
        BY <2>5, <2>10, <4>1
      <4> QED  BY <2>7, <2>10, <4>1, <4>2
    <3> QED  BY <3>1, <3>2
  <2>11. ASSUME NEW t \in Sources, Rank(t) < at  PROVE Passed(t)' = Claims(t)
    <3>1. t # s
      BY <2>1, <2>11, RankType DEF Inv, StreamInv
    <3>2. Passed(t) = Claims(t)
      BY <2>1, <2>11 DEF CompleteInv
    <3> QED  BY <2>6, <3>1, <3>2
  <2>12. \A t, n : given' # Tile(t, n)
    BY <1>3, <2>1, <2>2
  <2> QED  BY <1>0, <2>1, <2>2, <2>9, <2>10, <2>11, <2>12 DEF CompleteInv
<1>9. ASSUME NEW s \in Sources, NextBand(s)  PROVE CompleteInv'
  <2>1. /\ UNCHANGED <<cursor, heads, primed, given, open, id, group, written>>
        /\ at' = at + 1 /\ ~Shared /\ Rank(s) = at /\ Exhausted(s)
    BY <1>9 DEF NextBand, Copying, Turn, Rank, stream, iterator
  <2>2. \A t, n : Taken(t, n)' <=> Taken(t, n)
    BY <2>1 DEF Taken, WrittenOf, Grouped
  <2>3. Passed(s) = Claims(s)
    <3>1. ~primed
      BY <2>1 DEF Inv, CopyInv
    <3>2. Placed(s)
      BY <3>1 DEF Inv, StreamInv, SourceInv
    <3> QED  BY <1>0, <2>1, <3>2, Stepping DEF Passed
  <2>4. ASSUME NEW t \in Sources, Rank(t) < at + 1  PROVE Passed(t) = Claims(t)
    <3>1. Rank(t) \in Nat /\ at \in Nat
      BY RankType DEF Inv, StreamInv, CopyInv
    <3>2. Rank(t) < at \/ Rank(t) = Rank(s)
      BY <2>1, <2>4, <3>1
    <3>3. CASE Rank(t) < at
      BY <2>1, <3>3 DEF CompleteInv
    <3>4. CASE Rank(t) = Rank(s)
      BY <2>1, <2>3, <3>4, RankApart
    <3> QED  BY <3>2, <3>3, <3>4
  <2> QED  BY <1>0, <1>1, <1>2, <2>1, <2>2, <2>4 DEF CompleteInv
<1> QED  BY <1>4, <1>5, <1>6, <1>7, <1>8, <1>9, Steps

LEMMA DoneInvNext ==
  ASSUME Given, ZoomAssumption, Inv, CompleteInv, Next
  PROVE  DoneInv'
<1>0. dir' = dir /\ band' = band /\ Sources' = Sources
  BY StepFixed, Fixed
<1>1. CASE ~Ended("done")'
  BY <1>1 DEF DoneInv
<1>2. CASE Finish
  <2>1. UNCHANGED <<cursor, heads, given, open>>
    BY <1>2 DEF Finish, Report, stream, iterator
  <2>2. \A s : Passed(s)' = Passed(s)
    BY <1>0, <2>1, DirFixed DEF Passed, Pos, Before
  <2>3. \A s : Claims(s)' = Claims(s)
    BY <1>0, DirFixed
  <2>4. CASE Shared
    <3>1. ~open /\ given = End
      BY <1>2, <2>4 DEF Finish
    <3>2. primed /\ pending = None /\ \A s \in Sources : heads[s] = None
      BY <3>1 DEF Inv, StreamInv
    <3>3. ~Held /\ ~Broken
      BY <3>1, <3>2 DEF Held, Broken, End
    <3>4. \A s \in Sources : Passed(s) = Claims(s)
      BY <3>2, <3>3 DEF Inv, StreamInv, SourceInv
    <3> QED  BY <1>0, <2>1, <2>2, <2>3, <3>1, <3>2, <3>3, <3>4 DEF DoneInv, Held
  <2>5. CASE ~Shared
    <3>1. at = N /\ ~open /\ given = None /\ \A s \in Sources : heads[s] = None
      BY <1>2, <2>5 DEF Finish, Inv, CopyInv
    <3>2. ASSUME NEW s \in Sources  PROVE Passed(s) = Claims(s)
      <4> DEFINE below == {t \in Sources : band[t].lo < band[s].lo}
      <4>1. N \in Nat
        BY DEF Given, SizesAssumption, N, Inv, StreamInv
      <4>2. IsFiniteSet(Sources) /\ Cardinality(Sources) = N
        BY <4>1, FS_Interval DEF Sources
      <4>3. band[s].lo \in Nat
        BY DEF Given, ZoomAssumption, Zooms, Inv, Bands
      <4>4. below \in SUBSET Sources /\ below # Sources
        BY <4>3
      <4>5. Cardinality(below) <= N /\ Cardinality(below) # N
        <5> HIDE DEF below
        <5> QED  BY <4>2, <4>4, FS_Subset
      <4>6. Rank(s) < at
        BY <3>1, <4>1, <4>5, RankType DEF Rank, Inv, StreamInv
      <4> QED  BY <2>5, <4>6 DEF CompleteInv
    <3> QED  BY <1>0, <2>1, <2>2, <2>3, <3>1, <3>2 DEF DoneInv, Held
  <2> QED  BY <2>4, <2>5
<1>3. ~Ended("done")' \/ Finish
  <2>1. ASSUME Call \/ OpenGroup \/ JoinGroup \/ WriteGroup
        PROVE  outcome' = None
    BY <2>1 DEF Call, OpenGroup, JoinGroup, WriteGroup, HasTile, Merging, Running,
                Takes, loop
  <2>2. ASSUME WriteFails \/ Stopped \/ OutOfOrder \/ Repeated
        PROVE  outcome'.kind # "done"
    BY <2>2 DEF WriteFails, Stopped, OutOfOrder, Repeated, Report
  <2>3. ASSUME NEW s \in Sources, Open(s) \/ CopyTile(s) \/ NextBand(s)
        PROVE  outcome' = None
    BY <2>3 DEF Open, ToOpen, CopyTile, NextBand, Copying, Running
  <2>4. ASSUME NEW s \in Sources, OpenFails(s) \/ CopyStops(s)
        PROVE  outcome'.kind # "done"
    BY <2>4 DEF OpenFails, CopyStops, Report
  <2> QED  BY <2>1, <2>2, <2>3, <2>4 DEF Next, Ended
<1> QED  BY <1>1, <1>2, <1>3

LEMMA Whole ==
  ASSUME Given, ZoomAssumption, Inv, AscendInv, CompleteInv, DoneInv
  PROVE  EveryBandsCopy
<1>1. SUFFICES ASSUME Ended("done")
               PROVE  /\ \A s \in Sources : Readable(s) = Claims(s)
                      /\ \A i \in 0..(Top - 1) : Holders(i) # {} =>
                           \E k \in 1..Len(written) :
                             /\ written[k].id = i
                             /\ {written[k].from[j] : j \in 1..Len(written[k].from)} = Holders(i)
  BY DEF AscendInv, EveryBandsCopy
<1>2. /\ ~open /\ ~Held
      /\ \A s \in Sources : heads[s] = None /\ Passed(s) = Claims(s)
  BY <1>1 DEF DoneInv
<1>3. \A s \in Sources : Readable(s) = Claims(s) /\ Passed(s) = Claims(s)
  BY <1>2, PassedReadable DEF Inv
<1>4. \A s, i : given # Tile(s, i)
  BY <1>2 DEF Held, Tile, Given
<1>5. ASSUME NEW i, NEW s
      PROVE  s \in Holders(i) <=> WrittenOf(s, i)
  <2>1. s \in Holders(i) <=> s \in Sources /\ Covers(s, i) /\ Gave(s, i)
    BY <1>3 DEF Holders, ReadableIds, Gave
  <2>2. WrittenOf(s, i) <=> Taken(s, i)
    BY <1>2 DEF Taken
  <2>3. Taken(s, i) => s \in Sources /\ Covers(s, i) /\ Gave(s, i)
    BY DEF CompleteInv
  <2>4. ASSUME s \in Sources, Covers(s, i), Gave(s, i)  PROVE Taken(s, i)
    BY <1>2, <1>4, <2>4 DEF CompleteInv, Gave
  <2> QED  BY <2>1, <2>2, <2>3, <2>4
<1>6. ASSUME NEW i \in 0..(Top - 1), Holders(i) # {}
      PROVE  \E k \in 1..Len(written) :
               /\ written[k].id = i
               /\ {written[k].from[j] : j \in 1..Len(written[k].from)} = Holders(i)
  <2>1. PICK s : s \in Holders(i)
    BY <1>6
  <2>2. PICK k \in 1..Len(written) : written[k].id = i
    BY <1>5, <2>1 DEF WrittenOf
  <2>3. \A n \in 1..Len(written) : written[n].id = i => n = k
    <3>1. SUFFICES ASSUME NEW n \in 1..Len(written), written[n].id = i, n # k
                   PROVE  FALSE
      OBVIOUS
    <3>2. n < k \/ k < n
      BY <3>1
    <3>3. written[n].id < written[k].id \/ written[k].id < written[n].id
      BY <3>2 DEF AscendInv
    <3> QED  BY <2>2, <3>1, <3>3
  <2>4. \A t : WrittenOf(t, i) <=> \E j \in 1..Len(written[k].from) : written[k].from[j] = t
    BY <2>2, <2>3 DEF WrittenOf
  <2>5. \A t : t \in Holders(i) <=> \E j \in 1..Len(written[k].from) : written[k].from[j] = t
    BY <1>5, <2>4
  <2>6. {written[k].from[j] : j \in 1..Len(written[k].from)} = Holders(i)
    BY <2>5
  <2> QED  BY <2>2, <2>6
<1> QED  BY <1>3, <1>6

\* A merge that merge_prepared_bands returns as done has read every directory
\* to its end and written, of every id that bands cover and hold, one tile of
\* exactly the copies of those bands; and its output ascends, whether it
\* succeeds or not.
THEOREM EveryCopyWritten ==
  ASSUME Given, ZoomAssumption  PROVE Spec => []EveryBandsCopy
<1> DEFINE Rest == AscendInv /\ CompleteInv /\ DoneInv
<1>1. Init => Rest
  <2> SUFFICES ASSUME Init  PROVE Rest
    OBVIOUS
  <2>1. /\ written = <<>> /\ group = <<>> /\ open = FALSE /\ outcome = None /\ at = 0
        /\ given = None /\ heads = [s \in Sources |-> None] /\ dir \in Archives
    BY DEF Init, StreamInit
  <2>2. \A s, i : ~Taken(s, i) /\ given # Tile(s, i)
    BY <2>1 DEF Taken, WrittenOf, Given
  <2>3. \A s : ~(Rank(s) < at)
    BY <2>1, RankType
  <2>4. AscendInv /\ DoneInv
    BY <2>1 DEF AscendInv, DoneInv, Ended
  <2>5. \A s \in Sources : Passed(s) = {}
    <3>1. \A s \in Sources : Pos(s) = <<0, 0>>
      BY DEF Init, StreamInit, Pos
    <3> QED  BY <2>1, <3>1, StartEmpty
  <2>6. CompleteInv
    BY <2>1, <2>2, <2>3, <2>5 DEF CompleteInv
  <2> QED  BY <2>4, <2>6
<1>2. Inv /\ Rest /\ [Next]_vars => Rest'
  <2> SUFFICES ASSUME Inv, Rest, [Next]_vars  PROVE Rest'
    OBVIOUS
  <2>1. CASE Next
    BY <2>1, AscendInvNext, CompleteInvNext, DoneInvNext
  <2>2. CASE UNCHANGED vars
    <3>1. /\ dir' = dir /\ band' = band
          /\ UNCHANGED <<cursor, heads, given, primed, at, group, open, id, written, outcome>>
      BY <2>2 DEF vars, stream, iterator, loop
    <3>2. /\ Sources' = Sources /\ Shared' = Shared
          /\ \A s, i : Covers(s, i)' = Covers(s, i) /\ Tile(s, i)' = Tile(s, i)
          /\ \A s : Rank(s)' = Rank(s) /\ Claims(s)' = Claims(s)
          /\ \A s, c : IdOf(s, c)' = IdOf(s, c)
      BY <3>1, Fixed, DirFixed
    <3>3. \A s : Passed(s)' = Passed(s) /\ Pos(s)' = Pos(s)
      BY <3>1, <3>2 DEF Passed, Pos, Before
    <3>4. \A s, i : (Taken(s, i)' <=> Taken(s, i)) /\ (Gave(s, i)' <=> Gave(s, i))
      BY <3>1, <3>2, <3>3 DEF Taken, WrittenOf, Grouped, Gave
    <3>5. AscendInv' /\ DoneInv'
      BY <3>1, <3>2, <3>3 DEF AscendInv, DoneInv, Held, Ended
    <3>6. CompleteInv'
      BY <3>1, <3>2, <3>3, <3>4 DEF CompleteInv
    <3> QED  BY <3>5, <3>6
  <2> QED  BY <2>1, <2>2
<1>3. Inv /\ Rest => EveryBandsCopy
  BY Whole
<1> QED  BY <1>1, <1>2, <1>3, Invariant, PTL DEF Spec

-----------------------------------------------------------------------------
(* The shards' loop *)

\* The tiles an archive handed out: those up to the cursor, but for the
\* look-ahead.
Due(s) == {c \in Passed(s) : heads[s] # None => c # Pos(s)}
AllDue == UNION {{s} \X Due(s) : s \in Sources}

\* All that can be read of an archive was.
ReadUp(s) == Readable(s) \subseteq Passed(s)

\* Where the stream is before its first call, and how an archive is left that
\* has no look-ahead tile: at its end, or at the first thing that is wrong.
EndInv ==
  /\ ~primed => pending = None /\ \A s \in Sources : Pos(s) = <<0, 0>> /\ heads[s] = None
  /\ primed /\ ~(given # None /\ given.kind = "fault") =>
       \A s \in Sources : heads[s] = None => ReadUp(s)
  /\ \A s \in Sources : pending = s \/ given = Fault(s) =>
       heads[s] = None /\ ReadUp(s) /\ Readable(s) # Claims(s)
  /\ pending \in Sources \cup {None}
  /\ given # None /\ given.kind = "fault" => \E s \in Sources : given = Fault(s)

LEMMA AllDueElement ==
  \A x : x \in AllDue <=> \E s \in Sources : \E c \in Due(s) : x = <<s, c>>
BY DEF AllDue

LEMMA NoneApart == Given => None \notin Sources
BY DEF Given, Sources

\* An archive stopped at something wrong has given all that can be read.
LEMMA FaultStops ==
  ASSUME Given, StreamInv, NEW s \in Sources, Placed(s), Faulty(s)
  PROVE  ReadUp(s) /\ Readable(s) # Claims(s)
<1>1. /\ ~Exhausted(s) /\ Fore(s) \in Claims(s)
      /\ IdAt(s, Upcoming(s)) = IdOf(s, Fore(s))
      /\ \A c \in Claims(s) : Before(Pos(s), c) <=> ~Before(c, Fore(s))
  BY Stepping DEF Faulty, StreamInv
<1>2. Unreadable(s, Fore(s))
  BY <1>1 DEF Faulty, Unreadable, Fore
<1>3. \A c \in Readable(s) : c \in Claims(s) /\ Before(c, Fore(s))
  BY <1>1, <1>2 DEF Readable
<1>4. ReadUp(s)
  BY <1>1, <1>3 DEF ReadUp, Passed
<1>5. Fore(s) \notin Readable(s)
  BY <1>1, <1>3, ClaimPairs, BeforeOrder DEF StreamInv
<1> QED  BY <1>1, <1>4, <1>5

LEMMA Least ==
  ASSUME NEW S \in SUBSET Nat, S # {}
  PROVE  \E x \in S : \A y \in S : x <= y
<1>1. PICK x \in S : \A y \in S : <<y, x>> \notin OpToRel(<, Nat)
  BY NatLessThanWellFounded, WFMin
<1>2. \A y \in S : ~(y < x)
  BY <1>1 DEF OpToRel
<1>3. \A y \in S : x <= y
  BY <1>2
<1> QED  BY <1>3

\* The archive a failing first call names is the first that cannot give its
\* tile.
LEMMA FirstFaulty ==
  ASSUME Given, dir \in Archives, NEW s \in Sources, Faulty(s)
  PROVE  LET f == CHOOSE t \in Sources : Faulty(t) /\ \A u \in 1..(t - 1) : ~Faulty(u)
         IN  f \in Sources /\ Faulty(f)
<1> DEFINE S == {t \in Sources : Faulty(t)}
<1>1. N \in Nat
  BY EntryType
<1>2. S \in SUBSET Nat /\ S # {}
  BY <1>1 DEF Sources
<1>3. PICK x \in S : \A y \in S : x <= y
  BY <1>2, Least
<1>4. \A u \in 1..(x - 1) : ~Faulty(u)
  <2>1. ASSUME NEW u \in 1..(x - 1), Faulty(u)  PROVE FALSE
    <3>1. u \in Sources /\ u < x
      BY <1>1, <1>2 DEF Sources
    <3> QED  BY <1>1, <1>3, <2>1, <3>1 DEF Sources
  <2> QED  BY <2>1
<1> QED  BY <1>3, <1>4

\* The first call hands out no tile: every archive has its first as
\* look-ahead, or the call fails.
LEMMA DuePrimed ==
  ASSUME Given, StreamInv, EndInv, Prime
  PROVE  /\ ~Held' /\ EndInv'
         /\ \A s \in Sources : Due(s) = {} /\ Due(s)' = {}
<1>1. /\ ~primed /\ primed' /\ pending' = pending /\ dir' = dir /\ given = None
      /\ pending = None /\ \A s \in Sources : Pos(s) = <<0, 0>> /\ heads[s] = None
      /\ dir \in Archives /\ CursorType
  BY DEF Prime, EndInv, StreamInv
<1>2. /\ Sources' = Sources /\ \A s : Claims(s)' = Claims(s) /\ Readable(s)' = Readable(s)
      /\ \A s : Fault(s)' = Fault(s)
  BY <1>1, DirFixed DEF Fault
<1>3. \A s \in Sources : Placed(s) /\ Passed(s) = {}
  BY <1>1, StartEmpty DEF Placed
<1>4. CASE \E s \in Sources : Faulty(s)
  <2>1. PICK f \in Sources : given' = Fault(f) /\ Faulty(f)
    BY <1>1, <1>4, FirstFaulty DEF Prime
  <2>2. heads' = heads /\ cursor' = cursor
    BY <1>4 DEF Prime
  <2>3. \A s \in Sources : Passed(s)' = {}
    BY <1>1, <1>2, <1>3, <2>2 DEF Passed, Pos, Before
  <2>4. \A s \in Sources : given' = Fault(s) => s = f
    BY <2>1 DEF Fault
  <2>5. ReadUp(f)' /\ Readable(f)' # Claims(f)'
    BY <1>2, <1>3, <2>1, <2>3, FaultStops DEF ReadUp
  <2>6. given' # None /\ given'.kind = "fault" /\ ~Held'
    BY <2>1 DEF Fault, Held, Given
  <2>7. \A s \in Sources : pending' # s
    BY <1>1 DEF Given, Sources
  <2>8. EndInv'
    BY <1>1, <1>2, <2>1, <2>2, <2>4, <2>5, <2>6, <2>7 DEF EndInv
  <2>9. \A s \in Sources : Due(s) = {} /\ Due(s)' = {}
    BY <1>3, <2>3 DEF Due
  <2> QED  BY <2>6, <2>8, <2>9
<1>5. CASE ~\E s \in Sources : Faulty(s)
  <2>1. /\ heads' = [s \in Sources |-> Ahead(s)] /\ given' = None
        /\ cursor' = [s \in Sources |-> Upcoming(s)]
    BY <1>1, <1>5 DEF Prime
  <2>2. ASSUME NEW s \in Sources
        PROVE  Due(s)' = {} /\ (heads'[s] = None => ReadUp(s)')
    <3>1. Placed(s) /\ ~Faulty(s) /\ cursor'[s] = Upcoming(s) /\ heads'[s] = Ahead(s)
      BY <1>3, <1>5, <2>1
    <3>2. CASE Exhausted(s)
      <4>1. Passed(s)' = Claims(s) /\ Claims(s) = {}
        BY <1>1, <1>3, <3>1, <3>2, Walked
      <4> QED  BY <1>2, <4>1 DEF Due, ReadUp, Readable
    <3>3. CASE ~Exhausted(s)
      <4>1. Passed(s)' = {Fore(s)} /\ Pos(s)' = Fore(s) /\ Ahead(s) # None
        BY <1>1, <1>3, <3>1, <3>3, Walked DEF Given
      <4> QED  BY <3>1, <4>1 DEF Due
    <3> QED  BY <3>2, <3>3
  <2>3. ~Held' /\ \A s \in Sources : pending' # s /\ given' # Fault(s)'
    BY <1>1, <2>1 DEF Held, Given, Sources
  <2>4. EndInv'
    BY <1>1, <1>2, <2>1, <2>2, <2>3 DEF EndInv
  <2>5. \A s \in Sources : Due(s) = {}
    BY <1>3 DEF Due
  <2> QED  BY <2>2, <2>3, <2>4, <2>5
<1> QED  BY <1>4, <1>5

\* A tile is handed out: it is one more that is due, of the archive first in
\* the heap's order.
LEMMA DuePopped ==
  ASSUME Given, StreamInv, EndInv, Pop
  PROVE  /\ EndInv' /\ Held'
         /\ \E s \in Sources : \E g \in Passed(s) :
              /\ g = Pos(s) /\ heads[s] # None /\ First(s)
              /\ heads[s] = IdOf(s, g) /\ given' = Tile(s, IdOf(s, g))
              /\ Due(s)' = Due(s) \cup {g} /\ g \notin Due(s)
              /\ \A t \in Sources \ {s} : Due(t)' = Due(t)
<1>1. PICK s \in Sources :
        /\ First(s) /\ given' = Tile(s, heads[s])
        /\ \/ /\ Faulty(s) /\ pending' = s /\ cursor' = cursor
              /\ heads' = [heads EXCEPT ![s] = None]
           \/ /\ ~Faulty(s) /\ pending' = pending
              /\ heads' = [heads EXCEPT ![s] = Ahead(s)]
              /\ cursor' = [cursor EXCEPT ![s] = Upcoming(s)]
  BY DEF Pop
<1>2. /\ primed /\ primed' /\ pending = None /\ dir' = dir /\ given = None
      /\ dir \in Archives /\ CursorType
  BY DEF Pop, StreamInv
<1>3. /\ Sources' = Sources /\ \A t : Claims(t)' = Claims(t) /\ Readable(t)' = Readable(t)
  BY <1>2, DirFixed
<1>4. heads[s] # None /\ Placed(s)
  BY <1>1, <1>2 DEF First, StreamInv, SourceInv
<1>5. PICK g \in Passed(s) : g = Pos(s) /\ heads[s] = IdOf(s, g)
  BY <1>4 DEF StreamInv, SourceInv
<1>6. Due(s) = Passed(s) \ {g}
  BY <1>4, <1>5 DEF Due
<1>7. /\ Passed(s) \subseteq Passed(s)'
      /\ Due(s)' = Passed(s)
      /\ heads'[s] = None => ReadUp(s)'
      /\ pending' = s => heads'[s] = None /\ Readable(s)' # Claims(s)'
  <2>1. CASE Faulty(s)
    <3>1. pending' = s /\ heads'[s] = None /\ cursor' = cursor
      BY <1>1, <2>1 DEF StreamInv
    <3>2. Passed(s)' = Passed(s)
      BY <1>3, <3>1 DEF Passed, Pos, Before
    <3>3. ReadUp(s) /\ Readable(s) # Claims(s)
      BY <1>4, <2>1, FaultStops
    <3> QED  BY <1>3, <3>1, <3>2, <3>3 DEF Due, ReadUp
  <2>2. CASE ~Faulty(s)
    <3>1. heads'[s] = Ahead(s) /\ cursor'[s] = Upcoming(s) /\ pending' # s
      BY <1>1, <1>2, <2>2, NoneApart DEF StreamInv, CursorType
    <3>2. CASE Exhausted(s)
      <4>1. Passed(s)' = Claims(s) /\ Passed(s) = Claims(s) /\ heads'[s] = None
        BY <1>2, <1>4, <2>2, <3>1, <3>2, Walked
      <4> QED  BY <1>3, <3>1, <4>1 DEF Due, ReadUp, Readable
    <3>3. CASE ~Exhausted(s)
      <4>1. /\ Passed(s)' = Passed(s) \cup {Fore(s)} /\ Pos(s)' = Fore(s)
            /\ Fore(s) \in Claims(s) /\ Ahead(s) # None
            /\ \A c \in Passed(s) : Before(c, Fore(s))
        BY <1>2, <1>4, <2>2, <3>1, <3>3, Walked DEF Given
      <4>2. Fore(s) \notin Passed(s)
        BY <1>2, <4>1, ClaimPairs, BeforeOrder
      <4> QED  BY <3>1, <4>1, <4>2 DEF Due
    <3> QED  BY <3>2, <3>3
  <2> QED  BY <2>1, <2>2
<1>8. ASSUME NEW t \in Sources \ {s}
      PROVE  /\ heads'[t] = heads[t] /\ Due(t)' = Due(t)
             /\ pending' # t /\ (ReadUp(t) => ReadUp(t)')
  <2>1. heads'[t] = heads[t] /\ cursor'[t] = cursor[t] /\ pending' # t
    BY <1>1, <1>2, NoneApart DEF StreamInv, CursorType
  <2>2. Passed(t)' = Passed(t) /\ Pos(t)' = Pos(t)
    BY <1>3, <2>1 DEF Passed, Pos, Before
  <2> QED  BY <1>3, <2>1, <2>2 DEF Due, ReadUp
<1>9. given' # None /\ given'.kind = "tile" /\ \A t : given' # Fault(t)'
  BY <1>1 DEF Tile, Fault, Given
<1>10. EndInv'
  <2>1. \A t \in Sources : heads[t] = None => ReadUp(t)
    BY <1>2 DEF EndInv
  <2>2. \A t \in Sources : heads'[t] = None => ReadUp(t)'
    BY <1>7, <1>8, <2>1
  <2>3. \A t \in Sources : pending' = t => heads'[t] = None /\ Readable(t)' # Claims(t)'
    BY <1>7, <1>8
  <2>4. pending' \in Sources \cup {None}
    BY <1>1, <1>2
  <2> QED  BY <1>2, <1>3, <1>9, <2>2, <2>3, <2>4 DEF EndInv
<1>11. Held'
  BY <1>9 DEF Held
<1>12. Due(s)' = Due(s) \cup {g} /\ g \notin Due(s)
  BY <1>6, <1>7
<1>13. given' = Tile(s, IdOf(s, g))
  BY <1>1, <1>5
<1> QED  BY <1>1, <1>4, <1>5, <1>8, <1>10, <1>11, <1>12, <1>13

LEMMA IdType ==
  ASSUME Given, dir \in Archives, NEW s \in Sources, NEW c \in Claims(s)
  PROVE  IdOf(s, c) \in Nat
<1>1. PICK e \in 1..Len(dir[s]) : \E k \in 1..dir[s][e].run : c = <<e, k>>
  BY ClaimType
<1>2. PICK k \in 1..dir[s][e].run : c = <<e, k>>
  BY <1>1
<1>3. PICK a \in Nat : a = dir[s][e].id
  BY EntryType
<1>4. PICK m \in Nat : m = k /\ m >= 1
  BY EntryType
<1>5. a + m - 1 \in Nat
  BY <1>4
<1> QED  BY <1>2, <1>3, <1>4, <1>5 DEF IdOf

LEMMA DueKept ==
  ASSUME UNCHANGED <<dir, cursor, heads>>
  PROVE  /\ Sources' = Sources /\ AllDue' = AllDue
         /\ \A s : /\ Due(s)' = Due(s) /\ ReadUp(s)' = ReadUp(s) /\ Pos(s)' = Pos(s)
                   /\ Readable(s)' = Readable(s) /\ Claims(s)' = Claims(s)
                   /\ ReadableIds(s)' = ReadableIds(s)
                   /\ TooLong(s)' = TooLong(s) /\ Fault(s)' = Fault(s)
         /\ \A s, c : IdOf(s, c)' = IdOf(s, c)
         /\ \A s, i : Tile(s, i)' = Tile(s, i)
<1>1. /\ Sources' = Sources
      /\ \A s : /\ Claims(s)' = Claims(s) /\ Readable(s)' = Readable(s)
                /\ ReadableIds(s)' = ReadableIds(s) /\ Pos(s)' = Pos(s)
      /\ \A s, c : IdOf(s, c)' = IdOf(s, c)
  BY DirFixed DEF Pos
<1>2. \A s : Passed(s)' = Passed(s)
  BY <1>1 DEF Passed, Before
<1>3. \A s : Due(s)' = Due(s) /\ ReadUp(s)' = ReadUp(s)
  BY <1>1, <1>2 DEF Due, ReadUp
<1>4. AllDue' = AllDue
  BY <1>1, <1>3 DEF AllDue
<1>5. \A s : TooLong(s)' = TooLong(s)
  BY DEF TooLong, Spent
<1> QED  BY <1>1, <1>3, <1>4, <1>5 DEF Fault, Tile

\* A call that hands out no tile moves no archive that has given one.
LEMMA DueWaits ==
  ASSUME Given, StreamInv, EndInv, Advance, ~Pop
  PROVE  /\ EndInv' /\ ~Held'
         /\ \A s \in Sources : Due(s)' = Due(s)
<1>1. CASE Prime
  BY <1>1, DuePrimed
<1>2. CASE HandOutError
  <2>1. /\ UNCHANGED <<dir, cursor, heads, primed>> /\ given = None
        /\ given' = Fault(pending) /\ pending' = None /\ pending \in Sources
    BY <1>2 DEF HandOutError, EndInv
  <2>2. given' # None /\ given'.kind = "fault" /\ ~Held'
    BY <2>1 DEF Fault, Held, Given
  <2>3. /\ heads[pending] = None /\ ReadUp(pending) /\ Readable(pending) # Claims(pending)
    BY <2>1 DEF EndInv
  <2>4. \A s \in Sources : pending' # s
    BY <2>1, NoneApart
  <2>5. \A s \in Sources : given' = Fault(s) => s = pending
    BY <2>1 DEF Fault
  <2>6. primed'
    BY <2>1, NoneApart DEF EndInv
  <2>7. EndInv'
    BY <2>1, <2>2, <2>3, <2>4, <2>5, <2>6, DueKept DEF EndInv
  <2> QED  BY <2>1, <2>2, <2>7, DueKept
<1>3. CASE Dry
  <2>1. /\ UNCHANGED <<dir, cursor, heads, primed, pending>> /\ given = None /\ given' = End
    BY <1>3 DEF Dry, iterator
  <2>2. /\ ~Held' /\ given' # None /\ given'.kind # "fault"
        /\ \A s \in Sources : given' # Fault(s)
    BY <2>1 DEF End, Held, Fault, Given
  <2>3. EndInv'
    BY <2>1, <2>2, DueKept DEF EndInv
  <2> QED  BY <2>1, <2>2, <2>3, DueKept
<1> QED  BY <1>1, <1>2, <1>3 DEF Advance

\* What comes behind a tile that was copied: of another archive nothing with
\* a lower id, of its own a later tile.
Following(t, p) ==
  /\ given = None => \A u \in Sources \ {t} : heads[u] # None => IdOf(t, p) <= heads[u]
  /\ Held /\ given.source = t => \E g \in Due(t) : Before(p, g) /\ IdOf(t, g) = given.id
  /\ Held /\ given.source # t => IdOf(t, p) <= given.id

AdjacentInv ==
  last # None =>
    \E t \in Sources : \E p \in Due(t) : last = Tile(t, IdOf(t, p)) /\ Following(t, p)

\* Of what was handed out all is copied but the tile in hand, each once.
CopyingInv ==
  /\ IF copied = <<>> THEN last = None ELSE last = copied[Len(copied)]
  /\ \A s \in Sources : \A c \in Due(s) :
       Wrote(s, IdOf(s, c)) \/ given = Tile(s, IdOf(s, c))
  /\ Held => \E s \in Sources : \E g \in Due(s) : given = Tile(s, IdOf(s, g))
  /\ IsFiniteSet(AllDue)
  /\ Cardinality(AllDue) = Len(copied) + (IF Held THEN 1 ELSE 0)

LoopInv ==
  /\ StreamInv /\ EndInv /\ CopyingInv /\ AdjacentInv
  /\ indexed => \A s \in Sources : ~TooLong(s)

ShardInv ==
  /\ dir \in Archives /\ copied \in Seq(Tiles)
  /\ merged = None => LoopInv
  /\ WritesUnion /\ RefusalsAreTrue

\* A readable tile below the one in hand, unless its own directory lists it
\* behind a higher id, is copied: the heads are the least of what is to come.
LEMMA BelowGiven ==
  ASSUME Given, LoopInv, NEW s \in Sources, NEW i \in 0..(Top - 1),
         given = Tile(s, i), NEW t \in Sources, NEW c \in InTurn(t), IdOf(t, c) < i
  PROVE  Wrote(t, IdOf(t, c))
<1>1. Held /\ given # End /\ \A f \in Sources : given # Fault(f)
  BY DEF Held, Tile, End, Fault, Given
<1>2. primed /\ Last(s, i)
  <2>1. PICK r \in Sources, j \in 0..(Top - 1) : given = Tile(r, j) /\ Last(r, j)
    BY <1>1 DEF LoopInv, StreamInv
  <2>2. r = s /\ j = i
    BY <2>1 DEF Tile
  <2> QED  BY <1>1, <2>1, <2>2 DEF LoopInv, StreamInv
<1>3. PICK g \in Due(s) : IdOf(s, g) = i
  <2>1. PICK r \in Sources : \E g \in Due(r) : given = Tile(r, IdOf(r, g))
    BY <1>1 DEF LoopInv, CopyingInv
  <2> QED  BY <2>1 DEF Tile
<1>4. /\ dir \in Archives /\ c \in Readable(t) /\ c \in Claims(t) /\ CursorType
      /\ \A b \in Claims(t) : Before(b, c) => IdOf(t, b) <= IdOf(t, c)
      /\ IdOf(t, c) \in Nat
  <2>1. c \in Readable(t) /\ c \in Claims(t)
    BY DEF InTurn, Readable
  <2> QED  BY <2>1, IdType DEF LoopInv, StreamInv, InTurn
<1>5. SUFFICES c \in Due(t)
  <2>1. given # Tile(t, IdOf(t, c))
    BY <1>4 DEF Tile
  <2> QED  BY <2>1 DEF LoopInv, CopyingInv
<1>6. CASE t = s
  <2>1. SUFFICES ASSUME c \notin Due(s)  PROVE FALSE
    BY <1>6
  <2>2. /\ g \in Claims(s) /\ ~Before(Pos(s), g) /\ (heads[s] # None => g # Pos(s))
        /\ c \in Claims(s) /\ (Before(Pos(s), c) \/ (heads[s] # None /\ c = Pos(s)))
    BY <1>4, <1>6, <2>1 DEF Due, Passed
  <2>3. /\ g \in Nat \X Nat /\ c \in Nat \X Nat /\ Pos(s) \in Nat \X Nat
    BY <1>4, <2>2, ClaimPairs, PosPair
  <2>4. Before(g, c)
    BY <2>2, <2>3, BeforeOrder
  <2>5. i <= IdOf(s, c)
    BY <1>3, <1>4, <1>6, <2>2, <2>4
  <2> QED  BY <1>4, <1>6, <2>5
<1>7. CASE t # s /\ heads[t] = None
  <2>1. ReadUp(t)
    BY <1>1, <1>2, <1>7 DEF LoopInv, EndInv
  <2> QED  BY <1>4, <1>7, <2>1 DEF ReadUp, Due
<1>8. CASE t # s /\ heads[t] # None
  <2>1. heads[t] \in 0..(Top - 1)
    BY <1>8 DEF LoopInv, StreamInv
  <2>2. i <= heads[t]
    <3>1. i < heads[t] \/ i = heads[t]
      BY <1>2, <1>8 DEF Last
    <3> QED  BY <2>1, <3>1
  <2>3. PICK p \in Passed(t) : p = Pos(t) /\ heads[t] = IdOf(t, p)
    BY <1>8 DEF LoopInv, StreamInv, SourceInv
  <2>4. SUFFICES ASSUME c \notin Due(t)  PROVE FALSE
    OBVIOUS
  <2>5. p \in Claims(t) /\ (Before(p, c) \/ c = p)
    BY <1>4, <2>3, <2>4 DEF Due, Passed
  <2>6. IdOf(t, p) <= IdOf(t, c)
    BY <1>4, <2>5
  <2> QED  BY <1>4, <2>1, <2>2, <2>3, <2>6
<1> QED  BY <1>6, <1>7, <1>8

LEMMA TileFields ==
  \A s, i : Tile(s, i).source = s /\ Tile(s, i).id = i /\ Tile(s, i).kind = "tile"
BY DEF Tile

\* The stream is asked for its next tile.
LEMMA LoopCalls ==
  ASSUME Given, LoopInv, NextTile
  PROVE  LoopInv'
<1>1. /\ Advance /\ given = None /\ ~Held /\ dir' = dir /\ dir \in Archives
      /\ indexed' = indexed /\ last' = last /\ copied' = copied
      /\ StreamInv /\ EndInv /\ StreamInv'
  <2>1. Advance /\ given = None /\ dir' = dir
    BY DEF NextTile, Advance, Prime, Pop, HandOutError, Dry, iterator
  <2>2. StreamInv'
    BY <2>1, StreamInvAdvance DEF LoopInv
  <2> QED  BY <2>1, <2>2 DEF NextTile, shardLoop, Held, LoopInv, StreamInv
<1>2. /\ Sources' = Sources /\ \A s, c : IdOf(s, c)' = IdOf(s, c)
      /\ \A s, i : Tile(s, i)' = Tile(s, i) /\ Wrote(s, i)' = Wrote(s, i)
      /\ \A s : TooLong(s)' = TooLong(s)
  BY <1>1, DirFixed DEF Tile, Wrote, TooLong, Spent
<1>3. indexed' => \A s \in Sources' : ~TooLong(s)'
  BY <1>1, <1>2 DEF LoopInv
<1>4. IF copied' = <<>> THEN last' = None ELSE last' = copied'[Len(copied')]
  BY <1>1 DEF LoopInv, CopyingInv
<1>5. \A s \in Sources : \A c \in Due(s) : Wrote(s, IdOf(s, c))
  BY <1>1 DEF LoopInv, CopyingInv, Given
<1>6. CASE Pop
  <2>1. PICK s \in Sources : \E g \in Passed(s) :
          /\ g = Pos(s) /\ heads[s] # None /\ First(s)
          /\ heads[s] = IdOf(s, g) /\ given' = Tile(s, IdOf(s, g))
          /\ Due(s)' = Due(s) \cup {g} /\ g \notin Due(s)
          /\ \A t \in Sources \ {s} : Due(t)' = Due(t)
    BY <1>1, <1>6, DuePopped
  <2>2. PICK g \in Passed(s) :
          /\ g = Pos(s) /\ heads[s] # None
          /\ heads[s] = IdOf(s, g) /\ given' = Tile(s, IdOf(s, g))
          /\ Due(s)' = Due(s) \cup {g} /\ g \notin Due(s)
          /\ \A t \in Sources \ {s} : Due(t)' = Due(t)
    BY <2>1
  <2>3. EndInv' /\ Held'
    BY <1>1, <1>6, DuePopped
  <2>4. given'.source = s /\ given'.id = IdOf(s, g)
    BY <2>2, TileFields
  <2>5. AllDue' = AllDue \cup {<<s, g>>} /\ <<s, g>> \notin AllDue
    <3>1. \A t \in Sources : \A c : c \in Due(t)' <=> c \in Due(t) \/ (t = s /\ c = g)
      BY <2>2
    <3>2. \A x : x \in AllDue' <=> \E t \in Sources : \E c \in Due(t)' : x = <<t, c>>
      BY <1>2 DEF AllDue
    <3>3. \A x : x \in AllDue' <=> x \in AllDue \/ x = <<s, g>>
      BY <3>1, <3>2, AllDueElement
    <3>4. <<s, g>> \notin AllDue
      BY <2>2, AllDueElement
    <3> QED  BY <3>3, <3>4
  <2>6. IsFiniteSet(AllDue') /\ Cardinality(AllDue') = Len(copied') + 1
    <3>1. IsFiniteSet(AllDue) /\ Cardinality(AllDue) = Len(copied)
      BY <1>1 DEF LoopInv, CopyingInv
    <3> QED  BY <1>1, <2>5, <3>1, FS_AddElement
  <2>7. \A t \in Sources : \A c \in Due(t)' : Wrote(t, IdOf(t, c)) \/ given' = Tile(t, IdOf(t, c))
    BY <1>5, <2>2
  <2>8. CopyingInv'
    <3>1. \A t \in Sources' : \A c \in Due(t)' :
            Wrote(t, IdOf(t, c))' \/ given' = Tile(t, IdOf(t, c))'
      BY <1>2, <2>7
    <3>2. g \in Due(s)' /\ given' = Tile(s, IdOf(s, g))'
      BY <1>2, <2>2
    <3> QED  BY <1>2, <1>4, <2>3, <2>6, <3>1, <3>2 DEF CopyingInv
  <2>9. ASSUME NEW t \in Sources, NEW p \in Due(t), last = Tile(t, IdOf(t, p)), Following(t, p)
        PROVE  p \in Due(t)' /\ Following(t, p)'
    <3>1. p \in Due(t)'
      BY <2>2, <2>9
    <3>2. CASE t = s
      <4>1. p \in Passed(s) /\ p # g /\ g \in Passed(s)
        BY <2>2, <2>9, <3>2 DEF Due
      <4>2. ~Before(g, p) /\ p \in Nat \X Nat /\ g \in Nat \X Nat
        BY <1>1, <2>2, <4>1, ClaimPairs DEF Passed
      <4>3. Before(p, g)
        BY <4>1, <4>2, BeforeOrder
      <4>4. g \in Due(t)' /\ IdOf(t, g)' = given'.id
        BY <1>2, <2>2, <2>4, <3>2
      <4>5. given' # None /\ \E h \in Due(t)' : Before(p, h) /\ IdOf(t, h)' = given'.id
        BY <2>3, <4>3, <4>4 DEF Held
      <4>6. Following(t, p)' <=>
              /\ given' = None => \A u \in Sources' \ {t} :
                   heads'[u] # None => IdOf(t, p)' <= heads'[u]
              /\ Held' /\ given'.source = t =>
                   \E h \in Due(t)' : Before(p, h) /\ IdOf(t, h)' = given'.id
              /\ Held' /\ given'.source # t => IdOf(t, p)' <= given'.id
        BY DEF Following, Before
      <4> QED  BY <2>4, <3>1, <3>2, <4>5, <4>6
    <3>3. CASE t # s
      <4>1. IdOf(t, p) <= heads[s]
        BY <1>1, <2>2, <2>9, <3>3 DEF Following
      <4>2. IdOf(t, p)' <= given'.id
        BY <1>2, <2>2, <2>4, <4>1
      <4> QED  BY <2>3, <2>4, <3>1, <3>3, <4>2 DEF Following, Held
    <3> QED  BY <3>2, <3>3
  <2>10. AdjacentInv'
    <3>1. ASSUME last' # None  PROVE AdjacentInv'
      <4>1. PICK t \in Sources : \E p \in Due(t) : last = Tile(t, IdOf(t, p)) /\ Following(t, p)
        BY <1>1, <3>1 DEF LoopInv, AdjacentInv
      <4>2. PICK p \in Due(t) : last = Tile(t, IdOf(t, p)) /\ Following(t, p)
        BY <4>1
      <4>3. p \in Due(t)' /\ Following(t, p)'
        BY <2>9, <4>2
      <4>4. last' = Tile(t, IdOf(t, p))' /\ t \in Sources'
        BY <1>1, <1>2, <4>2
      <4> QED  BY <4>3, <4>4 DEF AdjacentInv
    <3> QED  BY <3>1 DEF AdjacentInv
  <2> QED  BY <1>1, <1>3, <2>3, <2>8, <2>10 DEF LoopInv
<1>7. CASE ~Pop
  <2>1. EndInv' /\ ~Held' /\ \A s \in Sources : Due(s)' = Due(s)
    BY <1>1, <1>7, DueWaits
  <2>2. AllDue' = AllDue
    BY <1>2, <2>1 DEF AllDue
  <2>3. CopyingInv'
    <3>1. IsFiniteSet(AllDue) /\ Cardinality(AllDue) = Len(copied) + 0
      BY <1>1 DEF LoopInv, CopyingInv
    <3>2. \A t \in Sources' : \A c \in Due(t)' : Wrote(t, IdOf(t, c))'
      BY <1>2, <1>5, <2>1
    <3> QED  BY <1>1, <1>4, <2>1, <2>2, <3>1, <3>2 DEF CopyingInv
  <2>4. AdjacentInv'
    <3>1. ASSUME last' # None  PROVE AdjacentInv'
      <4>1. PICK t \in Sources : \E p \in Due(t) : last = Tile(t, IdOf(t, p))
        BY <1>1, <3>1 DEF LoopInv, AdjacentInv
      <4>2. PICK p \in Due(t) : last = Tile(t, IdOf(t, p))
        BY <4>1
      <4>3. ~Prime
        BY <1>1, <4>2, DuePrimed
      <4>4. given' # None
        BY <1>1, <1>7, <4>3 DEF Advance, HandOutError, Dry, Given
      <4>5. Following(t, p)'
        BY <2>1, <4>4 DEF Following
      <4>6. last' = Tile(t, IdOf(t, p))' /\ t \in Sources' /\ p \in Due(t)'
        BY <1>1, <1>2, <2>1, <4>2
      <4> QED  BY <4>5, <4>6 DEF AdjacentInv
    <3> QED  BY <3>1 DEF AdjacentInv
  <2> QED  BY <1>1, <1>3, <2>1, <2>3, <2>4 DEF LoopInv
<1> QED  BY <1>6, <1>7

LEMMA Appended ==
  ASSUME NEW S, copied \in Seq(S), NEW x \in S, copied' = Append(copied, x)
  PROVE  /\ copied' \in Seq(S) /\ Len(copied) \in Nat /\ Len(copied') = Len(copied) + 1
         /\ copied' # <<>>
         /\ copied'[Len(copied')] = x
         /\ \A k \in 1..Len(copied) : copied[k] \in S /\ copied'[k] = copied[k]
         /\ \A k : k \in 1..Len(copied') <=> k \in 1..Len(copied) \/ k = Len(copied) + 1
         /\ \A s, i : Wrote(s, i)' <=> Wrote(s, i) \/ x = Tile(s, i)
<1>1. /\ copied' \in Seq(S) /\ Len(copied) \in Nat /\ Len(copied') = Len(copied) + 1
      /\ copied'[Len(copied) + 1] = x
      /\ \A k \in 1..Len(copied) : copied[k] \in S /\ copied'[k] = copied[k]
  OBVIOUS
<1>2. \A k : k \in 1..Len(copied') <=> k \in 1..Len(copied) \/ k = Len(copied) + 1
  BY <1>1
<1>3. copied' # <<>>
  BY <1>1
<1>4. \A s, i : Wrote(s, i)' <=> Wrote(s, i) \/ x = Tile(s, i)
  BY <1>1, <1>2 DEF Wrote, Tile
<1> QED  BY <1>1, <1>2, <1>3, <1>4

\* The tile in hand, with what is known of it.
LEMMA InHand ==
  ASSUME Given, LoopInv, Held
  PROVE  /\ primed /\ given \in Tiles
         /\ \E s \in Sources, i \in 0..(Top - 1) :
              /\ given = Tile(s, i) /\ given.source = s /\ given.id = i /\ Last(s, i)
              /\ \E g \in Due(s) : IdOf(s, g) = i
<1>1. PICK s \in Sources, i \in 0..(Top - 1) : given = Tile(s, i) /\ Last(s, i)
  BY DEF LoopInv, StreamInv
<1>2. PICK r \in Sources : \E g \in Due(r) : given = Tile(r, IdOf(r, g))
  BY DEF LoopInv, CopyingInv
<1>3. given.source = s /\ given.id = i /\ r = s /\ \E g \in Due(s) : IdOf(s, g) = i
  BY <1>1, <1>2 DEF Tile
<1>4. given \in Tiles /\ primed
  BY <1>1 DEF Tiles, LoopInv, StreamInv
<1> QED  BY <1>1, <1>3, <1>4

\* The tile in hand is copied.
LEMMA LoopCopies ==
  ASSUME Given, LoopInv, copied \in Seq(Tiles), Copy
  PROVE  LoopInv' /\ copied' \in Seq(Tiles)'
<1>1. /\ given # None /\ given.kind = "tile" /\ Held /\ UNCHANGED iterator /\ given' = None
      /\ last' = given /\ copied' = Append(copied, given) /\ indexed' = indexed
      /\ UNCHANGED <<dir, cursor, heads, primed, pending>>
  BY DEF Copy, Held, iterator
<1>2. PICK s \in Sources, i \in 0..(Top - 1) :
        /\ given = Tile(s, i) /\ Last(s, i) /\ \E g \in Due(s) : IdOf(s, g) = i
  BY <1>1, InHand
<1>3. PICK g \in Due(s) : IdOf(s, g) = i
  BY <1>2
<1>4. /\ copied' \in Seq(Tiles) /\ Len(copied) \in Nat /\ Len(copied') = Len(copied) + 1
      /\ copied' # <<>> /\ copied'[Len(copied')] = given
      /\ \A t, j : Wrote(t, j)' <=> Wrote(t, j) \/ given = Tile(t, j)
  BY <1>1, Appended, InHand
<1>5. /\ Sources' = Sources /\ AllDue' = AllDue
      /\ \A t : /\ Due(t)' = Due(t) /\ ReadUp(t)' = ReadUp(t) /\ Pos(t)' = Pos(t)
                /\ Readable(t)' = Readable(t) /\ Claims(t)' = Claims(t)
                /\ TooLong(t)' = TooLong(t) /\ Fault(t)' = Fault(t)
      /\ \A t, c : IdOf(t, c)' = IdOf(t, c)
      /\ \A t, j : Tile(t, j)' = Tile(t, j)
  BY <1>1, DueKept
<1>6. Tiles' = Tiles
  BY <1>5 DEF Tiles
<1>7. StreamInv'
  BY <1>1, StreamInvUsed DEF LoopInv
<1>8. ~Held' /\ \A t : given' # Fault(t)
  BY <1>1 DEF Held, Given
<1>9. EndInv'
  <2>1. primed => \A t \in Sources : heads[t] = None => ReadUp(t)
    BY <1>1 DEF LoopInv, EndInv
  <2> QED  BY <1>1, <1>5, <1>8, <2>1 DEF LoopInv, EndInv
<1>10. CopyingInv'
  <2>1. Cardinality(AllDue) = Len(copied) + 1 /\ IsFiniteSet(AllDue)
    BY <1>1 DEF LoopInv, CopyingInv
  <2>2. \A t \in Sources' : \A c \in Due(t)' : Wrote(t, IdOf(t, c))'
    BY <1>4, <1>5 DEF LoopInv, CopyingInv
  <2> QED  BY <1>1, <1>4, <1>5, <1>8, <2>1, <2>2 DEF CopyingInv
<1>11. AdjacentInv'
  <2>1. \A u \in Sources \ {s} : heads[u] # None => i <= heads[u]
    <3>1. \A u \in Sources : heads[u] \in 0..(Top - 1) \cup {None}
      BY DEF LoopInv, StreamInv
    <3>2. \A u \in Sources \ {s} : heads[u] # None => i < heads[u] \/ i = heads[u]
      BY <1>2 DEF Last
    <3> QED  BY <3>1, <3>2
  <2>2. Following(s, g)'
    BY <1>1, <1>3, <1>5, <1>8, <2>1 DEF Following
  <2>3. last' = Tile(s, IdOf(s, g))' /\ g \in Due(s)' /\ s \in Sources'
    BY <1>1, <1>2, <1>3, <1>5
  <2> QED  BY <2>2, <2>3 DEF AdjacentInv
<1>12. indexed' => \A t \in Sources' : ~TooLong(t)'
  BY <1>1, <1>5 DEF LoopInv
<1> QED  BY <1>4, <1>6, <1>7, <1>9, <1>10, <1>11, <1>12 DEF LoopInv

\* The steps that leave the output as it is.
LEMMA ShardSteps ==
  ASSUME Given, ShardInv, ShardsNext
  PROVE  /\ merged = None /\ LoopInv /\ dir' = dir
         /\ Copy \/ copied' = copied
<1>1. merged = None
  BY DEF ShardsNext, Index, NextTile, Refuse, Copy, CopyFails, ReadStops, Finalize, Looping
<1>2. dir' = dir /\ (Copy \/ copied' = copied)
  BY DEF ShardsNext, Index, NextTile, Refuse, CopyFails, ReadStops, Finalize, Copy,
         stream, iterator, shardLoop, Advance, Prime, Pop, HandOutError, Dry
<1> QED  BY <1>1, <1>2 DEF ShardInv

LEMMA DirKept ==
  ASSUME dir' = dir
  PROVE  /\ Sources' = Sources /\ Tiles' = Tiles
         /\ \A s : /\ Claims(s)' = Claims(s) /\ Readable(s)' = Readable(s)
                   /\ ReadableIds(s)' = ReadableIds(s) /\ TooLong(s)' = TooLong(s)
                   /\ InTurn(s)' = InTurn(s)
         /\ \A s, c : IdOf(s, c)' = IdOf(s, c) /\ OutOfTurn(s, c)' = OutOfTurn(s, c)
<1>1. Sources' = Sources
  BY DirFixed
<1>2. Tiles' = Tiles
  BY <1>1 DEF Tiles, Tile
<1>3. \A s : TooLong(s)' = TooLong(s)
  BY DEF TooLong, Spent
<1> QED  BY <1>1, <1>2, <1>3, DirFixed

\* The first two parts of WritesUnion.
Clustered ==
  /\ \A j, k \in 1..Len(copied) : j < k => copied[j].id < copied[k].id
  /\ copied # <<>> => \A s \in Sources : \A c \in InTurn(s) :
       IdOf(s, c) < copied[Len(copied)].id => Wrote(s, IdOf(s, c))

\* Nothing is passed over, and no id comes twice: the tile in hand is above the
\* last one.
LEMMA ClusteredNext ==
  ASSUME Given, ShardInv, ShardsNext
  PROVE  Clustered'
<1>0. /\ merged = None /\ LoopInv /\ dir' = dir /\ copied \in Seq(Tiles) /\ Clustered
      /\ Sources' = Sources /\ \A s : InTurn(s)' = InTurn(s)
      /\ \A s, c : IdOf(s, c)' = IdOf(s, c)
  BY ShardSteps, DirKept DEF ShardInv, WritesUnion, Clustered
<1>1. CASE copied' = copied
  <2>1. \A s, i : Wrote(s, i)' <=> Wrote(s, i)
    BY <1>1 DEF Wrote, Tile
  <2> QED  BY <1>0, <1>1, <2>1 DEF Clustered
<1>2. CASE Copy
  <2>1. Held /\ copied' = Append(copied, given) /\ ~Repeats /\ given \in Tiles
    BY <1>0, <1>2, InHand DEF Copy, Held
  <2>2. PICK s \in Sources, i \in 0..(Top - 1) : given = Tile(s, i) /\ given.id = i
    BY <1>0, <2>1, InHand
  <2>3. /\ Len(copied) \in Nat /\ Len(copied') = Len(copied) + 1
        /\ copied' # <<>> /\ copied'[Len(copied')] = given
        /\ \A k \in 1..Len(copied) : copied[k] \in Tiles /\ copied'[k] = copied[k]
        /\ \A k : k \in 1..Len(copied') <=> k \in 1..Len(copied) \/ k = Len(copied) + 1
        /\ \A t, n : Wrote(t, n)' <=> Wrote(t, n) \/ given = Tile(t, n)
    BY <1>0, <2>1, Appended
  <2>4. \A k \in 1..Len(copied) : copied[k].id \in Nat
    <3>1. \A x \in Tiles : x.id \in Nat
      BY DEF Tiles, Tile
    <3> QED  BY <2>3, <3>1
  <2>5. ASSUME NEW k \in 1..Len(copied)  PROVE copied[k].id < i
    <3>1. copied # <<>> /\ last = copied[Len(copied)] /\ Len(copied) \in 1..Len(copied)
      BY <1>0, <2>3 DEF LoopInv, CopyingInv
    <3>2. last # None
      <4>1. copied[Len(copied)] \in Tiles
        BY <2>3, <3>1
      <4> QED  BY <3>1, <4>1 DEF Tiles, Given
    <3>3. last.id < i
      BY <2>1, <2>2, <2>4, <3>1, <3>2 DEF Repeats
    <3>4. k < Len(copied) => copied[k].id < last.id
      BY <1>0, <3>1 DEF Clustered
    <3>5. k = Len(copied) => copied[k].id = last.id
      BY <3>1
    <3>6. copied[k].id \in Nat /\ last.id \in Nat
      BY <2>4, <3>1
    <3> QED  BY <2>3, <3>3, <3>4, <3>5, <3>6
  <2>6. ASSUME NEW j \in 1..Len(copied'), NEW k \in 1..Len(copied'), j < k
        PROVE  copied'[j].id < copied'[k].id
    <3>1. j \in 1..Len(copied)
      BY <2>3, <2>6
    <3>2. CASE k \in 1..Len(copied)
      BY <1>0, <2>3, <2>6, <3>1, <3>2 DEF Clustered
    <3>3. CASE k = Len(copied) + 1
      BY <2>2, <2>3, <2>5, <3>1, <3>3
    <3> QED  BY <2>3, <3>2, <3>3
  <2>7. ASSUME NEW t \in Sources, NEW c \in InTurn(t), IdOf(t, c) < i
        PROVE  Wrote(t, IdOf(t, c))'
    <3>1. Wrote(t, IdOf(t, c))
      BY <1>0, <2>2, <2>7, BelowGiven
    <3> QED  BY <1>0, <2>3, <3>1
  <2> QED  BY <1>0, <2>2, <2>3, <2>6, <2>7 DEF Clustered
<1> QED  BY <1>0, <1>1, <1>2, ShardSteps

\* What a merge that is done has done.
AllIn ==
  /\ \A s \in Sources : Readable(s) = Claims(s)
  /\ \A s \in Sources : \A i \in ReadableIds(s) : Wrote(s, i)
  /\ Len(copied) = Cardinality(UNION {{s} \X Claims(s) : s \in Sources})

LEMMA AllInAtEnd ==
  ASSUME Given, LoopInv, copied \in Seq(Tiles), given = End
  PROVE  AllIn
<1>1. /\ primed /\ pending = None /\ \A s \in Sources : heads[s] = None
      /\ ~Held /\ ~Broken /\ given # None
  BY DEF LoopInv, StreamInv, Held, Broken, End, Given
<1>2. \A s \in Sources : Passed(s) = Claims(s)
  BY <1>1 DEF LoopInv, StreamInv, SourceInv
<1>3. \A s \in Sources : Due(s) = Claims(s)
  BY <1>1, <1>2 DEF Due
<1>4. \A s \in Sources : Readable(s) = Claims(s)
  BY <1>2, PassedReadable DEF LoopInv
<1>5. ASSUME NEW s \in Sources, NEW i \in ReadableIds(s)  PROVE Wrote(s, i)
  <2>1. PICK c \in Claims(s) : i = IdOf(s, c)
    BY <1>4 DEF ReadableIds
  <2>2. given # Tile(s, IdOf(s, c))
    BY DEF Tile, End
  <2> QED  BY <1>3, <2>1, <2>2 DEF LoopInv, CopyingInv
<1>6. AllDue = UNION {{s} \X Claims(s) : s \in Sources}
  BY <1>3 DEF AllDue
<1>7. Len(copied) = Cardinality(AllDue)
  <2>1. Cardinality(AllDue) = Len(copied) + 0 /\ IsFiniteSet(AllDue)
    BY <1>1 DEF LoopInv, CopyingInv
  <2>2. Len(copied) \in Nat
    OBVIOUS
  <2> QED  BY <2>1, <2>2
<1> QED  BY <1>4, <1>5, <1>6, <1>7 DEF AllIn

LEMMA LoopKept ==
  ASSUME Given, LoopInv, StreamInv', UNCHANGED <<dir, cursor, heads, pending, primed, given>>,
         last' = last, copied' = copied, indexed' => \A s \in Sources : ~TooLong(s)
  PROVE  LoopInv'
<1>1. /\ Sources' = Sources /\ AllDue' = AllDue
      /\ \A s : /\ Due(s)' = Due(s) /\ ReadUp(s)' = ReadUp(s) /\ Pos(s)' = Pos(s)
                /\ Readable(s)' = Readable(s) /\ Claims(s)' = Claims(s)
                /\ TooLong(s)' = TooLong(s) /\ Fault(s)' = Fault(s)
      /\ \A s, c : IdOf(s, c)' = IdOf(s, c)
      /\ \A s, i : Tile(s, i)' = Tile(s, i) /\ Wrote(s, i)' = Wrote(s, i)
      /\ Held' = Held
  BY DueKept DEF Wrote, Held, Tile
<1>2. EndInv'
  BY <1>1 DEF LoopInv, EndInv
<1>3. CopyingInv'
  BY <1>1 DEF LoopInv, CopyingInv
<1>4. ASSUME NEW t, NEW p, Following(t, p)  PROVE Following(t, p)'
  BY <1>1, <1>4 DEF Following, Before
<1>5. AdjacentInv'
  BY <1>1, <1>4 DEF LoopInv, AdjacentInv
<1> QED  BY <1>1, <1>2, <1>3, <1>5 DEF LoopInv

LEMMA WritesUnionNext ==
  ASSUME Given, ShardInv, ShardsNext
  PROVE  WritesUnion'
<1>1. Clustered'
  BY ClusteredNext
<1>2. merged' # None /\ merged'.kind = "done" => AllIn'
  <2>1. ASSUME merged' # None, merged'.kind = "done"  PROVE Finalize
    <3>1. merged = None
      BY ShardSteps
    <3>2. Index => merged'.kind = "limit" \/ merged' = None
      BY <3>1 DEF Index, Fails
    <3>3. /\ Refuse => merged'.kind = "overlap"
          /\ CopyFails => merged'.kind = "io"
          /\ ReadStops => merged'.kind = "fault"
      BY DEF Refuse, CopyFails, ReadStops, Fails
    <3>4. NextTile \/ Copy => merged' = None
      BY <3>1 DEF NextTile, Copy, shardLoop
    <3> QED  BY <2>1, <3>2, <3>3, <3>4 DEF ShardsNext
  <2>2. ASSUME Finalize  PROVE AllIn'
    <3>1. given = End /\ dir' = dir /\ copied' = copied
      BY <2>2 DEF Finalize, stream, iterator
    <3>2. AllIn
      BY <3>1, ShardSteps, AllInAtEnd DEF ShardInv
    <3>3. \A s, i : Wrote(s, i)' <=> Wrote(s, i)
      BY <3>1 DEF Wrote, Tile
    <3>4. UNION {{s} \X Claims(s)' : s \in Sources'} = UNION {{s} \X Claims(s) : s \in Sources}
      BY <3>1, DirKept
    <3> QED  BY <3>1, <3>2, <3>3, <3>4, DirKept DEF AllIn
  <2> QED  BY <2>1, <2>2
<1> QED  BY <1>1, <1>2 DEF WritesUnion, Clustered, AllIn

\* A refusal names two archives that hold the id, or one that lists it out of
\* turn.
LEMMA OverlapTrue ==
  ASSUME Given, LoopInv, Refuse
  PROVE  IF merged'.first # merged'.second
         THEN merged'.id \in ReadableIds(merged'.first) \cap ReadableIds(merged'.second)
         ELSE OutOfTurn(merged'.first, merged'.id)
<1>1. /\ Held /\ last # None /\ given.id <= last.id
      /\ merged' = [kind |-> "overlap", first |-> last.source,
                    second |-> given.source, id |-> given.id]
  BY DEF Refuse, Held, Repeats
<1>2. PICK s \in Sources, i \in 0..(Top - 1) :
        /\ given = Tile(s, i) /\ given.source = s /\ given.id = i
        /\ \E g \in Due(s) : IdOf(s, g) = i
  BY <1>1, InHand
<1>3. PICK t \in Sources : \E p \in Due(t) : last = Tile(t, IdOf(t, p)) /\ Following(t, p)
  BY <1>1 DEF LoopInv, AdjacentInv
<1>4. PICK p \in Due(t) : last = Tile(t, IdOf(t, p)) /\ Following(t, p)
  BY <1>3
<1>5. last.source = t /\ last.id = IdOf(t, p) /\ i <= IdOf(t, p)
  BY <1>1, <1>2, <1>4, TileFields
<1>6. merged'.first = t /\ merged'.second = s /\ merged'.id = i
  BY <1>1, <1>2, <1>5
<1>7. /\ dir \in Archives /\ \A u \in Sources : Due(u) \subseteq Readable(u)
      /\ \A u \in Sources : Due(u) \subseteq Claims(u)
  BY PassedReadable DEF LoopInv, StreamInv, Due, Passed
<1>8. IdOf(t, p) \in Nat
  BY <1>7, IdType
<1>9. CASE t # s
  <2>1. IdOf(t, p) <= i
    BY <1>1, <1>2, <1>4, <1>9 DEF Following
  <2>2. IdOf(t, p) = i
    BY <1>5, <1>8, <2>1
  <2>3. i \in ReadableIds(t) /\ i \in ReadableIds(s)
    BY <1>2, <1>7, <2>2 DEF ReadableIds
  <2> QED  BY <1>6, <1>9, <2>3
<1>10. CASE t = s
  <2>1. PICK g \in Due(s) : Before(p, g) /\ IdOf(s, g) = i
    BY <1>1, <1>2, <1>4, <1>10 DEF Following
  <2>2. p \in Claims(s) /\ g \in Claims(s) /\ g \in Readable(s) /\ p \in Readable(s)
    BY <1>7, <1>10
  <2>3. OutOfTurn(s, i)
    BY <1>5, <1>10, <2>1, <2>2 DEF OutOfTurn
  <2> QED  BY <1>6, <1>10, <2>3
<1> QED  BY <1>9, <1>10

\* An archive reported as unreadable is, and all it yields is copied.
LEMMA FaultTrue ==
  ASSUME Given, LoopInv, ReadStops
  PROVE  \E s \in Sources :
           /\ merged'.source = s /\ Readable(s) # Claims(s) /\ ~TooLong(s)
           /\ \A i \in ReadableIds(s) : Wrote(s, i)
<1>1. given # None /\ given.kind = "fault" /\ indexed /\ merged'.source = given.source
  BY DEF ReadStops, Fails, Looping
<1>2. PICK s \in Sources : given = Fault(s) /\ given.source = s
  BY <1>1 DEF LoopInv, EndInv, Fault
<1>3. heads[s] = None /\ ReadUp(s) /\ Readable(s) # Claims(s)
  BY <1>2 DEF LoopInv, EndInv
<1>4. ASSUME NEW i \in ReadableIds(s)  PROVE Wrote(s, i)
  <2>1. PICK c \in Readable(s) : i = IdOf(s, c)
    BY DEF ReadableIds
  <2>2. c \in Due(s)
    BY <1>3 DEF ReadUp, Due
  <2>3. given # Tile(s, IdOf(s, c))
    BY <1>1, TileFields
  <2> QED  BY <2>1, <2>2, <2>3 DEF LoopInv, CopyingInv
<1> QED  BY <1>1, <1>2, <1>3, <1>4 DEF LoopInv

LEMMA RefusalsNext ==
  ASSUME Given, ShardInv, ShardsNext
  PROVE  RefusalsAreTrue'
<1>1. /\ merged = None /\ LoopInv /\ dir' = dir
      /\ \A s : /\ Claims(s)' = Claims(s) /\ Readable(s)' = Readable(s)
                /\ ReadableIds(s)' = ReadableIds(s) /\ TooLong(s)' = TooLong(s)
      /\ \A s, c : IdOf(s, c)' = IdOf(s, c) /\ OutOfTurn(s, c)' = OutOfTurn(s, c)
  BY ShardSteps, DirKept
<1>2. CASE Refuse
  <2>1. merged'.kind = "overlap"
    BY <1>2 DEF Refuse
  <2>2. PICK a, b, i : a = merged'.first /\ b = merged'.second /\ i = merged'.id
    OBVIOUS
  <2>3. IF a # b THEN i \in ReadableIds(a) \cap ReadableIds(b) ELSE OutOfTurn(a, i)
    BY <1>1, <1>2, <2>2, OverlapTrue
  <2>4. IF a # b THEN i \in ReadableIds(a)' \cap ReadableIds(b)' ELSE OutOfTurn(a, i)'
    BY <1>1, <2>3
  <2> QED  BY <2>1, <2>2, <2>4 DEF RefusalsAreTrue
<1>3. CASE ReadStops
  <2>1. merged'.kind = "fault" /\ copied' = copied
    BY <1>3 DEF ReadStops, Fails
  <2>2. PICK s \in Sources :
          /\ merged'.source = s /\ Readable(s) # Claims(s) /\ ~TooLong(s)
          /\ \A i \in ReadableIds(s) : Wrote(s, i)
    BY <1>1, <1>3, FaultTrue
  <2>3. \A t, i : Wrote(t, i)' <=> Wrote(t, i)
    BY <2>1 DEF Wrote, Tile
  <2>4. Readable(s)' # Claims(s)' /\ ~TooLong(s)' /\ \A i \in ReadableIds(s)' : Wrote(s, i)'
    BY <1>1, <2>2, <2>3
  <2> QED  BY <2>1, <2>2, <2>4 DEF RefusalsAreTrue
<1>4. CASE ~Refuse /\ ~ReadStops
  <2>1. merged' # None => merged'.kind # "overlap" /\ merged'.kind # "fault"
    <3>1. Index => merged'.kind = "limit" \/ merged' = None
      BY <1>1 DEF Index, Fails
    <3>2. CopyFails => merged'.kind = "io"
      BY DEF CopyFails, Fails
    <3>3. NextTile \/ Copy => merged' = None
      BY <1>1 DEF NextTile, Copy, shardLoop
    <3>4. Finalize => merged'.kind \in {"done", "io"}
      BY DEF Finalize
    <3> QED  BY <1>4, <3>1, <3>2, <3>3, <3>4 DEF ShardsNext
  <2> QED  BY <2>1 DEF RefusalsAreTrue
<1> QED  BY <1>2, <1>3, <1>4

LEMMA LoopNext ==
  ASSUME Given, ShardInv, ShardsNext
  PROVE  /\ dir' \in Archives /\ copied' \in Seq(Tiles)'
         /\ merged' = None => LoopInv'
<1>1. /\ merged = None /\ LoopInv /\ dir' = dir /\ dir \in Archives
      /\ copied \in Seq(Tiles) /\ Tiles' = Tiles
  BY ShardSteps, DirKept DEF ShardInv
<1>2. CASE Copy
  BY <1>1, <1>2, LoopCopies
<1>3. CASE NextTile
  BY <1>1, <1>3, LoopCalls, ShardSteps DEF NextTile, shardLoop
<1>4. CASE Index
  <2>1. ASSUME merged' = None  PROVE LoopInv'
    <3>1. /\ UNCHANGED stream /\ UNCHANGED <<dir, cursor, heads, pending, primed, given>>
          /\ last' = last /\ copied' = copied
          /\ \A s \in Sources : ~TooLong(s)
      BY <1>4, <2>1 DEF Index, Fails, stream, iterator, Given
    <3>2. StreamInv'
      BY <1>1, <3>1, StreamInvKept DEF LoopInv
    <3> QED  BY <1>1, <3>1, <3>2, LoopKept
  <2> QED  BY <1>1, <1>4, <2>1, ShardSteps DEF Index
<1>5. CASE Refuse \/ CopyFails \/ ReadStops \/ Finalize
  <2>1. merged' # None
    BY <1>5 DEF Refuse, CopyFails, ReadStops, Finalize, Fails, Given
  <2>2. copied' = copied
    BY <1>5 DEF Refuse, CopyFails, ReadStops, Finalize
  <2> QED  BY <1>1, <2>1, <2>2
<1> QED  BY <1>2, <1>3, <1>4, <1>5 DEF ShardsNext

LEMMA ShardInvariant ==
  ASSUME Given  PROVE ShardsSpec => []ShardInv
<1>1. ShardsInit => ShardInv
  <2> SUFFICES ASSUME ShardsInit  PROVE ShardInv
    OBVIOUS
  <2>1. /\ StreamInit /\ indexed = FALSE /\ last = None /\ copied = <<>> /\ merged = None
        /\ dir \in Archives /\ given = None /\ pending = None /\ ~primed
        /\ heads = [s \in Sources |-> None]
        /\ \A s \in Sources : Pos(s) = <<0, 0>> /\ heads[s] = None
    BY DEF ShardsInit, StreamInit, Pos
  <2>2. \A s \in Sources : Due(s) = {}
    BY <2>1, StartEmpty DEF Due
  <2>3. AllDue = {}
    BY <2>2 DEF AllDue
  <2>4. ~Held /\ Len(copied) = 0 /\ copied \in Seq(Tiles)
    BY <2>1 DEF Held
  <2>5. EndInv
    <3>1. \A s \in Sources : pending # s /\ given # Fault(s)
      BY <2>1, NoneApart DEF Given
    <3> QED  BY <2>1, <3>1 DEF EndInv
  <2>6. IsFiniteSet(AllDue) /\ Cardinality(AllDue) = 0
    BY <2>3, FS_EmptySet
  <2>7. CopyingInv
    BY <2>1, <2>2, <2>4, <2>6 DEF CopyingInv
  <2>8. LoopInv
    BY <2>1, <2>5, <2>7, StreamInvInit DEF LoopInv, AdjacentInv
  <2>9. WritesUnion /\ RefusalsAreTrue
    BY <2>1, <2>4 DEF WritesUnion, RefusalsAreTrue
  <2> QED  BY <2>1, <2>4, <2>8, <2>9 DEF ShardInv
<1>2. ShardInv /\ [ShardsNext]_shardVars => ShardInv'
  <2> SUFFICES ASSUME ShardInv, [ShardsNext]_shardVars  PROVE ShardInv'
    OBVIOUS
  <2>1. CASE ShardsNext
    BY <2>1, LoopNext, WritesUnionNext, RefusalsNext DEF ShardInv
  <2>2. CASE UNCHANGED shardVars
    <3>1. /\ UNCHANGED stream /\ UNCHANGED <<dir, cursor, heads, pending, primed, given>>
          /\ last' = last /\ copied' = copied /\ merged' = merged /\ indexed' = indexed
      BY <2>2 DEF shardVars, shardLoop, stream, iterator
    <3>2. /\ Sources' = Sources /\ Tiles' = Tiles
          /\ \A s : /\ Claims(s)' = Claims(s) /\ Readable(s)' = Readable(s)
                    /\ ReadableIds(s)' = ReadableIds(s) /\ TooLong(s)' = TooLong(s)
                    /\ InTurn(s)' = InTurn(s)
          /\ \A s, c : IdOf(s, c)' = IdOf(s, c) /\ OutOfTurn(s, c)' = OutOfTurn(s, c)
          /\ \A s, i : Wrote(s, i)' <=> Wrote(s, i)
      BY <3>1, DirKept DEF Wrote, Tile
    <3>3. WritesUnion'
      <4>1. UNION {{s} \X Claims(s)' : s \in Sources'} = UNION {{s} \X Claims(s) : s \in Sources}
        BY <3>2
      <4> QED  BY <3>1, <3>2, <4>1 DEF ShardInv, WritesUnion
    <3>4. RefusalsAreTrue'
      <4>1. PICK a, b, i, r : a = merged.first /\ b = merged.second /\ i = merged.id
                              /\ r = merged.source
        OBVIOUS
      <4> QED  BY <3>1, <3>2, <4>1 DEF ShardInv, RefusalsAreTrue
    <3>5. merged' = None => LoopInv'
      <4>1. ASSUME merged = None  PROVE LoopInv'
        <5>1. StreamInv'
          BY <3>1, <4>1, StreamInvKept DEF ShardInv, LoopInv
        <5>2. indexed' => \A s \in Sources : ~TooLong(s)
          BY <3>1, <4>1 DEF ShardInv, LoopInv
        <5> QED  BY <3>1, <4>1, <5>1, <5>2, LoopKept DEF ShardInv
      <4> QED  BY <3>1, <4>1
    <3> QED  BY <3>1, <3>2, <3>3, <3>4, <3>5 DEF ShardInv
  <2> QED  BY <2>1, <2>2
<1> QED  BY <1>1, <1>2, PTL DEF ShardsSpec

\* merge_shards writes, at every moment, in strictly ascending order every
\* readable tile of every input below the last one, except those that a
\* directory lists behind a higher id; and when it returns as done it took
\* every tile of every input, each once.  Runs may overlap, and directories
\* break off or fall behind.
THEOREM UnionWritten ==
  ASSUME Given  PROVE ShardsSpec => []WritesUnion
<1>1. ShardInv => WritesUnion
  BY DEF ShardInv
<1> QED  BY <1>1, ShardInvariant, PTL

\* What merge_shards blames is to blame: it compares neighbours in the stream
\* only, yet an overlap it reports is one of the two archives it names (or the
\* one lists the id after itself or after a higher one), and an archive it
\* calls unreadable is, after all its readable tiles were copied.
THEOREM BlamedRightly ==
  ASSUME Given  PROVE ShardsSpec => []RefusalsAreTrue
<1>1. ShardInv => RefusalsAreTrue
  BY DEF ShardInv
<1> QED  BY <1>1, ShardInvariant, PTL

=============================================================================
