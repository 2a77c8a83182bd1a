--------------------------- MODULE Library_proofs ---------------------------
(***************************************************************************)
(* Proofs about the library: entries are whole, an identity has one entry, *)
(* and an entry of a pasted page has the page.                             *)
(***************************************************************************)
EXTENDS Library, TLAPS

\* What a handler's locals look like at each of its steps.
Shape(r) ==
    /\ r \in Runs
    /\ r.at = "idle" => r = Idle
    /\ r.at # "idle" => r.id \in Ids
    /\ r.at \in {"write", "link", "record", "delete"} => r.path \in Paths
    /\ r.at \in {"write", "link"} => r.does = "add"
    /\ r.at = "record" => r.does \in {"add", "copy"}
    /\ r.at \in {"unlink", "delete"} => r.does \in {"add", "remove"}
    /\ r.at = "link" => r.id \in Links
    /\ r.at = "delete" => r.path \in r.todo
    /\ r.at = "unlink" => r.todo # {}
    /\ r.at = "forget" => r.todo = {} /\ r.does = "remove" /\ r.id \in Links
    /\ r.does = "copy" => r.at = "record" /\ r.old = none
    /\ r.at \in {"write", "link", "record"} /\ r.id \in Titles => r.old = none

Shapes == \A h \in Handlers : Shape(run[h])

\* Two handlers that claim the same are excused, and raced if it is an identity
\* and one of them removes it.
Apart ==
    \A g, h \in Handlers : g # h =>
        \A x \in Claims(run[g]) \cap Claims(run[h]) :
            /\ x \in excused
            /\ x \in Ids /\ "remove" \in {run[g].does, run[h].does} => x \in raced

\* What is on a path that a handler claims: whole, but for the one it is writing or
\* removing; and the row it found is still that of its identity.
OnPath(r, q) ==
    /\ IF r.at \in {"link", "record"} /\ r.does = "add" /\ q = r.path THEN file[q] = r.id
       ELSE IF r.at = "delete" /\ q = r.path THEN file[q] = none
       ELSE file[q] = row[q]
    /\ r.at \in {"write", "link", "record"} /\ (q = r.old \/ (r.does = "copy" /\ q = r.path)) => row[q] = r.id

PathsAreInHand == \A h \in Handlers : \A q \in (Paths \cap Claims(run[h])) \ excused : OnPath(run[h], q)

\* Where the rows of a handler's identity are.
OfId(r) ==
    \A p, q \in Rows(r.id) :
        CASE r.at \in {"write", "link", "record"} /\ r.does = "add" -> q = r.old
          [] r.does = "copy" -> q = r.path
          [] OTHER -> p \in r.todo \/ q \in r.todo \/ p = q

IdsAreInHand == \A h \in Handlers : run[h].id \in (Items \cup Links) \ excused => OfId(run[h])

\* A link's row is recorded after the link, and removed before it.
OfLink(r) ==
    /\ r.at = "record" => r.id \in links
    /\ r.does = "remove" => Rows(r.id) \subseteq r.todo

LinksAreInHand == \A h \in Handlers : run[h].id \in Links \ raced => OfLink(run[h])

IInv ==
    /\ TypeOK /\ Shapes /\ Apart
    /\ PathsAreInHand /\ EntriesAreWhole
    /\ IdsAreInHand /\ OneEntryEach
    /\ LinksAreInHand /\ EntriesHaveTheirLink
-----------------------------------------------------------------------------
(* Types *)

LEMMA IdleShape == Shape(Idle) /\ Claims(Idle) = {} /\ Idle.at = "idle" /\ Idle.id = none /\ Idle.does = "nothing"
BY LibraryAssumption DEF Shape, Idle, Runs, Claims, Ids

\* What a step of one handler does to all.
LEMMA Becoming ==
    ASSUME TypeOK, Shapes, NEW h \in Handlers, NEW r, Shape(r), Becomes(h, r)
    PROVE  run' \in [Handlers -> Runs] /\ Shapes' /\ \A g \in Handlers : run'[g] = IF g = h THEN r ELSE run[g]
<1>1. run \in [Handlers -> Runs] /\ r \in Runs
  BY DEF TypeOK, Shape
<1>2. \A g \in Handlers : run'[g] = IF g = h THEN r ELSE run[g]
  BY <1>1 DEF Becomes
<1>3. QED
  BY <1>1, <1>2 DEF Becomes, Shapes

LEMMA Ending ==
    ASSUME TypeOK, Shapes, NEW h \in Handlers, Ends(h)
    PROVE  run' \in [Handlers -> Runs] /\ Shapes' /\ \A g \in Handlers : run'[g] = IF g = h THEN Idle ELSE run[g]
BY Becoming, IdleShape DEF Ends

LEMMA Claimables == ASSUME NEW r \in Runs PROVE Claims(r) \subseteq Paths \cup Ids
BY DEF Runs, Claims

LEMMA Faulting == ASSUME TypeOK, NEW hit, hit \subseteq Paths \cup Ids, Fault(hit)
                  PROVE  /\ faults' \in 0 .. MaxFaults /\ excused' \subseteq Paths \cup Ids /\ raced' \subseteq Ids
                         /\ excused \subseteq excused' /\ hit \subseteq excused' /\ raced' = raced
BY LibraryAssumption DEF TypeOK, Fault

LEMMA Taking == ASSUME TypeOK, NEW h \in Handlers, NEW r \in Runs, Takes(h, r)
                PROVE  /\ excused' \subseteq Paths \cup Ids /\ raced' \subseteq Ids
                       /\ excused \subseteq excused' /\ raced \subseteq raced'
                       /\ \A g \in Handlers \ {h} : \A x \in Claims(r) \cap Claims(run[g]) :
                             /\ x \in excused'
                             /\ x \in Ids /\ "remove" \in {r.does, run[g].does} => x \in raced'
<1>1. \A g \in Handlers : run[g] \in Runs
  BY DEF TypeOK
<1>2. QED
  BY <1>1, Claimables DEF TypeOK, Takes, Both, Removing

-----------------------------------------------------------------------------
(* What a step of one handler may do *)

\* Handler h goes on as r, gives up no claim without leaving the path whole, and
\* touches nothing it does not claim.
Moves(h, r) ==
    /\ Shape(r) /\ Becomes(h, r) /\ Claims(r) \subseteq Claims(run[h]) /\ r.id \in {run[h].id, none}
    /\ r.does \in {run[h].does, "nothing"} /\ (run[h].does # "remove" => links \subseteq links')
    /\ row' \in [Paths -> Ids \cup {none}] /\ file' \in [Paths -> Ids \cup {none, cut}] /\ links' \subseteq Links
    /\ faults' \in 0 .. MaxFaults /\ excused' \subseteq Paths \cup Ids
    /\ excused \subseteq excused' /\ raced' = raced
    /\ \A q \in Paths \ Claims(run[h]) : row'[q] = row[q] /\ file'[q] = file[q]
    /\ \A q \in Paths : row'[q] \in {row[q], none, run[h].id}
    /\ \A l \in Links \ {run[h].id} : l \in links' <=> l \in links

\* What it leaves on its paths, of its identity and of its link.
LeavesPaths(h, r) ==
    \A q \in (Paths \cap Claims(run[h])) \ excused' : IF q \in Claims(r) THEN OnPath(r, q)' ELSE file'[q] = row'[q]

LeavesId(h, r) ==
    run[h].id \in (Items \cup Links) \ excused' =>
        IF r = Idle THEN \A p, q \in Paths : row'[p] = run[h].id /\ row'[q] = run[h].id => p = q ELSE r.id = run[h].id /\ OfId(r)'

LeavesLink(h, r) ==
    run[h].id \in Links \ raced =>
        /\ r # Idle => r.id = run[h].id /\ OfLink(r)'
        /\ (\E q \in Paths : row'[q] = run[h].id) => run[h].id \in links'

LEMMA Framing == ASSUME IInv, NEW h \in Handlers, NEW r, Moves(h, r),
                        LeavesPaths(h, r), LeavesId(h, r), LeavesLink(h, r)
                 PROVE  IInv'
<1>0. /\ TypeOK /\ Shapes /\ Apart /\ PathsAreInHand /\ EntriesAreWhole
      /\ IdsAreInHand /\ OneEntryEach /\ LinksAreInHand /\ EntriesHaveTheirLink
  BY DEF IInv
<1>1. run' \in [Handlers -> Runs] /\ Shapes' /\ \A g \in Handlers : run'[g] = IF g = h THEN r ELSE run[g]
  BY <1>0, Becoming DEF Moves
<1>2. TypeOK'
  BY <1>0, <1>1 DEF Moves, TypeOK
<1>3. \A g \in Handlers : Claims(run'[g]) \subseteq Claims(run[g])
  BY <1>1 DEF Moves
<1>3a. \A g \in Handlers : run'[g].does = "remove" => run[g].does = "remove"
  BY <1>1 DEF Moves
<1>4. Apart'
  BY <1>0, <1>3, <1>3a DEF Moves, Apart
<1>5. \A g \in Handlers \ {h} : \A x \in Claims(run[g]) \ excused' : x \notin Claims(run[h])
  BY <1>0 DEF Moves, Apart
<1>6. PathsAreInHand'
  <2> SUFFICES ASSUME NEW g \in Handlers, NEW q \in Paths, q \in Claims(run'[g]), q \notin excused'
               PROVE  OnPath(run[g], q)'
    BY DEF PathsAreInHand
  <2>1. PICK s : s = run'[g]
    OBVIOUS
  <2>2. CASE g = h
    BY <1>1, <1>3, <2>1, <2>2 DEF LeavesPaths, OnPath
  <2>3. CASE g # h
    <3>1. run[g] = s /\ q \in Claims(run[g]) /\ q \notin excused
      BY <1>1, <2>1, <2>3 DEF Moves
    <3>2. row'[q] = row[q] /\ file'[q] = file[q]
      BY <1>5, <2>3, <3>1 DEF Moves
    <3>3. OnPath(s, q)
      BY <1>0, <3>1 DEF PathsAreInHand
    <3>4. QED
      BY <2>1, <3>2, <3>3 DEF OnPath
  <2>4. QED
    BY <2>2, <2>3
<1>7. EntriesAreWhole'
  <2> SUFFICES ASSUME NEW q \in Paths, q \notin excused', q \notin Claimed' PROVE file'[q] = row'[q]
    BY DEF EntriesAreWhole
  <2>1. \A g \in Handlers : q \notin Claims(run'[g])
    BY DEF Claimed
  <2>2. CASE q \in Claims(run[h])
    BY <1>1, <2>1, <2>2 DEF LeavesPaths
  <2>3. CASE q \notin Claims(run[h])
    <3>1. q \notin Claimed /\ q \notin excused
      BY <1>1, <2>1, <2>3 DEF Claimed, Moves
    <3>2. QED
      BY <1>0, <2>3, <3>1 DEF EntriesAreWhole, Moves
  <2>4. QED
    BY <2>2, <2>3
<1>8. \A x \in Ids \ {run[h].id} : Rows(x)' \subseteq Rows(x)
  BY LibraryAssumption DEF Moves, Rows
<1>9. \A g \in Handlers \ {h} : run[g].id \in Ids => run[g].id \in Claims(run[g])
  BY LibraryAssumption DEF Claims
<1>10. run[h].id \in Ids => run[h].id \in Claims(run[h])
  BY LibraryAssumption DEF Claims
<1>11. none \notin Ids /\ Items \subseteq Ids /\ Links \subseteq Ids
  BY LibraryAssumption DEF Ids
<1>12. IdsAreInHand'
  <2> SUFFICES ASSUME NEW g \in Handlers, run'[g].id \in Items \cup Links, run'[g].id \notin excused'
               PROVE  OfId(run[g])'
    BY DEF IdsAreInHand
  <2>1. PICK s : s = run'[g]
    OBVIOUS
  <2>2. CASE g = h
    <3>1. r # Idle /\ r.id = run[h].id
      BY <1>1, <1>11, <2>2, IdleShape DEF Moves
    <3>2. OfId(r)'
      BY <1>1, <2>2, <3>1 DEF LeavesId
    <3>3. QED
      BY <1>1, <2>2, <3>2 DEF OfId
  <2>3. CASE g # h
    <3>1. run[g] = s /\ s.id \in (Items \cup Links) \ excused
      BY <1>1, <2>1, <2>3 DEF Moves
    <3>2. s.id # run[h].id /\ s.id \in Ids
      BY <1>1, <1>5, <1>9, <1>10, <1>11, <2>1, <2>3, <3>1
    <3>3. OfId(s)
      BY <1>0, <3>1 DEF IdsAreInHand
    <3>4. OfId(s)'
      BY <1>8, <3>2, <3>3 DEF OfId
    <3>5. QED
      BY <2>1, <3>4 DEF OfId
  <2>4. QED
    BY <2>2, <2>3
<1>13. OneEntryEach'
  <2> SUFFICES ASSUME NEW x \in Items \cup Links, x \notin excused', x \notin Claimed'
               PROVE  \A p, q \in Rows(x)' : p = q
    BY DEF OneEntryEach
  <2>1. CASE x = run[h].id
    <3>1. r = Idle
      <4>1. x \notin Claims(r)
        BY <1>1 DEF Claimed
      <4>2. r.id # x
        BY <1>11, <4>1 DEF Claims
      <4>3. r.at = "idle"
        BY <1>11, <2>1, <4>2 DEF Moves, Shape
      <4>4. QED
        BY <4>3 DEF Moves, Shape
    <3>2. QED
      BY <2>1, <3>1 DEF LeavesId, Rows
  <2>2. CASE x # run[h].id
    <3>1. x \notin Claims(run[h])
      BY <1>0, <1>11, <2>2, LibraryAssumption DEF Claims, TypeOK, Runs
    <3>2. x \notin Claimed /\ x \notin excused
      BY <1>1, <3>1 DEF Claimed, Moves
    <3>3. QED
      BY <1>0, <1>8, <1>11, <2>2, <3>2 DEF OneEntryEach
  <2>3. QED
    BY <2>1, <2>2
<1>14. LinksAreInHand'
  <2> SUFFICES ASSUME NEW g \in Handlers, run'[g].id \in Links, run'[g].id \notin raced' PROVE OfLink(run[g])'
    BY DEF LinksAreInHand
  <2>1. PICK s : s = run'[g]
    OBVIOUS
  <2>2. CASE g = h
    <3>1. r # Idle /\ r.id = run[h].id
      BY <1>1, <1>11, <2>2, IdleShape DEF Moves
    <3>2. OfLink(r)'
      BY <1>1, <2>2, <3>1 DEF LeavesLink, Moves
    <3>3. QED
      BY <1>1, <2>2, <3>2 DEF OfLink
  <2>3. CASE g # h
    <3>1. run[g] = s /\ s.id \in Links \ raced
      BY <1>1, <2>1, <2>3 DEF Moves
    <3>2. s.id \in Ids /\ (s.id # run[h].id \/ (s.does # "remove" /\ run[h].does # "remove"))
      BY <1>0, <1>9, <1>10, <1>11, <2>3, <3>1 DEF Apart
    <3>3. OfLink(s)
      BY <1>0, <3>1 DEF LinksAreInHand
    <3>4. OfLink(s)'
      <4>1. CASE s.id # run[h].id
        BY <1>8, <3>1, <3>2, <3>3, <4>1 DEF OfLink, Moves
      <4>2. CASE s.does # "remove" /\ run[h].does # "remove"
        BY <3>3, <4>2 DEF OfLink, Moves
      <4>3. QED
        BY <3>2, <4>1, <4>2
    <3>5. QED
      BY <2>1, <3>4 DEF OfLink
  <2>4. QED
    BY <2>2, <2>3
<1>15. EntriesHaveTheirLink'
  <2> SUFFICES ASSUME NEW q \in Paths, row'[q] \in Links, row'[q] \notin raced PROVE row'[q] \in links'
    BY DEF EntriesHaveTheirLink, Moves
  <2>1. CASE row'[q] = run[h].id
    BY <2>1 DEF LeavesLink
  <2>2. CASE row'[q] # run[h].id
    <3>1. row'[q] = row[q]
      BY <1>11, <2>2 DEF Moves
    <3>2. QED
      BY <1>0, <2>2, <3>1 DEF EntriesHaveTheirLink, Moves
  <2>3. QED
    BY <2>1, <2>2
<1>16. QED
  BY <1>1, <1>2, <1>4, <1>6, <1>7, <1>12, <1>13, <1>14, <1>15 DEF IInv

\* What an idle handler may take up: something that is as it should be.
LEMMA TakingUp ==
    ASSUME IInv, NEW h \in Handlers, NEW r, Shape(r), run[h] = Idle, Takes(h, r),
           UNCHANGED <<row, file, links, faults>>,
           \A q \in (Paths \cap Claims(r)) \ excused' : file[q] = row[q] => OnPath(r, q),
           r.id \in (Items \cup Links) \ excused' /\ (\A p, q \in Rows(r.id) : p = q) => OfId(r),
           r.id \in Links \ raced' => OfLink(r)
    PROVE  IInv'
<1>0. /\ TypeOK /\ Shapes /\ Apart /\ PathsAreInHand /\ EntriesAreWhole
      /\ IdsAreInHand /\ OneEntryEach /\ LinksAreInHand /\ EntriesHaveTheirLink
  BY DEF IInv
<1>1. r \in Runs /\ Becomes(h, r)
  BY DEF Shape, Takes
<1>2. run' \in [Handlers -> Runs] /\ Shapes' /\ \A g \in Handlers : run'[g] = IF g = h THEN r ELSE run[g]
  BY <1>0, <1>1, Becoming
<1>3. /\ excused' \subseteq Paths \cup Ids /\ raced' \subseteq Ids
      /\ excused \subseteq excused' /\ raced \subseteq raced'
      /\ \A g \in Handlers \ {h} : \A x \in Claims(r) \cap Claims(run[g]) :
            /\ x \in excused'
            /\ x \in Ids /\ "remove" \in {r.does, run[g].does} => x \in raced'
  BY <1>0, <1>1, Taking
<1>4. TypeOK'
  BY <1>0, <1>2, <1>3 DEF TypeOK
<1>5. Apart'
  BY <1>0, <1>2, <1>3 DEF Apart
<1>6. none \notin Ids /\ Items \subseteq Ids /\ Links \subseteq Ids /\ Claims(Idle) = {}
  BY LibraryAssumption, IdleShape DEF Ids
<1>7. \A x \in Claims(r) \ excused' : x \notin Claimed /\ x \notin excused
  BY <1>3, <1>6 DEF Claimed
<1>8. \A x : x \notin Claimed' => x \notin Claimed
  BY <1>2, <1>6 DEF Claimed
<1>9. PathsAreInHand'
  <2> SUFFICES ASSUME NEW g \in Handlers, NEW q \in Paths, q \in Claims(run'[g]), q \notin excused'
               PROVE  OnPath(run'[g], q)
    BY DEF PathsAreInHand, OnPath
  <2>1. CASE g = h
    BY <1>0, <1>2, <1>7, <2>1 DEF EntriesAreWhole
  <2>2. CASE g # h
    BY <1>0, <1>2, <1>3, <2>2 DEF PathsAreInHand
  <2>3. QED
    BY <2>1, <2>2
<1>10. EntriesAreWhole'
  BY <1>0, <1>3, <1>8 DEF EntriesAreWhole
<1>11. IdsAreInHand'
  <2> SUFFICES ASSUME NEW g \in Handlers, run'[g].id \in Items \cup Links, run'[g].id \notin excused'
               PROVE  OfId(run'[g])
    BY DEF IdsAreInHand, OfId, Rows
  <2>1. CASE g = h
    <3>1. r.id \in Claims(r)
      BY <1>2, <1>6, <2>1 DEF Claims
    <3>2. r.id \notin Claimed /\ r.id \notin excused
      BY <1>2, <1>7, <2>1, <3>1
    <3>3. QED
      BY <1>0, <1>2, <2>1, <3>2 DEF OneEntryEach
  <2>2. CASE g # h
    BY <1>0, <1>2, <1>3, <2>2 DEF IdsAreInHand
  <2>3. QED
    BY <2>1, <2>2
<1>12. OneEntryEach'
  BY <1>0, <1>3, <1>8 DEF OneEntryEach, Rows
<1>13. LinksAreInHand'
  <2> SUFFICES ASSUME NEW g \in Handlers, run'[g].id \in Links, run'[g].id \notin raced'
               PROVE  OfLink(run'[g])
    BY DEF LinksAreInHand, OfLink, Rows
  <2>1. CASE g = h
    BY <1>2, <2>1
  <2>2. CASE g # h
    BY <1>0, <1>2, <1>3, <2>2 DEF LinksAreInHand
  <2>3. QED
    BY <2>1, <2>2
<1>14. EntriesHaveTheirLink'
  BY <1>0, <1>3 DEF EntriesHaveTheirLink
<1>15. QED
  BY <1>2, <1>4, <1>5, <1>9, <1>10, <1>11, <1>12, <1>13, <1>14 DEF IInv

-----------------------------------------------------------------------------
(* One step per action *)

LEMMA AddKeeps == ASSUME IInv, NEW h \in Handlers, NEW id \in Ids, NEW q \in Paths, Add(h, id, q) PROVE IInv'
<1>1. PICK old \in Found(id) :
           Takes(h, [at |-> "write", does |-> "add", id |-> id, path |-> q, old |-> old, todo |-> {}])
  BY DEF Add
<1>2. PICK r : r = [at |-> "write", does |-> "add", id |-> id, path |-> q, old |-> old, todo |-> {}]
  OBVIOUS
<1>3. old \in Paths \cup {none} /\ (id \in Titles => old = none)
  BY <1>1 DEF Found, Rows
<1>4. Shape(r)
  BY <1>2, <1>3 DEF Shape, Runs
<1>5. \A p \in Paths : file[p] = row[p] => OnPath(r, p)
  BY <1>1, <1>2, LibraryAssumption DEF OnPath, Found, Rows
<1>6. id \in Items \cup Links /\ (\A p1, p2 \in Rows(id) : p1 = p2) => OfId(r)
  BY <1>1, <1>2, LibraryAssumption DEF OfId, Found
<1>7. OfLink(r)
  BY <1>2 DEF OfLink
<1>8. r.id = id /\ Takes(h, r) /\ run[h] = Idle /\ UNCHANGED <<row, file, links, faults>>
  BY <1>1, <1>2 DEF Add
<1>9. QED
  BY <1>4, <1>5, <1>6, <1>7, <1>8, TakingUp

LEMMA RemoveKeeps == ASSUME IInv, NEW h \in Handlers, NEW id \in Ids, Remove(h, id) PROVE IInv'
<1>1. PICK chosen \in (IF id \in Links THEN {Rows(id)} ELSE (SUBSET Rows(id)) \ {{}}) :
           Takes(h, [at |-> IF chosen = {} THEN "forget" ELSE "unlink", does |-> "remove",
                     id |-> id, path |-> none, old |-> none, todo |-> chosen])
  BY DEF Remove
<1>2. PICK r : r = [at |-> IF chosen = {} THEN "forget" ELSE "unlink", does |-> "remove",
                    id |-> id, path |-> none, old |-> none, todo |-> chosen]
  OBVIOUS
<1>3. chosen \subseteq Paths /\ (id \in Links => chosen = Rows(id)) /\ (chosen = {} => id \in Links)
  <2>1. chosen \subseteq Rows(id) /\ (id \in Links => chosen = Rows(id)) /\ (id \notin Links => chosen # {})
    <3>1. CASE id \in Links
      BY <1>1, <3>1
    <3>2. CASE id \notin Links
      BY <1>1, <3>2
    <3>3. QED
      BY <3>1, <3>2
  <2>2. QED
    BY <2>1 DEF Rows
<1>4. Shape(r)
  BY <1>2, <1>3 DEF Shape, Runs
<1>5. \A p \in Paths : file[p] = row[p] => OnPath(r, p)
  <2>1. r.at \in {"forget", "unlink"}
    BY <1>2
  <2>2. QED
    BY <2>1 DEF OnPath
<1>6. (\A p1, p2 \in Rows(id) : p1 = p2) => OfId(r)
  BY <1>2 DEF OfId
<1>7. id \in Links => OfLink(r)
  BY <1>2, <1>3 DEF OfLink
<1>8. r.id = id /\ Takes(h, r) /\ run[h] = Idle /\ UNCHANGED <<row, file, links, faults>>
  BY <1>1, <1>2 DEF Remove
<1>9. QED
  BY <1>4, <1>5, <1>6, <1>7, <1>8, TakingUp

LEMMA ReadCopyKeeps == ASSUME IInv, NEW h \in Handlers, NEW q \in Paths, ReadCopy(h, q) PROVE IInv'
<1>1. PICK r : r = [at |-> "record", does |-> "copy", id |-> row[q], path |-> q, old |-> none, todo |-> {}]
  OBVIOUS
<1>2. Takes(h, r) /\ run[h] = Idle /\ row[q] \in Ids /\ UNCHANGED <<row, file, links, faults>>
  BY <1>1 DEF ReadCopy, IInv, TypeOK
<1>3. Shape(r)
  BY <1>1, <1>2 DEF Shape, Runs
<1>4. \A p \in Paths : file[p] = row[p] => OnPath(r, p)
  BY <1>1, LibraryAssumption DEF OnPath
<1>5. (\A p1, p2 \in Rows(r.id) : p1 = p2) => OfId(r)
  BY <1>1 DEF OfId, Rows
<1>6. r.id \in Links \ raced' => OfLink(r)
  <2>1. raced \subseteq raced'
    BY <1>2 DEF Takes
  <2>2. QED
    BY <1>1, <2>1 DEF OfLink, IInv, EntriesHaveTheirLink
<1>7. QED
  BY <1>2, <1>3, <1>4, <1>5, <1>6, TakingUp

Ats == {"idle", "write", "link", "record", "unlink", "delete", "forget"}

\* The next step of a handler, with the same claims.
LEMMA Going == ASSUME NEW s \in Runs, NEW at \in Ats, NEW r, r = [s EXCEPT !.at = at]
               PROVE  /\ r \in Runs /\ r.at = at /\ r.does = s.does /\ r.id = s.id /\ r.path = s.path
                      /\ r.old = s.old /\ r.todo = s.todo /\ Claims(r) = Claims(s)
<1>1. /\ r \in Runs /\ r.at = at /\ r.does = s.does /\ r.id = s.id /\ r.path = s.path
      /\ r.old = s.old /\ r.todo = s.todo
  BY DEF Runs, Ats
<1>2. QED
  BY <1>1 DEF Claims

\* What a handler that is at work can rely on.
LEMMA AtWork ==
    ASSUME IInv, NEW h \in Handlers, NEW s, s = run[h], s.at # "idle"
    PROVE  /\ TypeOK /\ Shape(s) /\ s \in Runs /\ s.id \in Ids
           /\ row \in [Paths -> Ids \cup {none}] /\ file \in [Paths -> Ids \cup {none, cut}] /\ links \subseteq Links
           /\ \A q \in (Paths \cap Claims(s)) \ excused : OnPath(s, q)
           /\ s.id \in (Items \cup Links) \ excused => OfId(s)
           /\ s.id \in Links \ raced => OfLink(s) /\ (Rows(s.id) # {} => s.id \in links)
           /\ s.path \in Paths => s.path \in Claims(s)
           /\ s.old \in Paths => s.old \in Claims(s)
           /\ s.todo \subseteq Paths /\ s.todo \subseteq Claims(s)
<1>1. TypeOK /\ Shape(s) /\ s \in Runs /\ s.id \in Ids
  BY DEF IInv, Shapes, Shape
<1>2. none \notin Paths
  BY LibraryAssumption
<1>3. s.path \in Paths => s.path \in Claims(s)
  BY <1>2 DEF Claims
<1>4. s.old \in Paths => s.old \in Claims(s)
  BY <1>2 DEF Claims
<1>5. s.todo \subseteq Paths /\ s.todo \subseteq Claims(s)
  BY <1>1, <1>2 DEF Claims, Runs
<1>6. s.id \in Links \ raced => OfLink(s) /\ (Rows(s.id) # {} => s.id \in links)
  BY DEF IInv, LinksAreInHand, EntriesHaveTheirLink, Rows
<1>7. QED
  BY <1>1, <1>3, <1>4, <1>5, <1>6 DEF IInv, TypeOK, PathsAreInHand, IdsAreInHand

LEMMA WriteKeeps == ASSUME IInv, NEW h \in Handlers, Write(h) PROVE IInv'
<1> PICK s : s = run[h]
  OBVIOUS
<1>0. s.at = "write" /\ s.does = "add" /\ s.path \in Paths /\ s.path \in Claims(s) /\ s \in Runs /\ Shape(s) /\ s.id \in Ids
      /\ TypeOK
  <2>1. s.at = "write"
    BY DEF Write
  <2>2. QED
    BY <2>1, AtWork DEF Shape
<1> PICK r : r = [s EXCEPT !.at = AfterWrite(s)]
  OBVIOUS
<1>1. /\ r \in Runs /\ r.at = AfterWrite(s) /\ r.does = "add" /\ r.id = s.id /\ r.path = s.path
      /\ r.old = s.old /\ r.todo = s.todo /\ Claims(r) = Claims(s)
  BY <1>0, Going DEF AfterWrite, Ats
<1>2. Shape(r) /\ r # Idle /\ r.at \in {"link", "record"} /\ (r.id \in Links => r.at = "link")
  BY <1>0, <1>1, IdleShape DEF AfterWrite, Shape
<1>3. file' = [file EXCEPT ![s.path] = s.id] /\ UNCHANGED <<row, links, faults, excused, raced>> /\ Becomes(h, r)
  BY DEF Write, Goes, Fine, ghosts
<1>4. Moves(h, r)
  BY <1>0, <1>1, <1>2, <1>3 DEF Moves, TypeOK
<1>5. LeavesPaths(h, r)
  <2> SUFFICES ASSUME NEW q \in Paths, q \in Claims(s), q \notin excused PROVE OnPath(r, q)'
    BY <1>1, <1>3 DEF LeavesPaths
  <2>1. OnPath(s, q)
    BY <1>0, AtWork
  <2>2. file'[q] = (IF q = s.path THEN s.id ELSE file[q]) /\ row'[q] = row[q]
    BY <1>0, <1>3 DEF TypeOK
  <2>3. QED
    BY <1>0, <1>1, <1>2, <2>1, <2>2 DEF OnPath
<1>6. LeavesId(h, r)
  <2> SUFFICES ASSUME s.id \in (Items \cup Links) \ excused PROVE OfId(r)'
    BY <1>1, <1>2, <1>3 DEF LeavesId
  <2>1. OfId(s)
    BY <1>0, AtWork
  <2>2. QED
    BY <1>0, <1>1, <1>2, <1>3, <2>1 DEF OfId, Rows
<1>7. LeavesLink(h, r)
  <2> SUFFICES ASSUME s.id \in Links \ raced PROVE OfLink(r)' /\ (Rows(s.id) # {} => s.id \in links)
    BY <1>1, <1>3 DEF LeavesLink, Rows
  <2>1. QED
    BY <1>0, <1>1, <1>2, AtWork DEF OfLink
<1>8. QED
  BY <1>4, <1>5, <1>6, <1>7, Framing

\* A handler that ends, on the one path it may still have touched.
LEMMA EndingKeeps ==
    ASSUME IInv, NEW h \in Handlers, NEW s, s = run[h], s.at # "idle", Ends(h), UNCHANGED <<row, links>>,
           file' \in [Paths -> Ids \cup {none, cut}], \A q \in Paths \ {s.path} : file'[q] = file[q],
           s.path \notin Paths => file' = file,
           faults' \in 0 .. MaxFaults, excused' \subseteq Paths \cup Ids, excused \subseteq excused', raced' = raced,
           s.path \in Paths \ excused' => file'[s.path] = row[s.path],
           s.id \in (Items \cup Links) \ excused' => \A p, q \in Rows(s.id) : p = q
    PROVE  IInv'
<1>0. /\ TypeOK /\ Shape(s) /\ s \in Runs /\ s.id \in Ids
      /\ row \in [Paths -> Ids \cup {none}] /\ file \in [Paths -> Ids \cup {none, cut}] /\ links \subseteq Links
      /\ s.path \in Paths => s.path \in Claims(s)
  BY AtWork
<1> PICK r : r = Idle
  OBVIOUS
<1>1. Shape(r) /\ Claims(r) = {} /\ r.id = none /\ r.does = "nothing"
  BY IdleShape
<1>2. Moves(h, r)
  BY <1>0, <1>1 DEF Moves, Ends
<1>3. LeavesPaths(h, r)
  <2> SUFFICES ASSUME NEW q \in Paths, q \in Claims(s), q \notin excused' PROVE file'[q] = row[q]
    BY <1>1 DEF LeavesPaths
  <2>1. CASE q = s.path
    BY <2>1
  <2>2. CASE q # s.path
    <3>1. OnPath(s, q)
      BY AtWork
    <3>2. QED
      BY <2>2, <3>1 DEF OnPath
  <2>3. QED
    BY <2>1, <2>2
<1>4. LeavesId(h, r)
  BY DEF LeavesId, Rows
<1>5. LeavesLink(h, r)
  BY AtWork DEF LeavesLink, Rows
<1>6. QED
  BY <1>2, <1>3, <1>4, <1>5, Framing

\* Before its row is written an identity has at most one.
LEMMA OneSoFar == ASSUME IInv, NEW h \in Handlers, NEW s, s = run[h], s.at \in {"write", "link", "record"},
                         s.id \in (Items \cup Links) \ excused
                  PROVE  \A p, q \in Rows(s.id) : p = q
<1>1. OfId(s) /\ Shape(s)
  BY AtWork
<1>2. s.does \in {"add", "copy"}
  BY <1>1 DEF Shape
<1>3. QED
  BY <1>1, <1>2 DEF OfId

LEMMA WriteFailsKeeps == ASSUME IInv, NEW h \in Handlers, WriteFails(h) PROVE IInv'
<1> PICK s : s = run[h]
  OBVIOUS
<1>0. s.at = "write" /\ s.path \in Paths /\ s \in Runs /\ TypeOK /\ s.id \in Ids
      /\ s.path \in Claims(s) /\ file \in [Paths -> Ids \cup {none, cut}]
  <2>1. s.at = "write"
    BY DEF WriteFails
  <2>2. QED
    BY <2>1, AtWork DEF Shape
<1>1. PICK content \in {file[s.path], cut, s.id} : file' = [file EXCEPT ![s.path] = content]
  BY DEF WriteFails
<1>2. file' \in [Paths -> Ids \cup {none, cut}] /\ \A q \in Paths \ {s.path} : file'[q] = file[q]
  BY <1>0, <1>1
<1>3. Fault(IF file' = file THEN {} ELSE {s.path}) /\ Ends(h) /\ UNCHANGED <<row, links>>
  BY DEF WriteFails
<1>4. /\ faults' \in 0 .. MaxFaults /\ excused' \subseteq Paths \cup Ids /\ excused \subseteq excused' /\ raced' = raced
      /\ file' # file => s.path \in excused'
  BY <1>0, <1>3, Faulting
<1>5. s.path \in Paths \ excused' => file'[s.path] = row[s.path]
  <2> SUFFICES ASSUME s.path \notin excused' PROVE file[s.path] = row[s.path]
    BY <1>4
  <2>1. OnPath(s, s.path)
    BY <1>0, <1>4, AtWork
  <2>2. QED
    BY <1>0, <2>1 DEF OnPath
<1>6. s.id \in (Items \cup Links) \ excused' => \A p, q \in Rows(s.id) : p = q
  BY <1>0, <1>4, OneSoFar
<1>7. QED
  BY <1>0, <1>2, <1>3, <1>4, <1>5, <1>6, EndingKeeps

LEMMA LinkKeeps == ASSUME IInv, NEW h \in Handlers, Link(h) PROVE IInv'
<1> PICK s : s = run[h]
  OBVIOUS
<1>0. s.at = "link" /\ s.does = "add" /\ s.path \in Paths /\ s \in Runs /\ Shape(s) /\ s.id \in Links /\ TypeOK
  <2>1. s.at = "link"
    BY DEF Link
  <2>2. QED
    BY <2>1, AtWork DEF Shape
<1> PICK r : r = [s EXCEPT !.at = "record"]
  OBVIOUS
<1>1. /\ r \in Runs /\ r.at = "record" /\ r.does = "add" /\ r.id = s.id /\ r.path = s.path
      /\ r.old = s.old /\ r.todo = s.todo /\ Claims(r) = Claims(s)
  BY <1>0, Going DEF Ats
<1>2. Shape(r) /\ r # Idle
  BY <1>0, <1>1, IdleShape DEF Shape
<1>3. links' = links \cup {s.id} /\ UNCHANGED <<row, file, faults, excused, raced>> /\ Becomes(h, r)
  BY DEF Link, Goes, Fine, ghosts
<1>4. Moves(h, r)
  BY <1>0, <1>1, <1>2, <1>3 DEF Moves, TypeOK
<1>5. LeavesPaths(h, r)
  <2> SUFFICES ASSUME NEW q \in Paths, q \in Claims(s), q \notin excused PROVE OnPath(r, q)
    BY <1>1, <1>3 DEF LeavesPaths, OnPath
  <2>1. OnPath(s, q)
    BY <1>0, AtWork
  <2>2. QED
    BY <1>0, <1>1, <2>1 DEF OnPath
<1>6. LeavesId(h, r)
  <2> SUFFICES ASSUME s.id \in (Items \cup Links) \ excused PROVE OfId(r)
    BY <1>1, <1>2, <1>3 DEF LeavesId, OfId, Rows
  <2>1. OfId(s)
    BY <1>0, AtWork
  <2>2. QED
    BY <1>0, <1>1, <2>1 DEF OfId
<1>7. LeavesLink(h, r)
  BY <1>1, <1>3 DEF LeavesLink, OfLink
<1>8. QED
  BY <1>4, <1>5, <1>6, <1>7, Framing

LEMMA RecordFailsKeeps == ASSUME IInv, NEW h \in Handlers, RecordFails(h) PROVE IInv'
<1> PICK s : s = run[h]
  OBVIOUS
<1>0. s.at \in {"link", "record"} /\ s.path \in Paths /\ s \in Runs /\ Shape(s) /\ TypeOK /\ s.id \in Ids
      /\ s.path \in Claims(s) /\ file \in [Paths -> Ids \cup {none, cut}] /\ s.does \in {"add", "copy"}
  <2>1. s.at \in {"link", "record"}
    BY DEF RecordFails
  <2>2. QED
    BY <2>1, AtWork DEF Shape
<1>1. PICK removed \in BOOLEAN :
           /\ file' = IF RollsBack(s) /\ removed THEN [file EXCEPT ![s.path] = none] ELSE file
           /\ Fault(IF s.does = "add" /\ ((RollsBack(s) /\ ~removed) \/ (s.old # s.path /\ row[s.path] # none))
                    THEN {s.path} ELSE {})
  BY DEF RecordFails
<1>2. file' \in [Paths -> Ids \cup {none, cut}] /\ \A q \in Paths \ {s.path} : file'[q] = file[q]
  BY <1>0, <1>1
<1>3. Ends(h) /\ UNCHANGED <<row, links>>
  BY DEF RecordFails
<1>4. /\ faults' \in 0 .. MaxFaults /\ excused' \subseteq Paths \cup Ids /\ excused \subseteq excused' /\ raced' = raced
      /\ s.does = "add" /\ ((RollsBack(s) /\ ~removed) \/ (s.old # s.path /\ row[s.path] # none)) => s.path \in excused'
  BY <1>0, <1>1, Faulting
<1>5. s.path \in Paths \ excused' => file'[s.path] = row[s.path]
  <2> SUFFICES ASSUME s.path \notin excused' PROVE file'[s.path] = row[s.path]
    OBVIOUS
  <2>1. OnPath(s, s.path)
    BY <1>0, <1>4, AtWork
  <2>2. CASE s.does = "copy"
    <3>1. file' = file
      BY <1>1, <2>2 DEF RollsBack
    <3>2. QED
      BY <1>0, <2>1, <2>2, <3>1 DEF OnPath
  <2>3. CASE s.does = "add" /\ RollsBack(s)
    <3>1. s.old # s.path
      BY <1>0, <2>3, LibraryAssumption DEF RollsBack, Shape
    <3>2. row[s.path] = none /\ removed
      BY <1>4, <2>3, <3>1
    <3>3. QED
      BY <1>0, <1>1, <2>3, <3>2
  <2>4. CASE s.does = "add" /\ ~RollsBack(s)
    <3>1. s.old = s.path /\ file' = file
      BY <1>1, <2>4 DEF RollsBack
    <3>2. QED
      BY <1>0, <2>1, <2>4, <3>1 DEF OnPath
  <2>5. QED
    BY <1>0, <2>2, <2>3, <2>4
<1>6. s.id \in (Items \cup Links) \ excused' => \A p, q \in Rows(s.id) : p = q
  BY <1>0, <1>4, OneSoFar
<1>7. QED
  BY <1>0, <1>2, <1>3, <1>4, <1>5, <1>6, EndingKeeps

LEMMA DiscardKeeps == ASSUME IInv, NEW h \in Handlers, Discard(h) PROVE IInv'
<1> PICK s : s = run[h]
  OBVIOUS
<1>0. s.does = "copy" /\ s.at = "record" /\ s.path \in Paths /\ TypeOK
  <2>1. s.does = "copy"
    BY DEF Discard
  <2>2. s.at = "record"
    BY <2>1 DEF IInv, Shapes, Shape
  <2>3. QED
    BY <2>1, <2>2, AtWork DEF Shape
<1>1. Ends(h) /\ UNCHANGED <<row, file, links, faults, excused, raced>>
  BY DEF Discard, Fine, ghosts
<1>2. s.path \in Paths \ excused => file[s.path] = row[s.path]
  BY <1>0, AtWork DEF OnPath
<1>3. s.id \in (Items \cup Links) \ excused => \A p, q \in Rows(s.id) : p = q
  BY <1>0, OneSoFar
<1>4. QED
  BY <1>0, <1>1, <1>2, <1>3, EndingKeeps DEF TypeOK

LEMMA DeleteFailsKeeps == ASSUME IInv, NEW h \in Handlers, DeleteFails(h) PROVE IInv'
<1> PICK s : s = run[h]
  OBVIOUS
<1>0. s.at = "delete" /\ s.path \in Paths /\ s.id \in Ids /\ TypeOK
  <2>1. s.at = "delete"
    BY DEF DeleteFails
  <2>2. QED
    BY <2>1, AtWork DEF Shape
<1>1. Ends(h) /\ UNCHANGED <<row, file, links>> /\ Fault({s.path, s.id})
  BY DEF DeleteFails
<1>2. /\ faults' \in 0 .. MaxFaults /\ excused' \subseteq Paths \cup Ids /\ excused \subseteq excused' /\ raced' = raced
      /\ s.path \in excused' /\ s.id \in excused'
  BY <1>0, <1>1, Faulting
<1>3. QED
  BY <1>0, <1>1, <1>2, EndingKeeps DEF TypeOK

LEMMA RecordKeeps == ASSUME IInv, NEW h \in Handlers, Record(h) PROVE IInv'
<1> PICK s : s = run[h]
  OBVIOUS
<1>0. /\ s.at = "record" /\ s.path \in Paths /\ s \in Runs /\ Shape(s) /\ TypeOK /\ s.id \in Ids
      /\ s.path \in Claims(s) /\ s.does \in {"add", "copy"} /\ (s.old \in Paths => s.old \in Claims(s))
      /\ row \in [Paths -> Ids \cup {none}]
  <2>1. s.at = "record"
    BY DEF Record
  <2>2. QED
    BY <2>1, AtWork DEF Shape
<1>1. row' = [row EXCEPT ![s.path] = s.id] /\ UNCHANGED <<file, links, faults, excused, raced>>
  BY DEF Record, Fine, ghosts
<1>2. row' \in [Paths -> Ids \cup {none}] /\ \A q \in Paths : row'[q] = IF q = s.path THEN s.id ELSE row[q]
  BY <1>0, <1>1
<1>3. s.id \in (Items \cup Links) \ excused => OfId(s)
  BY <1>0, AtWork
<1>4. \A q \in (Paths \cap Claims(s)) \ excused : file[q] = row'[q]
  <2> SUFFICES ASSUME NEW q \in Paths, q \in Claims(s), q \notin excused PROVE file[q] = row'[q]
    OBVIOUS
  <2>1. OnPath(s, q)
    BY <1>0, AtWork
  <2>2. QED
    BY <1>0, <1>2, <2>1 DEF OnPath
<1>5. CASE Supersedes(s)
  <2>1. s.old \in Paths /\ s.does = "add"
    BY <1>0, <1>5 DEF Supersedes, Runs, Shape
  <2> PICK r : r = [s EXCEPT !.at = "unlink", !.todo = {s.old}]
    OBVIOUS
  <2>2. /\ r \in Runs /\ r.at = "unlink" /\ r.does = "add" /\ r.id = s.id /\ r.path = s.path
        /\ r.old = s.old /\ r.todo = {s.old}
    BY <1>0, <2>1 DEF Runs
  <2>3. Shape(r) /\ r # Idle /\ Claims(r) \subseteq Claims(s)
    BY <1>0, <2>1, <2>2, IdleShape DEF Shape, Claims
  <2>4. Moves(h, r)
    BY <1>0, <1>1, <1>2, <1>5, <2>2, <2>3 DEF Record, Moves, TypeOK
  <2>5. LeavesPaths(h, r)
    BY <1>1, <1>4, <2>2 DEF LeavesPaths, OnPath
  <2>6. LeavesId(h, r)
    <3> SUFFICES ASSUME s.id \in (Items \cup Links) \ excused PROVE OfId(r)'
      BY <1>1, <2>2, <2>3 DEF LeavesId
    <3>1. \A q \in Rows(s.id) : q = s.old
      BY <1>0, <1>3, <2>1 DEF OfId
    <3>2. \A q \in Rows(s.id)' : q \in {s.old, s.path}
      BY <1>2, <3>1 DEF Rows
    <3>3. QED
      BY <2>2, <3>2 DEF OfId
  <2>7. LeavesLink(h, r)
    BY <1>0, <1>1, <2>2, AtWork DEF LeavesLink, OfLink
  <2>8. QED
    BY <2>4, <2>5, <2>6, <2>7, Framing
<1>6. CASE ~Supersedes(s)
  <2> PICK r : r = Idle
    OBVIOUS
  <2>1. Shape(r) /\ Claims(r) = {} /\ r.id = none /\ r.does = "nothing"
    BY IdleShape
  <2>2. Moves(h, r)
    BY <1>0, <1>1, <1>2, <1>6, <2>1 DEF Record, Ends, Moves, TypeOK
  <2>3. LeavesPaths(h, r)
    BY <1>1, <1>4, <2>1 DEF LeavesPaths
  <2>4. LeavesId(h, r)
    <3> SUFFICES ASSUME s.id \in (Items \cup Links) \ excused, NEW q \in Paths, row'[q] = s.id PROVE q = s.path
      BY <1>1 DEF LeavesId
    <3>1. q # s.path => q \in Rows(s.id)
      BY <1>2 DEF Rows
    <3>2. q # s.path => q = IF s.does = "add" THEN s.old ELSE s.path
      BY <1>0, <1>3, <3>1 DEF OfId
    <3>3. QED
      BY <1>0, <1>6, <3>2, LibraryAssumption DEF Supersedes
  <2>5. LeavesLink(h, r)
    BY <1>0, <1>1, AtWork DEF LeavesLink, OfLink
  <2>6. QED
    BY <2>2, <2>3, <2>4, <2>5, Framing
<1>7. QED
  BY <1>5, <1>6

LEMMA UnlinkKeeps == ASSUME IInv, NEW h \in Handlers, NEW q \in Paths, Unlink(h, q) PROVE IInv'
<1> PICK s : s = run[h]
  OBVIOUS
<1>0. /\ s.at = "unlink" /\ s.does \in {"add", "remove"} /\ s \in Runs /\ Shape(s) /\ TypeOK /\ s.id \in Ids
      /\ q \in s.todo /\ q \in Claims(s) /\ file \in [Paths -> Ids \cup {none, cut}]
  <2>1. s.at = "unlink" /\ q \in s.todo
    BY DEF Unlink
  <2>2. QED
    BY <2>1, AtWork DEF Shape
<1> PICK r : r = [s EXCEPT !.at = "delete", !.path = q]
  OBVIOUS
<1>1. /\ r \in Runs /\ r.at = "delete" /\ r.does = s.does /\ r.id = s.id /\ r.path = q
      /\ r.old = s.old /\ r.todo = s.todo
  BY <1>0 DEF Runs
<1>2. Shape(r) /\ r # Idle /\ Claims(r) \subseteq Claims(s)
  BY <1>0, <1>1, IdleShape DEF Shape, Claims
<1>3. /\ Becomes(h, r) /\ UNCHANGED <<row, links, raced>>
      /\ file' \in [Paths -> Ids \cup {none, cut}] /\ \A p \in Paths \ {q} : file'[p] = file[p]
      /\ excused \subseteq excused' /\ excused' \subseteq Paths \cup Ids /\ faults' \in 0 .. MaxFaults
      /\ q \notin excused' => file'[q] = none
  <2>1. Becomes(h, r) /\ UNCHANGED <<row, links>>
    BY DEF Unlink
  <2>2. CASE file' = [file EXCEPT ![q] = none] /\ Fine
    BY <1>0, <2>1, <2>2 DEF Fine, ghosts, TypeOK
  <2>3. CASE UNCHANGED file /\ Fault({q})
    BY <1>0, <2>1, <2>3, Faulting
  <2>4. QED
    BY <2>2, <2>3 DEF Unlink
<1>4. Moves(h, r)
  BY <1>0, <1>1, <1>2, <1>3 DEF Moves, TypeOK
<1>5. LeavesPaths(h, r)
  <2> SUFFICES ASSUME NEW p \in Paths, p \in Claims(s), p \notin excused'
               PROVE  IF p = q THEN file'[p] = none ELSE file'[p] = row'[p]
    BY <1>1, <1>2 DEF LeavesPaths, OnPath, Claims
  <2>1. OnPath(s, p)
    BY <1>0, <1>3, AtWork
  <2>2. QED
    BY <1>0, <1>3, <2>1 DEF OnPath
<1>6. LeavesId(h, r)
  <2> SUFFICES ASSUME s.id \in (Items \cup Links) \ excused PROVE OfId(r)
    BY <1>1, <1>2, <1>3 DEF LeavesId, OfId, Rows
  <2>1. OfId(s)
    BY <1>0, AtWork
  <2>2. QED
    BY <1>0, <1>1, <2>1 DEF OfId
<1>7. LeavesLink(h, r)
  <2> SUFFICES ASSUME s.id \in Links \ raced PROVE OfLink(r) /\ (Rows(s.id) # {} => s.id \in links)
    BY <1>1, <1>3 DEF LeavesLink, OfLink, Rows
  <2>1. QED
    BY <1>0, <1>1, AtWork DEF OfLink
<1>8. QED
  BY <1>4, <1>5, <1>6, <1>7, Framing

LEMMA DeleteKeeps == ASSUME IInv, NEW h \in Handlers, Delete(h) PROVE IInv'
<1> PICK s : s = run[h]
  OBVIOUS
<1>0. /\ s.at = "delete" /\ s.does \in {"add", "remove"} /\ s.path \in Paths /\ s \in Runs /\ Shape(s) /\ TypeOK
      /\ s.id \in Ids /\ s.path \in s.todo /\ s.path \in Claims(s) /\ s.todo \subseteq Paths
      /\ row \in [Paths -> Ids \cup {none}]
  <2>1. s.at = "delete"
    BY DEF Delete
  <2>2. QED
    BY <2>1, AtWork DEF Shape
<1> DEFINE left == s.todo \ {s.path}
<1>1. row' = [row EXCEPT ![s.path] = none] /\ UNCHANGED <<file, links, faults, excused, raced>>
  BY DEF Delete, Fine, ghosts
<1>2. row' \in [Paths -> Ids \cup {none}] /\ \A q \in Paths : row'[q] = IF q = s.path THEN none ELSE row[q]
  BY <1>0, <1>1
<1>3. \A q \in (Paths \cap Claims(s)) \ excused : file[q] = row'[q]
  <2> SUFFICES ASSUME NEW q \in Paths, q \in Claims(s), q \notin excused PROVE file[q] = row'[q]
    OBVIOUS
  <2>1. OnPath(s, q)
    BY <1>0, AtWork
  <2>2. QED
    BY <1>0, <1>2, <2>1 DEF OnPath
<1>4. s.id \in (Items \cup Links) \ excused =>
          \A p, q \in Paths : row'[p] = s.id /\ row'[q] = s.id => p \in left \/ q \in left \/ p = q
  <2>1. s.id # none
    BY <1>0, LibraryAssumption
  <2>2. s.id \in (Items \cup Links) \ excused => \A p, q \in Rows(s.id) : p \in s.todo \/ q \in s.todo \/ p = q
    <3> SUFFICES ASSUME s.id \in (Items \cup Links) \ excused
                 PROVE  \A p, q \in Rows(s.id) : p \in s.todo \/ q \in s.todo \/ p = q
      OBVIOUS
    <3>1. OfId(s)
      BY <1>0, AtWork
    <3>2. QED
      BY <1>0, <3>1 DEF OfId
  <2>3. QED
    BY <1>2, <2>1, <2>2 DEF Rows
<1>5. s.id \in Links \ raced /\ s.does = "remove" => \A q \in Paths : row'[q] = s.id => q \in left
  <2>1. s.id # none
    BY <1>0, LibraryAssumption
  <2>2. s.id \in Links \ raced /\ s.does = "remove" => Rows(s.id) \subseteq s.todo
    BY <1>0, AtWork DEF OfLink
  <2>3. QED
    BY <1>2, <2>1, <2>2 DEF Rows
<1>6. s.id \in Links \ raced => ((\E q \in Paths : row'[q] = s.id) => s.id \in links')
  <2>1. s.id # none
    BY <1>0, LibraryAssumption
  <2>2. s.id \in Links \ raced => (Rows(s.id) # {} => s.id \in links)
    BY <1>0, AtWork
  <2>3. QED
    BY <1>1, <1>2, <2>1, <2>2 DEF Rows
<1> PICK e : e = [s EXCEPT !.todo = left]
  OBVIOUS
<1>7. /\ e \in Runs /\ e.at = "delete" /\ e.does = s.does /\ e.id = s.id /\ e.path = s.path
      /\ e.old = s.old /\ e.todo = left /\ Proceeds(h, e)
  BY <1>0 DEF Delete, Runs
\* The next step, with the paths that are left.
<1>8. ASSUME NEW at \in {"unlink", "forget"}, Becomes(h, [e EXCEPT !.at = at]),
             at = "unlink" => left # {},
             at = "forget" => left = {} /\ s.does = "remove" /\ s.id \in Links
      PROVE  IInv'
  <2> PICK r : r = [e EXCEPT !.at = at]
    OBVIOUS
  <2>1. /\ r \in Runs /\ r.at = at /\ r.does = s.does /\ r.id = s.id /\ r.path = s.path /\ r.old = s.old /\ r.todo = left
    <3>1. at \in Ats /\ e \in Runs /\ r = [e EXCEPT !.at = at]
      BY <1>7 DEF Ats
    <3> HIDE DEF left
    <3>2. r \in Runs /\ r.at = at /\ r.does = e.does /\ r.id = e.id /\ r.path = e.path /\ r.old = e.old /\ r.todo = e.todo
      BY <3>1 DEF Runs, Ats
    <3>3. QED
      BY <1>7, <3>2
  <2>2. Shape(r) /\ r # Idle /\ Claims(r) \subseteq Claims(s)
    BY <1>0, <1>8, <2>1, IdleShape DEF Shape, Claims
  <2>3. Moves(h, r)
    BY <1>0, <1>1, <1>2, <1>8, <2>1, <2>2 DEF Moves, TypeOK
  <2>4. LeavesPaths(h, r)
    BY <1>1, <1>3, <2>1 DEF LeavesPaths, OnPath
  <2>5. LeavesId(h, r)
    BY <1>0, <1>1, <1>4, <2>1, <2>2 DEF LeavesId, OfId, Rows
  <2>6. LeavesLink(h, r)
    BY <1>0, <1>5, <1>6, <2>1 DEF LeavesLink, OfLink, Rows
  <2>7. QED
    BY <2>3, <2>4, <2>5, <2>6, Framing
<1>9. ASSUME Ends(h), left = {} PROVE IInv'
  <2> PICK r : r = Idle
    OBVIOUS
  <2>1. Shape(r) /\ Claims(r) = {} /\ r.id = none /\ r.does = "nothing"
    BY IdleShape
  <2>2. Moves(h, r)
    BY <1>0, <1>1, <1>2, <1>9, <2>1 DEF Ends, Moves, TypeOK
  <2>3. LeavesPaths(h, r)
    BY <1>1, <1>3, <2>1 DEF LeavesPaths
  <2>4. LeavesId(h, r)
    BY <1>1, <1>4, <1>9 DEF LeavesId
  <2>5. LeavesLink(h, r)
    BY <1>6 DEF LeavesLink
  <2>6. QED
    BY <2>2, <2>3, <2>4, <2>5, Framing
<1>10. QED
  <2>1. CASE left # {}
    BY <1>7, <1>8, <2>1 DEF Proceeds
  <2>2. CASE left = {} /\ AfterDelete(e) = "idle"
    BY <1>7, <1>9, <2>2 DEF Proceeds
  <2>3. CASE left = {} /\ AfterDelete(e) # "idle"
    <3>1. s.does = "remove" /\ s.id \in Links /\ AfterDelete(e) = "forget"
      BY <1>7, <2>3 DEF AfterDelete
    <3>2. Becomes(h, [e EXCEPT !.at = "forget"])
      BY <1>7, <2>3, <3>1 DEF Proceeds
    <3>3. QED
      BY <1>8, <2>3, <3>1, <3>2
  <2>4. QED
    BY <2>1, <2>2, <2>3

LEMMA ForgetKeeps == ASSUME IInv, NEW h \in Handlers, Forget(h) PROVE IInv'
<1> PICK s : s = run[h]
  OBVIOUS
<1>0. s.at = "forget" /\ s.does = "remove" /\ s.todo = {} /\ s.id \in Links /\ TypeOK /\ s \in Runs
      /\ row \in [Paths -> Ids \cup {none}] /\ file \in [Paths -> Ids \cup {none, cut}] /\ links \subseteq Links
  <2>1. s.at = "forget"
    BY DEF Forget
  <2>2. QED
    BY <2>1, AtWork DEF Shape
<1> PICK r : r = Idle
  OBVIOUS
<1>1. Shape(r) /\ Claims(r) = {} /\ r.id = none /\ r.does = "nothing"
  BY IdleShape
<1>2. /\ Ends(h) /\ UNCHANGED <<row, file, raced>> /\ links' \in {links, links \ {s.id}}
      /\ excused \subseteq excused' /\ excused' \subseteq Paths \cup Ids /\ faults' \in 0 .. MaxFaults
  <2>1. Ends(h) /\ UNCHANGED <<row, file>>
    BY DEF Forget
  <2>2. CASE links' = links \ {s.id} /\ Fine
    BY <1>0, <2>1, <2>2 DEF Fine, ghosts, TypeOK
  <2>3. CASE UNCHANGED links /\ Fault({})
    BY <1>0, <2>1, <2>3, Faulting
  <2>4. QED
    BY <2>2, <2>3 DEF Forget
<1>3. Moves(h, r)
  BY <1>0, <1>1, <1>2 DEF Ends, Moves
<1>4. LeavesPaths(h, r)
  <2> SUFFICES ASSUME NEW q \in Paths, q \in Claims(s), q \notin excused' PROVE file[q] = row[q]
    BY <1>1, <1>2 DEF LeavesPaths
  <2>1. OnPath(s, q)
    BY <1>0, <1>2, AtWork
  <2>2. QED
    BY <1>0, <2>1 DEF OnPath
<1>5. LeavesId(h, r)
  <2> SUFFICES ASSUME s.id \notin excused PROVE \A p, q \in Rows(s.id) : p = q
    BY <1>0, <1>2 DEF LeavesId, Rows
  <2>1. OfId(s)
    BY <1>0, AtWork
  <2>2. QED
    BY <1>0, <2>1 DEF OfId
<1>6. LeavesLink(h, r)
  <2> SUFFICES ASSUME s.id \notin raced PROVE Rows(s.id) = {}
    BY <1>2 DEF LeavesLink, Rows
  <2>1. OfLink(s)
    BY <1>0, AtWork
  <2>2. QED
    BY <1>0, <2>1 DEF OfLink
<1>7. QED
  BY <1>3, <1>4, <1>5, <1>6, Framing

LEMMA StopKeeps == ASSUME IInv, Stop PROVE IInv'
<1>0. /\ TypeOK /\ Shapes /\ PathsAreInHand /\ EntriesAreWhole /\ IdsAreInHand /\ OneEntryEach /\ EntriesHaveTheirLink
  BY DEF IInv
<1>1. /\ run' = [h \in Handlers |-> Idle] /\ UNCHANGED <<row, file, links>>
      /\ Fault(UNION {Claims(run[h]) : h \in {g \in Handlers : run[g].does # "copy"}})
  BY DEF Stop
<1>2. /\ faults' \in 0 .. MaxFaults /\ excused' \subseteq Paths \cup Ids /\ raced' = raced /\ raced' \subseteq Ids
      /\ excused \subseteq excused'
      /\ \A h \in Handlers : run[h].does # "copy" => Claims(run[h]) \subseteq excused'
  <2>1. \A h \in Handlers : Claims(run[h]) \subseteq Paths \cup Ids
    BY <1>0, Claimables DEF TypeOK
  <2>2. QED
    BY <1>0, <1>1, <2>1, Faulting
<1>3. TypeOK'
  BY <1>0, <1>1, <1>2, IdleShape DEF TypeOK, Shape
<1>4. Shapes' /\ Apart' /\ PathsAreInHand'
  BY <1>1, IdleShape DEF Shapes, Apart, PathsAreInHand
<1>5. IdsAreInHand' /\ LinksAreInHand'
  BY <1>1, IdleShape, LibraryAssumption DEF IdsAreInHand, LinksAreInHand, Ids
<1>6. EntriesHaveTheirLink'
  BY <1>0, <1>1, <1>2 DEF EntriesHaveTheirLink
<1>7. EntriesAreWhole'
  <2> SUFFICES ASSUME NEW q \in Paths, q \notin excused' PROVE file[q] = row[q]
    BY <1>1 DEF EntriesAreWhole
  <2>1. ASSUME NEW h \in Handlers, q \in Claims(run[h]) PROVE file[q] = row[q]
    <3>1. run[h].does = "copy" /\ OnPath(run[h], q) /\ q \notin excused
      BY <1>0, <1>2, <2>1 DEF PathsAreInHand
    <3>2. QED
      BY <1>0, <3>1 DEF OnPath, Shapes, Shape
  <2>2. CASE q \notin Claimed
    BY <1>0, <1>2, <2>2 DEF EntriesAreWhole
  <2>3. QED
    BY <2>1, <2>2 DEF Claimed
<1>8. OneEntryEach'
  <2> SUFFICES ASSUME NEW x \in Items \cup Links, x \notin excused' PROVE \A p, q \in Rows(x) : p = q
    BY <1>1 DEF OneEntryEach, Rows
  <2>1. ASSUME NEW h \in Handlers, x \in Claims(run[h]) PROVE \A p, q \in Rows(x) : p = q
    <3>1. run[h].does = "copy" /\ x \notin excused
      BY <1>2, <2>1
    <3>2. run[h].old = none /\ run[h].todo \subseteq Paths /\ run[h].path \in Paths \cup {none} /\ x \in Ids /\ x \notin Paths
      BY <1>0, <3>1, LibraryAssumption DEF Shapes, Shape, TypeOK, Runs, Ids
    <3>3. x = run[h].id
      BY <2>1, <3>2 DEF Claims
    <3>4. run[h].at = "record" /\ OfId(run[h])
      BY <1>0, <3>1, <3>3 DEF Shapes, Shape, IdsAreInHand
    <3>5. QED
      BY <3>1, <3>3, <3>4 DEF OfId
  <2>2. CASE x \notin Claimed
    BY <1>0, <1>2, <2>2 DEF OneEntryEach
  <2>3. QED
    BY <2>1, <2>2 DEF Claimed
<1>9. QED
  BY <1>3, <1>4, <1>5, <1>6, <1>7, <1>8 DEF IInv

-----------------------------------------------------------------------------

LEMMA Start == Init => IInv
<1> SUFFICES ASSUME Init PROVE IInv
  OBVIOUS
<1>1. TypeOK /\ Shapes
  BY IdleShape, LibraryAssumption DEF Init, TypeOK, Shapes, Shape
<1>2. Apart /\ PathsAreInHand
  BY IdleShape DEF Init, Apart, PathsAreInHand
<1>3. IdsAreInHand /\ LinksAreInHand
  BY IdleShape, LibraryAssumption DEF Init, IdsAreInHand, LinksAreInHand, Ids
<1>4. EntriesAreWhole /\ OneEntryEach /\ EntriesHaveTheirLink
  BY LibraryAssumption DEF Init, EntriesAreWhole, OneEntryEach, EntriesHaveTheirLink, Rows, Ids
<1>5. QED
  BY <1>1, <1>2, <1>3, <1>4 DEF IInv

LEMMA Inductive == IInv /\ [Next]_vars => IInv'
<1> SUFFICES ASSUME IInv, [Next]_vars PROVE IInv'
  OBVIOUS
<1>1. ASSUME NEW h \in Handlers, Step(h) PROVE IInv'
  BY <1>1, WriteKeeps, WriteFailsKeeps, LinkKeeps, RecordFailsKeeps, RecordKeeps, UnlinkKeeps, DeleteKeeps,
     DeleteFailsKeeps, ForgetKeeps, DiscardKeeps DEF Step
<1>2. CASE Next
  BY <1>1, <1>2, AddKeeps, RemoveKeeps, ReadCopyKeeps, StopKeeps DEF Next
<1>3. CASE UNCHANGED vars
  BY <1>3 DEF vars, ghosts, IInv, TypeOK, Shapes, Apart, PathsAreInHand, EntriesAreWhole, IdsAreInHand, OneEntryEach,
              LinksAreInHand, EntriesHaveTheirLink, OnPath, OfId, OfLink, Rows, Claimed
<1>4. QED
  BY <1>2, <1>3

THEOREM Invariance == Spec => []IInv
<1>1. Init => IInv
  BY Start
<1>2. IInv /\ [Next]_vars => IInv'
  BY Inductive
<1>3. QED
  BY <1>1, <1>2, PTL DEF Spec

THEOREM Typing == Spec => []TypeOK
<1>1. IInv => TypeOK
  BY DEF IInv
<1>2. QED
  BY <1>1, Invariance, PTL

\* Whenever nobody is at work on a path, its file and row are both there, and of one
\* identity, or neither is, but for what "excused" names.
THEOREM Whole == Spec => []EntriesAreWhole
<1>1. IInv => EntriesAreWhole
  BY DEF IInv
<1>2. QED
  BY <1>1, Invariance, PTL

\* An item or link registered again under another title moves (main.go:2892).
THEOREM Moved == Spec => []OneEntryEach
<1>1. IInv => OneEntryEach
  BY DEF IInv
<1>2. QED
  BY <1>1, Invariance, PTL

\* An entry of a pasted page has the page (websources.go: the link first, its rows
\* after; its rows first, the link after).
THEOREM Linked == Spec => []EntriesHaveTheirLink
<1>1. IInv => EntriesHaveTheirLink
  BY DEF IInv
<1>2. QED
  BY <1>1, Invariance, PTL

=============================================================================
