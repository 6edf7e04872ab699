----------------------------- MODULE BlockProofs -----------------------------
(***************************************************************************)
(* Whose blocks are whose: for every disk geometry and through every call, *)
(* failed write and warm boot, a block belongs to one place of one file,   *)
(* and the allocation bitmap marks it.  The theorems are about programs    *)
(* that keep one FCB per file, delete and rename no open file (Careful),   *)
(* and only close an FCB once a call on it has failed (StopAtError):       *)
(* others do lose files to each other.                                     *)
(***************************************************************************)
EXTENDS FilesystemProofs

DirArea == 0..DirBlocks - 1

\* NoCrossLink, of any directory, with the bitmap.
DirSafe(d, B) ==
    /\ DirArea \subseteq B
    /\ \A i \in Dirents, s \in Slots :
          InUse(d, i) /\ d[i].al[s] # 0 => d[i].al[s] \in B \ DirArea
    /\ \A i, j \in Dirents, s, t \in Slots :
          InUse(d, i) /\ InUse(d, j) /\ d[i].al[s] # 0 /\ d[i].al[s] = d[j].al[t]
             => i = j /\ s = t

\* Dirent i describes the extent FCB F has in hand.
Of(d, F, i) == InUse(d, i) /\ d[i].file = F.file /\ Group(d[i].ext) = Group(F.ext)

\* An FCB's blocks are marked, each in one place, and no other file's.
Fits(d, B, F) ==
    \A s \in Slots : F.al[s] # 0 =>
        /\ F.al[s] \in B \ DirArea
        /\ \A t \in Slots : F.al[t] = F.al[s] => t = s
        /\ \A i \in Dirents, t \in Slots : InUse(d, i) /\ d[i].al[t] = F.al[s] =>
              d[i].file = F.file /\ t = s

\* The FCB's extent is in the directory, the FCB's map has all that the
\* dirent's has, and its blocks are in no other extent: CLOSEFILE's merge
\* finds nothing to disagree about.
Holds(d, F) ==
    /\ \E i \in Dirents : Of(d, F, i)
    /\ \A i \in Dirents, s \in Slots : Of(d, F, i) /\ d[i].al[s] # 0 =>
          F.al[s] = d[i].al[s]
    /\ \A i \in Dirents, s \in Slots : InUse(d, i) /\ F.al[s] # 0 /\ d[i].al[s] = F.al[s] =>
          Of(d, F, i)

\* The FCB's map may be another extent's, but CLOSEFILE will write it nowhere.
Astray(d, F) == F.mod => \A i \in Dirents : ~Of(d, F, i)

Placed(d, F, u) == IF u = "lost" THEN Astray(d, F) ELSE Holds(d, F)

Apart(F, G) ==
    /\ F.file # G.file
    /\ \A s, t \in Slots : F.al[s] # 0 => F.al[s] # G.al[t]

\* The inductive invariant behind NoCrossLink, BitmapCovers and
\* MapsAreDisjoint.
BlockInv ==
    /\ DirSafe(dir, bitmap)
    /\ \A f \in FCBs : use[f] # "closed" =>
          Fits(dir, bitmap, fcb[f]) /\ Placed(dir, fcb[f], use[f])
    /\ \A f, g \in FCBs : f # g /\ use[f] # "closed" /\ use[g] # "closed" =>
          Apart(fcb[f], fcb[g])

\* The same while FCB f is on the machine m.
Others(f, m) ==
    \A g \in FCBs : g # f /\ use[g] # "closed" =>
        /\ Apart(fcb[g], m.fcb)
        /\ Fits(m.dir, m.bitmap, fcb[g]) /\ Placed(m.dir, fcb[g], use[g])

Safe(f, m) ==
    DirSafe(m.dir, m.bitmap) /\ Fits(m.dir, m.bitmap, m.fcb) /\ Others(f, m)

Held(m) == Holds(m.dir, m.fcb)

-----------------------------------------------------------------------------
(* The three ways a directory, a bitmap and a map change: a dirent without *)
(* blocks is written, an FCB's map is written back, a block is allocated.  *)

LEMMA NewDirentIsSafe ==
    ASSUME NEW d, NEW e, NEW B, NEW i \in Dirents, NEW new,
           ~InUse(d, i), InUse(e, i), e[i] = new, \A s \in Slots : new.al[s] = 0,
           \A j \in Dirents : j # i => e[j] = d[j]
    PROVE  /\ DirSafe(d, B) => DirSafe(e, B)
           /\ \A F : Fits(d, B, F) => Fits(e, B, F)
           /\ \A F, u : F.file # new.file /\ Placed(d, F, u) => Placed(e, F, u)
  <1>1. \A j \in Dirents : j # i => (InUse(e, j) <=> InUse(d, j))
    BY DEF InUse
  <1>2. DirSafe(d, B) => DirSafe(e, B)
    BY <1>1 DEF DirSafe
  <1>3. ASSUME NEW F, Fits(d, B, F) PROVE Fits(e, B, F)
    BY <1>1, <1>3 DEF Fits
  <1>4. ASSUME NEW F, F.file # new.file PROVE \A j \in Dirents : Of(e, F, j) <=> Of(d, F, j)
    BY <1>1, <1>4 DEF Of
  <1>5. ASSUME NEW F, F.file # new.file
        PROVE  /\ Holds(d, F) => Holds(e, F)
               /\ Astray(d, F) => Astray(e, F)
    <2>1. \A j \in Dirents : Of(e, F, j) => j # i /\ e[j] = d[j]
      BY <1>5 DEF Of
    <2>2. \A j \in Dirents, s \in Slots : InUse(e, j) /\ F.al[s] # 0 /\ e[j].al[s] = F.al[s] =>
             j # i
      OBVIOUS
    <2> QED
      BY <1>1, <1>4, <1>5, <2>1, <2>2 DEF Holds, Astray
  <1> QED
    BY <1>2, <1>3, <1>5 DEF Placed

LEMMA WrittenBackIsSafe ==
    ASSUME NEW d, NEW e, NEW B, NEW i \in Dirents, NEW F,
           DirSafe(d, B), Unique(d), Fits(d, B, F), Holds(d, F), Of(d, F, i),
           InUse(e, i), e[i].file = F.file, Group(e[i].ext) = Group(F.ext),
           e[i].al = F.al,
           \A j \in Dirents : j # i => e[j] = d[j]
    PROVE  /\ DirSafe(e, B) /\ Fits(e, B, F) /\ Holds(e, F)
           /\ \A G, u : Apart(G, F) =>
                 /\ Fits(d, B, G) => Fits(e, B, G)
                 /\ Placed(d, G, u) => Placed(e, G, u)
  <1>1. \A j \in Dirents : j # i => (InUse(e, j) <=> InUse(d, j))
    BY DEF InUse
  <1>2. \A j \in Dirents : Of(d, F, j) => j = i
    BY DEF Of, Unique
  <1>3. \A j \in Dirents : Of(e, F, j) <=> j = i
    BY <1>1, <1>2 DEF Of
  <1>4. \A j \in Dirents, s, t \in Slots :
           j # i /\ InUse(d, j) /\ F.al[s] # 0 => d[j].al[t] # F.al[s]
    BY <1>2 DEF Fits, Holds
  <1>5. DirSafe(e, B)
    <2>1. \A j \in Dirents, s \in Slots : InUse(e, j) /\ e[j].al[s] # 0 =>
             e[j].al[s] \in B \ DirArea
      BY <1>1 DEF DirSafe, Fits
    <2>2. ASSUME NEW j \in Dirents, NEW k \in Dirents, NEW s \in Slots, NEW t \in Slots,
                 InUse(e, j), InUse(e, k), e[j].al[s] # 0, e[j].al[s] = e[k].al[t]
          PROVE  j = k /\ s = t
      <3>1. CASE j # i /\ k # i
        BY <1>1, <2>2, <3>1 DEF DirSafe
      <3>2. CASE j = i /\ k = i
        BY <2>2, <3>2 DEF Fits
      <3>3. CASE j = i /\ k # i
        BY <1>1, <1>4, <2>2, <3>3
      <3>4. CASE j # i /\ k = i
        BY <1>1, <1>4, <2>2, <3>4
      <3> QED
        BY <3>1, <3>2, <3>3, <3>4
    <2>3. DirArea \subseteq B
      BY DEF DirSafe
    <2> QED
      BY <2>1, <2>2, <2>3 DEF DirSafe
  <1>6. Fits(e, B, F)
    BY <1>1, <1>4 DEF Fits
  <1>7. Holds(e, F)
    BY <1>1, <1>3, <1>4 DEF Holds
  <1>8. ASSUME NEW G, Apart(G, F)
        PROVE  /\ Fits(d, B, G) => Fits(e, B, G)
               /\ Holds(d, G) => Holds(e, G)
               /\ Astray(d, G) => Astray(e, G)
    <2>1. \A j \in Dirents : Of(e, G, j) <=> Of(d, G, j)
      BY <1>1, <1>8 DEF Of, Apart
    <2>2. \A j \in Dirents : Of(e, G, j) => j # i
      BY <1>8 DEF Of, Apart
    <2>3. \A j \in Dirents, s, t \in Slots : InUse(e, j) /\ G.al[s] # 0 /\ e[j].al[t] = G.al[s] =>
             j # i
      BY <1>8 DEF Apart
    <2>4. Fits(d, B, G) => Fits(e, B, G)
      BY <1>1, <2>3 DEF Fits
    <2>5. Holds(d, G) => Holds(e, G)
      BY <1>1, <2>1, <2>2, <2>3 DEF Holds
    <2>6. Astray(d, G) => Astray(e, G)
      BY <2>1 DEF Astray
    <2> QED
      BY <2>4, <2>5, <2>6
  <1> QED
    BY <1>5, <1>6, <1>7, <1>8 DEF Placed

\* G is F with block b in the slot p it had empty, if the map has such a slot.
Takes(F, G, p, b) ==
    /\ G.file = F.file /\ G.ext = F.ext
    /\ \A s \in Slots : IF s = p THEN F.al[s] = 0 /\ G.al[s] = b ELSE G.al[s] = F.al[s]

LEMMA AllocatedIsSafe ==
    ASSUME NEW d, NEW B, NEW b, NEW F, NEW G, NEW p, Takes(F, G, p, b),
           DirSafe(d, B), Fits(d, B, F), Holds(d, F), b # 0, b \notin B
    PROVE  /\ DirSafe(d, B \cup {b}) /\ Fits(d, B \cup {b}, G) /\ Holds(d, G)
           /\ \A H : Fits(d, B, H) => Fits(d, B \cup {b}, H)
           /\ \A H : Fits(d, B, H) /\ Apart(H, F) => Apart(H, G)
  <1>0. /\ G.file = F.file /\ G.ext = F.ext
        /\ \A s \in Slots : IF s = p THEN F.al[s] = 0 /\ G.al[s] = b ELSE G.al[s] = F.al[s]
    BY DEF Takes
  <1>1. b \notin DirArea
    BY DEF DirSafe
  <1>2. \A i \in Dirents, s \in Slots : InUse(d, i) => d[i].al[s] # b
    BY DEF DirSafe
  <1>3. \A H : \A s \in Slots : Fits(d, B, H) => H.al[s] # b
    BY DEF Fits
  <1>4. DirSafe(d, B \cup {b})
    BY DEF DirSafe
  <1>5. \A H : Fits(d, B, H) => Fits(d, B \cup {b}, H)
    BY DEF Fits
  <1>6. Fits(d, B \cup {b}, G)
    <2> SUFFICES ASSUME NEW s \in Slots, G.al[s] # 0
                 PROVE  /\ G.al[s] \in (B \cup {b}) \ DirArea
                        /\ \A t \in Slots : G.al[t] = G.al[s] => t = s
                        /\ \A i \in Dirents, t \in Slots : InUse(d, i) /\ d[i].al[t] = G.al[s] =>
                              d[i].file = G.file /\ t = s
      BY DEF Fits
    <2>1. CASE s = p
      BY <1>0, <1>1, <1>2, <1>3, <2>1
    <2>2. CASE s # p
      BY <1>0, <1>3, <2>2 DEF Fits
    <2> QED
      BY <2>1, <2>2
  <1>7. Holds(d, G)
    <2>1. \A i \in Dirents : Of(d, G, i) <=> Of(d, F, i)
      BY <1>0 DEF Of
    <2>2. \A i \in Dirents, s \in Slots : Of(d, F, i) /\ d[i].al[s] # 0 => s # p
      BY <1>0 DEF Holds
    <2>3. \A i \in Dirents, s \in Slots : InUse(d, i) /\ d[i].al[s] = G.al[s] => s # p
      BY <1>0, <1>2
    <2> QED
      BY <1>0, <2>1, <2>2, <2>3 DEF Holds
  <1>8. ASSUME NEW H, Fits(d, B, H), Apart(H, F) PROVE Apart(H, G)
    BY <1>0, <1>3, <1>8 DEF Apart
  <1> QED
    BY <1>4, <1>5, <1>6, <1>7, <1>8

-----------------------------------------------------------------------------
(* Routines that move the FCB within its map, or out of it, only change    *)
(* what no block depends on.                                               *)

SameMaps(m, n) ==
    /\ n.dir = m.dir /\ n.bitmap = m.bitmap
    /\ n.fcb.file = m.fcb.file /\ n.fcb.al = m.fcb.al

LEMMA SameMapsAreSafe ==
    ASSUME NEW f, NEW m, NEW n, Safe(f, m), SameMaps(m, n)
    PROVE  /\ Safe(f, n)
           /\ Held(m) /\ n.fcb.ext = m.fcb.ext => Held(n)
  <1>1. Fits(n.dir, n.bitmap, n.fcb)
    BY DEF Safe, SameMaps, Fits
  <1>2. Others(f, n)
    BY DEF Safe, SameMaps, Others, Apart
  <1>3. Held(m) /\ n.fcb.ext = m.fcb.ext => Held(n)
    BY DEF SameMaps, Held, Holds, Of
  <1> QED
    BY <1>1, <1>2, <1>3 DEF Safe, SameMaps

LEMMA ReturnIsSafe ==
    ASSUME NEW f, NEW m \in Machines, Safe(f, m), NEW r
    PROVE  /\ Safe(f, [m EXCEPT !.ret = r])
           /\ Held(m) => Held([m EXCEPT !.ret = r])
           /\ [m EXCEPT !.ret = r].ret = r /\ [m EXCEPT !.ret = r].fcb = m.fcb
           /\ [m EXCEPT !.ret = r].dir = m.dir
  <1> DEFINE n == [m EXCEPT !.ret = r]
  <1>1. n.ret = r /\ n.fcb = m.fcb /\ n.dir = m.dir /\ n.bitmap = m.bitmap
    BY DEF Machines
  <1> HIDE DEF n
  <1>2. SameMaps(m, n)
    BY <1>1 DEF SameMaps
  <1>3. Safe(f, n) /\ (Held(m) => Held(n))
    BY <1>1, <1>2, SameMapsAreSafe
  <1> QED
    BY <1>1, <1>3 DEF n

-----------------------------------------------------------------------------
(* The routines that read and write dirents *)

\* A search that finds nothing proves absence, one that finds something finds
\* the one dirent there is.
LEMMA SearchIsExact ==
    ASSUME NEW m \in Machines, Searchable(m)
    PROVE  LET found == Matches(m, m.fcb.file, m.fcb.ext)
               i     == Lowest(found)
           IN /\ found = {} <=> \A j \in Dirents : ~Of(m.dir, m.fcb, j)
              /\ found # {} => /\ i \in Dirents /\ Of(m.dir, m.fcb, i)
                               /\ m.dir[i] \in Dirent
  <1> DEFINE found == Matches(m, m.fcb.file, m.fcb.ext)
             i     == Lowest(found)
  <1>1. found = {} <=> \A j \in Dirents : ~Of(m.dir, m.fcb, j)
    BY DEF Matches, Of, Searchable, Sane, Bounded
  <1>2. ASSUME found # {}
        PROVE  i \in Dirents /\ Of(m.dir, m.fcb, i) /\ m.dir[i] \in Dirent
    <2>1. found \in SUBSET Nat
      BY DiskAssumption DEF Matches, Dirents
    <2>2. i \in found
      BY <1>2, <2>1, LowestIsFirst
    <2> QED
      BY <1>2, <2>2, MatchesAreDirents DEF Matches, Of
  <1> QED
    BY <1>1, <1>2

\* The machine c is m after its FCB's map was written to the extent's dirent.
WritesBack(m, c) ==
    \E i \in Dirents, d \in Dirent :
        /\ Of(m.dir, m.fcb, i)
        /\ d.file = m.fcb.file /\ d.ext = m.fcb.ext
        /\ d.rc = m.fcb.rc /\ d.al = m.fcb.al
        /\ c.dir = [m.dir EXCEPT ![i] = d]
        /\ c.data = m.data /\ c.bitmap = m.bitmap /\ c.ret = m.ret
        /\ c.fcb \in {m.fcb, [m.fcb EXCEPT !.mod = FALSE]}
        /\ m.ret # "abort" => ~c.fcb.mod

\* CLOSEFILE on an FCB that holds its extent has no clash, and merges nothing
\* into the FCB's map.
LEMMA CloseIsExact ==
    ASSUME NEW m \in Machines, Searchable(m), Held(m), NEW c, c = internal_CLOSEFILE(m)
    PROVE  \/ c = [m EXCEPT !.ret = "abort"]
           \/ c = m /\ ~m.fcb.mod
           \/ WritesBack(m, c)
  <1> DEFINE found   == Matches(m, m.fcb.file, m.fcb.ext)
             i       == Lowest(found)
             d       == [m.dir[i] EXCEPT !.rc = m.fcb.rc, !.ext = m.fcb.ext,
                                         !.al = Merge(@, m.fcb.al)]
             w       == WriteDirent(m, i, d)
             done    == [w EXCEPT !.fcb.al = Merge(@, m.dir[i].al), !.fcb.mod = FALSE]
  <1>1. found # {} /\ i \in Dirents /\ Of(m.dir, m.fcb, i) /\ m.dir[i] \in Dirent
    BY SearchIsExact DEF Held, Holds
  <1>2. m.fcb \in OpenFcb
    BY DEF Machines
  <1>3. \A s \in Slots : m.dir[i].al[s] # 0 => m.fcb.al[s] = m.dir[i].al[s]
    BY <1>1 DEF Held, Holds
  <1>4. Clashes(m.fcb.al, m.dir[i].al) = {}
    <2>1. \A a \in Blocks : ~Differ(a, a)
      BY DiskAssumption DEF Differ, Blocks
    <2>2. \A s \in Slots : m.fcb.al[s] \in Blocks
      BY <1>2 DEF OpenFcb
    <2> QED
      BY <1>3, <2>1, <2>2 DEF Clashes
  <1>5. Merge(m.dir[i].al, m.fcb.al) = m.fcb.al /\ Merge(m.fcb.al, m.dir[i].al) = m.fcb.al
    <2>1. m.fcb.al \in [Slots -> Blocks] /\ m.dir[i].al \in [Slots -> Blocks]
      BY <1>1, <1>2 DEF OpenFcb, Dirent
    <2>2. \A s \in Slots : /\ Merge(m.dir[i].al, m.fcb.al)[s] = m.fcb.al[s]
                           /\ Merge(m.fcb.al, m.dir[i].al)[s] = m.fcb.al[s]
      BY <1>3 DEF Merge
    <2> QED
      BY <2>1, <2>2 DEF Merge
  <1>6. /\ d \in Dirent /\ d.file = m.fcb.file /\ d.ext = m.fcb.ext
        /\ d.rc = m.fcb.rc /\ d.al = m.fcb.al
    <2>1. d.file = m.fcb.file /\ d.ext = m.fcb.ext /\ d.rc = m.fcb.rc
      BY <1>1, <1>2 DEF Dirent, Of
    <2>2. d.al = m.fcb.al
      BY <1>1, <1>5 DEF Dirent
    <2>3. d \in Dirent
      BY <1>1, <1>2, <1>5 DEF Dirent, OpenFcb
    <2> QED
      BY <2>1, <2>2, <2>3
  <1> HIDE DEF d, i
  <1>7. CASE m.fcb.ro \/ readonly
    BY <1>7 DEF internal_CLOSEFILE
  <1>8. CASE ~(m.fcb.ro \/ readonly) /\ ~m.fcb.mod
    BY <1>2, <1>8 DEF internal_CLOSEFILE, OpenFcb
  <1>9. CASE ~(m.fcb.ro \/ readonly) /\ m.fcb.mod
    <2>1. c = IF w.ret = "abort" THEN w ELSE done
      BY <1>1, <1>4, <1>9 DEF internal_CLOSEFILE, d, i
    <2>2. CASE m.writes = 0
      <3>1. w = [m EXCEPT !.ret = "abort"]
        BY <2>2 DEF WriteDirent
      <3>2. w.ret = "abort"
        BY <3>1 DEF Machines
      <3> QED
        BY <2>1, <3>1, <3>2
    <2>3. CASE m.writes # 0
      <3>1. /\ w.dir = [m.dir EXCEPT ![i] = d] /\ w.ret = m.ret /\ w.fcb = m.fcb
            /\ w.data = m.data /\ w.bitmap = m.bitmap /\ w \in Machines
        BY <1>1, <1>6, <2>3, WriteDirentType DEF WriteDirent, Machines
      <3>2. /\ done.dir = w.dir /\ done.bitmap = w.bitmap /\ done.ret = w.ret
            /\ done.data = w.data /\ done.fcb = [w.fcb EXCEPT !.al = Merge(@, m.dir[i].al),
                                                           !.mod = FALSE]
        <4> HIDE DEF w
        <4> QED
          BY <3>1 DEF Machines, OpenFcb
      <3>3. done.fcb = [m.fcb EXCEPT !.mod = FALSE] /\ ~[m.fcb EXCEPT !.mod = FALSE].mod
        <4> HIDE DEF w, done
        <4>1. done.fcb = [m.fcb EXCEPT !.al = Merge(m.fcb.al, m.dir[i].al), !.mod = FALSE]
          BY <3>1, <3>2
        <4>2. done.fcb = [m.fcb EXCEPT !.al = m.fcb.al, !.mod = FALSE]
          BY <1>5, <4>1
        <4> QED
          BY <1>2, <4>2 DEF OpenFcb
      <3> HIDE DEF w, done
      <3> QED
        BY <1>1, <1>6, <2>1, <3>1, <3>2, <3>3, ZenonT(60) DEF WritesBack
    <2> QED
      BY <2>2, <2>3
  <1> QED
    BY <1>7, <1>8, <1>9

LEMMA CloseIsSafe ==
    ASSUME Careful, NEW f, NEW m \in Machines, Safe(f, m), Searchable(m),
           NEW c, c = internal_CLOSEFILE(m), Held(m)
    PROVE  /\ Safe(f, c) /\ Held(c)
           /\ c.fcb.ext = m.fcb.ext /\ c.fcb.file = m.fcb.file
           /\ c.ret = "abort" \/ (c.ret = m.ret /\ ~c.fcb.mod)
  <1>1. m.fcb \in OpenFcb
    BY DEF Machines
  <1>2. CASE c = [m EXCEPT !.ret = "abort"]
    BY <1>2, ReturnIsSafe
  <1>3. CASE c = m /\ ~m.fcb.mod
    BY <1>3
  <1>4. ASSUME NEW i \in Dirents, NEW d \in Dirent, Of(m.dir, m.fcb, i),
               d.file = m.fcb.file, d.ext = m.fcb.ext, d.al = m.fcb.al,
               c.dir = [m.dir EXCEPT ![i] = d], c.bitmap = m.bitmap, c.ret = m.ret,
               c.fcb \in {m.fcb, [m.fcb EXCEPT !.mod = FALSE]},
               m.ret # "abort" => ~c.fcb.mod
        PROVE  /\ Safe(f, c) /\ Held(c)
               /\ c.fcb.ext = m.fcb.ext /\ c.fcb.file = m.fcb.file
               /\ c.ret = "abort" \/ (c.ret = m.ret /\ ~c.fcb.mod)
    <2> DEFINE w == [m EXCEPT !.dir[i] = d]
    <2>1. /\ w.dir = c.dir /\ w.bitmap = m.bitmap /\ w.fcb = m.fcb
          /\ c.fcb.file = m.fcb.file /\ c.fcb.ext = m.fcb.ext /\ c.fcb.al = m.fcb.al
      BY <1>1, <1>4 DEF Machines, OpenFcb
    <2> HIDE DEF w
    <2>2. /\ InUse(w.dir, i) /\ w.dir[i] = d
          /\ \A j \in Dirents : j # i => w.dir[j] = m.dir[j]
      BY <1>4, <2>1, FreeIsNoDirent DEF InUse, Machines
    <2>3. Unique(m.dir)
      BY DEF Searchable, Sane
    <2>4. /\ DirSafe(w.dir, m.bitmap) /\ Fits(w.dir, m.bitmap, m.fcb) /\ Holds(w.dir, m.fcb)
          /\ \A G, u : Apart(G, m.fcb) =>
                /\ Fits(m.dir, m.bitmap, G) => Fits(w.dir, m.bitmap, G)
                /\ Placed(m.dir, G, u) => Placed(w.dir, G, u)
      BY <1>4, <2>2, <2>3, WrittenBackIsSafe DEF Safe, Held
    <2>5. Safe(f, w) /\ Held(w)
      BY <2>1, <2>4 DEF Safe, Others, Held
    <2>6. SameMaps(w, c) /\ c.fcb.ext = w.fcb.ext
      BY <1>4, <2>1 DEF SameMaps
    <2> QED
      BY <1>4, <2>1, <2>5, <2>6, SameMapsAreSafe
  <1>5. CASE WritesBack(m, c)
    BY <1>4, <1>5 DEF WritesBack
  <1> QED
    BY <1>2, <1>3, <1>5, CloseIsExact

\* CLOSEFILE on an FCB that a call has led astray writes no map.
LEMMA CloseAstrayIsSafe ==
    ASSUME NEW f, NEW m \in Machines, Safe(f, m), Searchable(m), Astray(m.dir, m.fcb)
    PROVE  Safe(f, internal_CLOSEFILE(m))
  <1>1. m.fcb.mod => Matches(m, m.fcb.file, m.fcb.ext) = {}
    BY SearchIsExact DEF Astray
  <1> QED
    BY <1>1, ReturnIsSafe DEF internal_CLOSEFILE

\* The machine o is m after its FCB was filled from the extent's dirent.
Loads(m, o) ==
    \E i \in Dirents :
        /\ Of(m.dir, m.fcb, i) /\ m.dir[i] \in Dirent
        /\ o.dir = m.dir /\ o.data = m.data /\ o.bitmap = m.bitmap /\ o.ret = m.ret
        /\ o.fcb = [m.fcb EXCEPT !.ro = m.dir[i].ro, !.al = m.dir[i].al, !.mod = FALSE,
                                 !.rc = RecordCount(m.dir[i], m.fcb.ext)]

LEMMA OpenIsExact ==
    ASSUME NEW m \in Machines, Searchable(m), NEW o, o = internal_OPENFILE(m)
    PROVE  \/ o = [m EXCEPT !.ret = "error"] /\ \A j \in Dirents : ~Of(m.dir, m.fcb, j)
           \/ Loads(m, o)
  <1> DEFINE found == Matches(m, m.fcb.file, m.fcb.ext)
             i     == Lowest(found)
             d     == m.dir[i]
  <1>1. CASE found = {}
    <2>1. o = [m EXCEPT !.ret = "error"]
      BY <1>1 DEF internal_OPENFILE
    <2> QED
      BY <1>1, <2>1, SearchIsExact
  <1>2. CASE found # {}
    <2>1. i \in Dirents /\ Of(m.dir, m.fcb, i) /\ d \in Dirent
      BY <1>2, SearchIsExact
    <2>2. o = [m EXCEPT !.fcb.ro = d.ro, !.fcb.al = d.al, !.fcb.mod = FALSE,
                        !.fcb.rc = RecordCount(d, m.fcb.ext)]
      BY <1>2 DEF internal_OPENFILE
    <2> DEFINE F == [m.fcb EXCEPT !.ro = d.ro, !.al = d.al, !.mod = FALSE,
                                  !.rc = RecordCount(d, m.fcb.ext)]
    <2> HIDE DEF d
    <2>3. o = [m EXCEPT !.fcb = F]
      BY <2>2, Zenon DEF Machines
    <2> HIDE DEF F
    <2>4. /\ o.dir = m.dir /\ o.data = m.data /\ o.bitmap = m.bitmap /\ o.ret = m.ret
          /\ o.fcb = F
      BY <2>3 DEF Machines
    <2> QED
      BY <2>1, <2>4 DEF Loads, F, d
  <1> QED
    BY <1>1, <1>2

\* OPENFILE takes the map of the extent's only dirent.
LEMMA OpenIsSafe ==
    ASSUME Careful, NEW f, NEW m \in Machines, Safe(f, m), Searchable(m),
           NEW o, o = internal_OPENFILE(m)
    PROVE  /\ Safe(f, o)
           /\ o.fcb.ext = m.fcb.ext /\ o.fcb.file = m.fcb.file /\ o.dir = m.dir
           /\ \/ Held(o) /\ o.ret = m.ret /\ ~o.fcb.mod
              \/ /\ o.ret = "error" /\ o.fcb = m.fcb
                 /\ \A i \in Dirents : ~Of(o.dir, o.fcb, i)
  <1>1. CASE o = [m EXCEPT !.ret = "error"] /\ \A j \in Dirents : ~Of(m.dir, m.fcb, j)
    BY <1>1, ReturnIsSafe
  <1>2. CASE Loads(m, o)
    <2>1. PICK i \in Dirents :
             /\ Of(m.dir, m.fcb, i) /\ m.dir[i] \in Dirent
             /\ o.dir = m.dir /\ o.data = m.data /\ o.bitmap = m.bitmap /\ o.ret = m.ret
             /\ o.fcb = [m.fcb EXCEPT !.ro = m.dir[i].ro, !.al = m.dir[i].al, !.mod = FALSE,
                                      !.rc = RecordCount(m.dir[i], m.fcb.ext)]
      BY <1>2 DEF Loads
    <2> DEFINE d == m.dir[i]
    <2> HIDE DEF d
    <2>2. /\ o.dir = m.dir /\ o.bitmap = m.bitmap /\ o.ret = m.ret
          /\ o.fcb.file = m.fcb.file /\ o.fcb.ext = m.fcb.ext
          /\ o.fcb.al = d.al /\ o.fcb.mod = FALSE
      BY <2>1 DEF Machines, OpenFcb, d
    <2>3. InUse(m.dir, i) /\ m.dir[i] = d /\ d.file = m.fcb.file
      BY <2>1 DEF Of, d
    <2>4. Unique(m.dir)
      BY DEF Searchable, Sane
    <2>5. \A j \in Dirents : Of(o.dir, o.fcb, j) <=> j = i
      BY <2>1, <2>2, <2>4 DEF Of, Unique
    <2>6. DirSafe(m.dir, m.bitmap)
      BY DEF Safe
    <2>7. Fits(o.dir, o.bitmap, o.fcb)
      BY <2>1, <2>2, <2>3, <2>6 DEF Fits, DirSafe
    <2>8. Held(o)
      <3>1. \A j \in Dirents, s \in Slots :
               InUse(m.dir, j) /\ d.al[s] # 0 /\ m.dir[j].al[s] = d.al[s] => j = i
        BY <2>1, <2>3, <2>6 DEF DirSafe
      <3> QED
        BY <2>1, <2>2, <2>3, <2>5, <3>1 DEF Held, Holds
    <2>9. Others(f, o)
      <3> SUFFICES ASSUME NEW g \in FCBs, g # f, use[g] # "closed"
                   PROVE  Apart(fcb[g], o.fcb)
        BY <2>2 DEF Safe, Others
      <3>1. fcb[g].file # m.fcb.file /\ Fits(m.dir, m.bitmap, fcb[g])
        BY DEF Safe, Others, Apart
      <3> QED
        BY <2>1, <2>2, <2>3, <3>1 DEF Apart, Fits
    <2> QED
      BY <2>2, <2>6, <2>7, <2>8, <2>9 DEF Safe
  <1> QED
    BY <1>1, <1>2, OpenIsExact

\* The machine n is m after a dirent without blocks was added for the FCB's extent.
Adds(m, n) ==
    \E i \in Dirents, d \in Dirent :
        /\ ~InUse(m.dir, i)
        /\ d.file = m.fcb.file /\ d.ext = m.fcb.ext /\ d.rc = m.fcb.rc /\ d.al = NoBlocks
        /\ n.dir = [m.dir EXCEPT ![i] = d]
        /\ n.data = m.data /\ n.bitmap = m.bitmap /\ n.ret = "ok"
        /\ n.fcb = [m.fcb EXCEPT !.al = NoBlocks, !.mod = FALSE]

\* The machine n is m after a CREATEFILE that added nothing.
AddsNothing(m, n) ==
    /\ n.dir = m.dir /\ n.data = m.data /\ n.bitmap = m.bitmap
    /\ n.ret \in {"error", "abort"}
    /\ n.fcb \in {m.fcb, [m.fcb EXCEPT !.al = NoBlocks]}

LEMMA CreateIsExact ==
    ASSUME NEW m \in Machines, Searchable(m), m.ret = "ok",
           NEW n, n = internal_CREATEFILE(m)
    PROVE  \/ AddsNothing(m, n)
           \/ (\A j \in Dirents : ~Of(m.dir, m.fcb, j)) /\ Adds(m, n)
  <1> DEFINE found   == Matches(m, m.fcb.file, m.fcb.ext)
             empty   == {i \in Dirents : ~InUse(m.dir, i)}
             i       == Lowest(empty)
             cleared == [m EXCEPT !.fcb.al = NoBlocks]
             new     == [file |-> m.fcb.file, ro |-> m.fcb.ro, ext |-> m.fcb.ext,
                         rc |-> m.fcb.rc, al |-> NoBlocks]
             u       == update_cdrmax(cleared, i)
             w       == WriteDirent(u, i, new)
             done    == [w EXCEPT !.fcb.mod = FALSE]
  <1>1. /\ cleared \in Machines /\ cleared.dir = m.dir /\ cleared.bitmap = m.bitmap
        /\ cleared.data = m.data /\ cleared.ret = "ok"
        /\ cleared.fcb = [m.fcb EXCEPT !.al = NoBlocks]
    BY NoBlocksType DEF Machines, OpenFcb
  <1>2. ASSUME empty # {} PROVE i \in Dirents /\ ~InUse(m.dir, i)
    <2>1. empty \in SUBSET Nat
      BY DiskAssumption DEF Dirents
    <2>2. i \in empty
      BY <1>2, <2>1, LowestIsFirst
    <2> QED
      BY <2>2
  <1>3. found = {} <=> \A j \in Dirents : ~Of(m.dir, m.fcb, j)
    BY SearchIsExact
  <1> HIDE DEF cleared, i, found
  <1>4. CASE readonly \/ found # {}
    <2>1. n = [m EXCEPT !.ret = "abort"] \/ n = [m EXCEPT !.ret = "error"]
      BY <1>4 DEF internal_CREATEFILE, found
    <2> QED
      BY <2>1 DEF AddsNothing, Machines
  <1>5. CASE ~readonly /\ found = {} /\ empty = {}
    <2>1. n = [cleared EXCEPT !.ret = "error"]
      BY <1>5 DEF internal_CREATEFILE, found, cleared
    <2> QED
      BY <1>1, <2>1 DEF AddsNothing, Machines
  <1>6. CASE ~readonly /\ found = {} /\ empty # {}
    <2>1. n = IF w.ret = "abort" THEN w ELSE done
      BY <1>6 DEF internal_CREATEFILE, found, cleared, i
    <2>2. /\ u \in Machines /\ u.dir = m.dir /\ u.bitmap = m.bitmap /\ u.data = m.data
          /\ u.ret = "ok" /\ u.fcb = cleared.fcb
      BY <1>1, <1>2, <1>6, UpdateCdrmaxType DEF update_cdrmax, Machines
    <2>3. new \in Dirent /\ new.file = m.fcb.file /\ new.ext = m.fcb.ext
          /\ new.rc = m.fcb.rc /\ new.al = NoBlocks
      BY NoBlocksType DEF Machines, OpenFcb, Dirent
    <2> HIDE DEF u, new
    <2>4. CASE u.writes = 0
      <3>1. w = [u EXCEPT !.ret = "abort"]
        BY <2>4 DEF WriteDirent
      <3>2. /\ w.ret = "abort" /\ w.dir = u.dir /\ w.data = u.data /\ w.bitmap = u.bitmap
            /\ w.fcb = u.fcb
        BY <2>2, <3>1 DEF Machines
      <3> HIDE DEF w
      <3> QED
        BY <1>1, <2>1, <2>2, <3>2 DEF AddsNothing
    <2>5. CASE u.writes # 0
      <3>1. /\ w.dir = [u.dir EXCEPT ![i] = new] /\ w.ret = "ok" /\ w.data = u.data
            /\ w.bitmap = u.bitmap /\ w.fcb = u.fcb /\ w \in Machines
        BY <1>2, <1>6, <2>2, <2>3, <2>5, WriteDirentType DEF WriteDirent, Machines
      <3> HIDE DEF w
      <3>2. /\ done.dir = w.dir /\ done.bitmap = w.bitmap /\ done.ret = w.ret
            /\ done.data = w.data /\ done.fcb = [w.fcb EXCEPT !.mod = FALSE]
        BY <3>1 DEF Machines, OpenFcb
      <3> HIDE DEF done
      <3>3. done.fcb = [m.fcb EXCEPT !.al = NoBlocks, !.mod = FALSE]
        BY <1>1, <2>2, <3>1, <3>2 DEF Machines, OpenFcb
      <3>4. n = done /\ i \in Dirents /\ ~InUse(m.dir, i)
        BY <1>2, <1>6, <2>1, <3>1
      <3>5. /\ n.dir = [m.dir EXCEPT ![i] = new] /\ n.data = m.data
            /\ n.bitmap = m.bitmap /\ n.ret = "ok"
            /\ n.fcb = [m.fcb EXCEPT !.al = NoBlocks, !.mod = FALSE]
        BY <2>2, <3>1, <3>2, <3>3, <3>4
      <3>6. Adds(m, n)
        BY <2>3, <3>4, <3>5 DEF Adds
      <3> QED
        BY <1>3, <1>6, <3>6
    <2> QED
      BY <2>4, <2>5
  <1> QED
    BY <1>4, <1>5, <1>6

\* CREATEFILE starts the extent without blocks, whatever the FCB had.
LEMMA CreateIsSafe ==
    ASSUME NEW f, NEW m \in Machines, Safe(f, m), Searchable(m),
           NEW n, n = internal_CREATEFILE(m), m.ret = "ok"
    PROVE  /\ Safe(f, n) /\ n.fcb.ext = m.fcb.ext
           /\ n.ret = "ok" => Held(n)
           /\ n.ret = "error" /\ (\A i \in Dirents : ~Of(m.dir, m.fcb, i)) =>
                 Astray(n.dir, n.fcb)
  <1> DEFINE cleared == [m EXCEPT !.fcb.al = NoBlocks]
  <1>1. /\ cleared.dir = m.dir /\ cleared.bitmap = m.bitmap /\ cleared.fcb.al = NoBlocks
        /\ cleared.fcb.file = m.fcb.file /\ cleared.fcb.ext = m.fcb.ext
        /\ cleared.fcb = [m.fcb EXCEPT !.al = NoBlocks]
    BY NoBlocksType DEF Machines, OpenFcb
  <1> HIDE DEF cleared
  <1>2. Safe(f, cleared)
    <2>1. \A s \in Slots : cleared.fcb.al[s] = 0
      BY <1>1 DEF NoBlocks
    <2>2. Fits(cleared.dir, cleared.bitmap, cleared.fcb)
      BY <2>1 DEF Fits
    <2>3. Others(f, cleared)
      BY <1>1, <2>1 DEF Safe, Others, Apart
    <2> QED
      BY <1>1, <2>2, <2>3 DEF Safe
  <1>3. CASE AddsNothing(m, n)
    <2>1. SameMaps(m, n) \/ SameMaps(cleared, n)
      BY <1>1, <1>3 DEF AddsNothing, SameMaps
    <2>2. Safe(f, n)
      BY <1>2, <2>1, SameMapsAreSafe
    <2>3. n.fcb.file = m.fcb.file /\ n.fcb.ext = m.fcb.ext /\ n.ret # "ok" /\ n.dir = m.dir
      BY <1>1, <1>3 DEF AddsNothing
    <2> QED
      BY <2>2, <2>3 DEF Astray, Of
  <1>4. CASE (\A j \in Dirents : ~Of(m.dir, m.fcb, j)) /\ Adds(m, n)
    <2>1. PICK i \in Dirents, d \in Dirent :
             /\ ~InUse(m.dir, i)
             /\ d.file = m.fcb.file /\ d.ext = m.fcb.ext /\ d.al = NoBlocks
             /\ n.dir = [m.dir EXCEPT ![i] = d] /\ n.bitmap = m.bitmap /\ n.ret = "ok"
             /\ n.fcb = [m.fcb EXCEPT !.al = NoBlocks, !.mod = FALSE]
      BY <1>4 DEF Adds
    <2>2. n.fcb.file = m.fcb.file /\ n.fcb.ext = m.fcb.ext /\ n.fcb.al = NoBlocks
      BY <2>1 DEF Machines, OpenFcb
    <2>3. \A s \in Slots : d.al[s] = 0
      BY <2>1 DEF NoBlocks
    <2>4. /\ InUse(n.dir, i) /\ n.dir[i] = d
          /\ \A j \in Dirents : j # i => n.dir[j] = m.dir[j]
      BY <2>1, FreeIsNoDirent DEF InUse, Machines
    <2>5. /\ DirSafe(m.dir, m.bitmap) => DirSafe(n.dir, m.bitmap)
          /\ \A F : Fits(m.dir, m.bitmap, F) => Fits(n.dir, m.bitmap, F)
          /\ \A F, v : F.file # d.file /\ Placed(m.dir, F, v) => Placed(n.dir, F, v)
      <3>1. ~InUse(m.dir, i)
        BY <2>1
      <3> QED
        BY <2>3, <2>4, <3>1, NewDirentIsSafe
    <2>6. Safe(f, n)
      BY <1>1, <1>2, <2>1, <2>2, <2>5 DEF Safe, Others, Apart, Fits
    <2>7. Held(n)
      <3>1. \A j \in Dirents : Of(n.dir, n.fcb, j) <=> j = i
        BY <1>4, <2>1, <2>2, <2>4 DEF Of, InUse
      <3> QED
        BY <2>1, <2>2, <2>3, <2>4, <3>1 DEF Held, Holds
    <2> QED
      BY <2>1, <2>2, <2>6, <2>7
  <1> QED
    BY <1>3, <1>4, CreateIsExact

LEMMA CreateReturns ==
    ASSUME NEW m \in Machines, Searchable(m), m.ret = "ok"
    PROVE  internal_CREATEFILE(m).ret \in {"ok", "error", "abort"}
  BY CreateIsExact DEF Adds, AddsNothing

-----------------------------------------------------------------------------
(* Moving between extents *)

\* The extent left behind has its map, so nothing the FCB still carries can
\* be written anywhere else.
LEMMA NextExtentIsSafe ==
    ASSUME Careful, NEW f, NEW m \in Machines, Safe(f, m), Searchable(m), Held(m),
           m.ret = "ok", NEW n, n = close_extent_and_move_to_next_one(m)
    PROVE  /\ Safe(f, n)
           /\ n.ret \in {"ok", "error", "abort"}
           /\ n.ret # "abort" => ~n.fcb.mod
           /\ n.ret = "ok" => n.fcb.ext # m.fcb.ext
           /\ n.ret = "error" /\ n.fcb.ext = m.fcb.ext => Held(n)
  <1> DEFINE c == internal_CLOSEFILE(m)
             e == m.fcb.ext
             top == [c EXCEPT !.ret = "error", !.fcb.ext = e - (ExtPerModule - 1)]
             next == [c EXCEPT !.ret = "ok", !.fcb.ext = e + 1,
                               !.fcb.cr = 0, !.fcb.rc = 0]
  <1>1. /\ Safe(f, c) /\ Held(c) /\ c.fcb.ext = e
        /\ c.ret = "abort" \/ ~c.fcb.mod
    <2>1. c = internal_CLOSEFILE(m)
      OBVIOUS
    <2> HIDE DEF c
    <2> QED
      BY <2>1, CloseIsSafe
  <1>2. c \in Machines /\ e \in Nat
    <2>1. e \in Extents
      BY DEF Machines, OpenFcb
    <2>2. Extents \subseteq Nat
      BY DEF Extents
    <2> QED
      BY <2>1, <2>2, CloseType
  <1> HIDE DEF c
  <1>3. n = IF c.ret = "abort" THEN c
            ELSE IF e = ExtPerModule * Modules - 1 THEN top ELSE next
    BY DEF close_extent_and_move_to_next_one, c
  <1>4. /\ SameMaps(c, top) /\ top.ret = "error" /\ top.fcb.mod = c.fcb.mod
        /\ SameMaps(c, next) /\ next.ret = "ok" /\ next.fcb.mod = c.fcb.mod
        /\ next.fcb.ext = e + 1
    <2>1. SameMaps(c, top) /\ top.ret = "error" /\ top.fcb.mod = c.fcb.mod
      <3> HIDE DEF e
      <3> QED
        BY <1>2 DEF SameMaps, Machines, OpenFcb
    <2>2. SameMaps(c, next) /\ next.ret = "ok" /\ next.fcb.mod = c.fcb.mod
          /\ next.fcb.ext = e + 1
      <3> HIDE DEF e
      <3> QED
        BY <1>2 DEF SameMaps, Machines, OpenFcb
    <2> QED
      BY <2>1, <2>2
  <1> HIDE DEF top, next
  <1>5. Safe(f, top) /\ Safe(f, next) /\ (top.fcb.ext = e => Held(top))
    BY <1>1, <1>4, SameMapsAreSafe
  <1> QED
    BY <1>1, <1>2, <1>3, <1>4, <1>5

LEMMA WritingExtentIsSafe ==
    ASSUME Careful, NEW f, NEW m \in Machines, Safe(f, m), Searchable(m), Held(m),
           m.ret = "ok", NEW n, n = next_extent_for_writing(m)
    PROVE  /\ Safe(f, n)
           /\ n.ret \in {"ok", "abort", "diskfull", "dirfull"}
           /\ n.ret = "ok" => Held(n)
           /\ n.ret \in {"diskfull", "dirfull"} => Astray(n.dir, n.fcb)
  <1> DEFINE c == close_extent_and_move_to_next_one(m)
             o == internal_OPENFILE(c)
             p == [o EXCEPT !.ret = "ok"]
             q == internal_CREATEFILE(p)
  <1>1. /\ c \in Machines /\ Searchable(c) /\ Safe(f, c)
        /\ c.ret \in {"ok", "error", "abort"} /\ (c.ret # "abort" => ~c.fcb.mod)
    BY NextExtentType, NextExtentSearchable, NextExtentIsSafe
  <1>2. o \in Machines /\ Searchable(o) /\ Safe(f, o)
        /\ \/ Held(o) /\ o.ret = c.ret
           \/ o.ret = "error" /\ \A i \in Dirents : ~Of(o.dir, o.fcb, i)
    <2> HIDE DEF c
    <2>1. o \in Machines /\ Searchable(o)
      BY <1>1, OpenType, OpenSearchable
    <2>2. o = internal_OPENFILE(c)
      OBVIOUS
    <2> HIDE DEF o
    <2> QED
      BY <1>1, <2>1, <2>2, OpenIsSafe
  <1>3. p \in Machines /\ Searchable(p) /\ Safe(f, p) /\ p.ret = "ok"
        /\ p.fcb = o.fcb /\ p.dir = o.dir
    <2> HIDE DEF o
    <2>1. p \in Machines
      BY <1>2, ReturnType DEF Returns
    <2>2. Searchable(p)
      BY <1>2, ReturnSearchable
    <2>3. Safe(f, p) /\ p.ret = "ok" /\ p.fcb = o.fcb /\ p.dir = o.dir
      BY <1>2, ReturnIsSafe
    <2> QED
      BY <2>1, <2>2, <2>3
  <1>4. /\ q \in Machines /\ Safe(f, q) /\ (q.ret = "ok" => Held(q))
        /\ q.ret = "error" /\ (\A i \in Dirents : ~Of(p.dir, p.fcb, i)) =>
              Astray(q.dir, q.fcb)
        /\ q.ret \in {"ok", "error", "abort"}
    <2> HIDE DEF p
    <2>1. q.ret \in {"ok", "error", "abort"}
      BY <1>3, CreateReturns
    <2>2. q \in Machines /\ q = internal_CREATEFILE(p)
      BY <1>3, CreateType
    <2> HIDE DEF q
    <2> QED
      BY <1>3, <2>1, <2>2, CreateIsSafe
  <1> HIDE DEF c, o, p, q
  <1>5. n = IF c.ret = "abort" THEN c
            ELSE IF c.ret = "error" THEN [c EXCEPT !.ret = "diskfull"]
            ELSE IF o.ret = "ok" THEN o
            ELSE IF q.ret = "error" THEN [q EXCEPT !.ret = "dirfull"] ELSE q
    BY DEF next_extent_for_writing, c, o, p, q
  <1>6. CASE c.ret = "abort"
    BY <1>1, <1>5, <1>6
  <1>7. CASE c.ret = "error"
    <2>1. n = [c EXCEPT !.ret = "diskfull"]
      BY <1>5, <1>7
    <2>2. Safe(f, n) /\ n.ret = "diskfull" /\ n.fcb = c.fcb
      BY <1>1, <2>1, ReturnIsSafe
    <2> QED
      BY <1>1, <1>7, <2>2 DEF Astray
  <1>8. CASE c.ret = "ok" /\ o.ret = "ok"
    BY <1>2, <1>5, <1>8
  <1>9. CASE c.ret = "ok" /\ o.ret # "ok" /\ q.ret = "error"
    <2>1. n = [q EXCEPT !.ret = "dirfull"]
      BY <1>5, <1>9
    <2>2. Safe(f, n) /\ n.ret = "dirfull" /\ n.fcb = q.fcb /\ n.dir = q.dir
      BY <1>4, <2>1, ReturnIsSafe
    <2> QED
      BY <1>2, <1>3, <1>4, <1>9, <2>2
  <1>10. CASE c.ret = "ok" /\ o.ret # "ok" /\ q.ret # "error"
    BY <1>4, <1>5, <1>10
  <1> QED
    BY <1>1, <1>6, <1>7, <1>8, <1>9, <1>10

LEMMA SeekRandomIsSafe ==
    ASSUME Careful, NEW f, NEW m \in Machines, Safe(f, m), Searchable(m), Held(m),
           m.ret = "ok", NEW r \in Records, NEW n, n = seek_to_random_location(m, r)
    PROVE  /\ Safe(f, n)
           /\ n.ret \in {"ok", "abort", "noextent"}
           /\ n.ret = "ok" => Held(n)
           /\ n.ret = "noextent" => Astray(n.dir, n.fcb)
  <1> DEFINE e      == r \div ExtRecs
             placed == [m EXCEPT !.fcb.cr = r % ExtRecs]
             c      == internal_CLOSEFILE(placed)
             moved  == [c EXCEPT !.fcb.ext = e, !.fcb.mod = TRUE]
             o      == internal_OPENFILE(moved)
  <1>1. e \in Extents /\ r % ExtRecs \in Bytes
    BY RecordBounds
  <1>2. placed \in Machines /\ Searchable(placed) /\ placed.ret = "ok"
    BY <1>1 DEF Searchable, Machines, OpenFcb
  <1>3. Safe(f, placed) /\ Held(placed)
    <2>1. SameMaps(m, placed) /\ placed.fcb.ext = m.fcb.ext
      BY DEF SameMaps, Machines, OpenFcb
    <2> HIDE DEF placed
    <2> QED
      BY <2>1, SameMapsAreSafe
  <1>4. c \in Machines /\ Searchable(c) /\ Safe(f, c) /\ c.ret \in {"ok", "abort"}
    <2> HIDE DEF placed
    <2>1. c \in Machines /\ Searchable(c) /\ c = internal_CLOSEFILE(placed)
      BY <1>2, CloseType, CloseSearchable
    <2> HIDE DEF c
    <2> QED
      BY <1>2, <1>3, <2>1, CloseIsSafe
  <1>5. moved \in Machines /\ Searchable(moved) /\ Safe(f, moved) /\ moved.ret = c.ret
    <2> HIDE DEF c, e
    <2>1. moved \in Machines /\ Searchable(moved) /\ moved.ret = c.ret
      BY <1>1, <1>4 DEF Searchable, Machines, OpenFcb
    <2>2. SameMaps(c, moved)
      BY <1>4 DEF SameMaps, Machines, OpenFcb
    <2> HIDE DEF moved
    <2> QED
      BY <1>4, <2>1, <2>2, SameMapsAreSafe
  <1>6. /\ o \in Machines /\ Safe(f, o)
        /\ \/ Held(o) /\ o.ret = c.ret
           \/ o.ret = "error" /\ \A i \in Dirents : ~Of(o.dir, o.fcb, i)
    <2> HIDE DEF moved
    <2>1. o \in Machines /\ o = internal_OPENFILE(moved)
      BY <1>5, OpenType
    <2> HIDE DEF o, c
    <2> QED
      BY <1>5, <2>1, OpenIsSafe
  <1> HIDE DEF placed, c, moved, o
  <1>7. n = IF m.fcb.ext = e THEN placed
            ELSE IF c.ret = "abort" THEN c
            ELSE IF c.ret = "error" THEN [c EXCEPT !.ret = "wild"]
            ELSE IF o.ret = "error" THEN [o EXCEPT !.ret = "noextent"] ELSE o
    BY DEF seek_to_random_location, placed, c, moved, o
  <1> HIDE DEF e
  <1>8. CASE m.fcb.ext = e
    BY <1>2, <1>3, <1>7, <1>8
  <1>9. CASE m.fcb.ext # e /\ c.ret = "abort"
    BY <1>4, <1>7, <1>9
  <1>10. CASE m.fcb.ext # e /\ c.ret = "ok" /\ o.ret = "error"
    <2>1. n = [o EXCEPT !.ret = "noextent"]
      BY <1>7, <1>10
    <2>2. Safe(f, n) /\ n.ret = "noextent" /\ n.fcb = o.fcb /\ n.dir = o.dir
      BY <1>6, <2>1, ReturnIsSafe
    <2> QED
      BY <1>6, <1>10, <2>2 DEF Astray
  <1>11. CASE m.fcb.ext # e /\ c.ret = "ok" /\ o.ret # "error"
    BY <1>6, <1>7, <1>11
  <1> QED
    BY <1>4, <1>8, <1>9, <1>10, <1>11

-----------------------------------------------------------------------------
(* Blocks and records *)

\* A block is taken only for an empty slot, and only if the bitmap has it free.
LEMMA SeekBlockIsSafe ==
    ASSUME NEW f, NEW m \in Machines, Safe(f, m), Held(m), m.ret = "ok", NEW filled,
           NEW n, n = seek_to_block_and_create(m, filled)
    PROVE  /\ Safe(f, n) /\ Held(n)
           /\ n.ret \in {"ok", "abort"} /\ n.fcb.ext = m.fcb.ext
  <1> DEFINE b == Lowest(Unallocated(m))
             p == get_fcb_block_index(m.fcb)
             a == [m EXCEPT !.bitmap = @ \cup {b}, !.fcb.mod = TRUE, !.fcb.al[p] = b]
             w == Wipe(a, b)
  <1>1. CASE get_fcb_block(m) # 0
    BY <1>1 DEF seek_to_block_and_create
  <1>2. CASE get_fcb_block(m) = 0 /\ Unallocated(m) = {}
    <2>1. n = [m EXCEPT !.ret = "abort"]
      BY <1>2 DEF seek_to_block_and_create
    <2> QED
      BY <2>1, ReturnIsSafe
  <1>3. CASE get_fcb_block(m) = 0 /\ Unallocated(m) # {}
    <2>1. b \in Blocks /\ b \notin m.bitmap
      <3>1. Unallocated(m) \in SUBSET Nat
        BY DEF Unallocated, Blocks
      <3>2. b \in Unallocated(m)
        BY <1>3, <3>1, LowestIsFirst
      <3> QED
        BY <3>2 DEF Unallocated
    <2>2. b # 0
      BY <2>1, DiskAssumption DEF Safe, DirSafe, DirArea
    <2> HIDE DEF b
    <2>3. p \in Slots => m.fcb.al[p] = 0
      BY <1>3 DEF get_fcb_block
    <2> HIDE DEF p
    <2>4. a \in Machines
      <3>1. m.bitmap \cup {b} \in SUBSET Blocks
        BY <2>1 DEF Machines
      <3>2. [m.fcb.al EXCEPT ![p] = b] \in [Slots -> Blocks]
        BY <2>1 DEF Machines, OpenFcb
      <3> QED
        BY <3>1, <3>2 DEF Machines, OpenFcb
    <2>5. /\ a.dir = m.dir /\ a.bitmap = m.bitmap \cup {b} /\ a.ret = "ok"
          /\ a.fcb.file = m.fcb.file /\ a.fcb.ext = m.fcb.ext
          /\ a.fcb.al = [m.fcb.al EXCEPT ![p] = b]
      BY DEF Machines, OpenFcb
    <2> HIDE DEF a
    <2>6. Takes(m.fcb, a.fcb, p, b)
      BY <2>3, <2>5 DEF Machines, OpenFcb, Takes
    <2>7. Safe(f, a) /\ Held(a)
      <3>1. DirSafe(m.dir, m.bitmap) /\ Fits(m.dir, m.bitmap, m.fcb) /\ Holds(m.dir, m.fcb)
        BY DEF Safe, Held
      <3>2. /\ DirSafe(m.dir, m.bitmap \cup {b}) /\ Fits(m.dir, m.bitmap \cup {b}, a.fcb)
            /\ Holds(m.dir, a.fcb)
            /\ \A H : Fits(m.dir, m.bitmap, H) => Fits(m.dir, m.bitmap \cup {b}, H)
            /\ \A H : Fits(m.dir, m.bitmap, H) /\ Apart(H, m.fcb) => Apart(H, a.fcb)
        BY <2>1, <2>2, <2>6, <3>1, AllocatedIsSafe
      <3> QED
        BY <2>5, <3>2 DEF Safe, Others, Held
    <2>8. /\ w.dir = a.dir /\ w.bitmap = a.bitmap /\ w.fcb = a.fcb
          /\ w.ret \in {"ok", "abort"}
      BY <2>4, <2>5 DEF Wipe, Machines
    <2> HIDE DEF w
    <2>9. SameMaps(a, w)
      BY <2>8 DEF SameMaps
    <2>10. Safe(f, w) /\ Held(w)
      BY <2>7, <2>8, <2>9, SameMapsAreSafe
    <2>11. n = IF filled THEN w ELSE a
      BY <1>3 DEF seek_to_block_and_create, w, a, b, p
    <2> QED
      BY <2>5, <2>7, <2>8, <2>10, <2>11
  <1> QED
    BY <1>1, <1>2, <1>3

\* Moving a record and counting it touch no map.
LEMMA RecordsAreSafe ==
    ASSUME NEW f, NEW m \in Machines, Safe(f, m), NEW n, NEW v \in Values,
           \/ n = ReadRecord(m) \/ n = WriteRecord(m, v) \/ n = CountRecord(m)
    PROVE  /\ Safe(f, n) /\ (Held(m) => Held(n))
           /\ n.ret = m.ret \/ n.ret = "abort"
           /\ n.fcb.ext = m.fcb.ext
  <1>1. SameMaps(m, n) /\ n.fcb.ext = m.fcb.ext /\ (n.ret = m.ret \/ n.ret = "abort")
    <2>1. CASE n = ReadRecord(m)
      BY <2>1 DEF ReadRecord, SameMaps, Machines, OpenFcb
    <2>2. CASE n = WriteRecord(m, v)
      BY <2>2 DEF WriteRecord, SameMaps, Machines, OpenFcb
    <2>3. CASE n = CountRecord(m)
      BY <2>3 DEF CountRecord, SameMaps, Machines, OpenFcb
    <2> QED
      BY <2>1, <2>2, <2>3
  <1> QED
    BY <1>1, SameMapsAreSafe

LEMMA AdvanceIsSafe ==
    ASSUME NEW f, NEW m \in Machines, Safe(f, m), NEW k
    PROVE  LET n == [m EXCEPT !.fcb.cr = k]
           IN /\ Safe(f, n) /\ (Held(m) => Held(n)) /\ n.ret = m.ret
              /\ n.fcb.ext = m.fcb.ext
  <1> DEFINE n == [m EXCEPT !.fcb.cr = k]
  <1>1. SameMaps(m, n) /\ n.fcb.ext = m.fcb.ext /\ n.ret = m.ret
    BY DEF SameMaps, Machines, OpenFcb
  <1> HIDE DEF n
  <1>2. Safe(f, n) /\ (Held(m) => Held(n)) /\ n.ret = m.ret /\ n.fcb.ext = m.fcb.ext
    BY <1>1, SameMapsAreSafe
  <1> QED
    BY <1>2 DEF n

-----------------------------------------------------------------------------
(* The calls on records *)

\* What a call on an FCB with extent e in hand leaves of it, as After sorts it.
Sorted(e, n) ==
    IF n.ret = "ok" \/ n.ret = "nodata" \/ (n.ret = "eof" /\ n.fcb.ext = e)
    THEN Held(n) ELSE Astray(n.dir, n.fcb)

LEMMA ReadSequentialIsSafe ==
    ASSUME Careful, NEW f, NEW m \in Machines, Safe(f, m), Searchable(m), Held(m),
           m.ret = "ok", NEW n, n = READSEQUENTIAL(m)
    PROVE  Safe(f, n) /\ (n.ret # "abort" => Sorted(m.fcb.ext, n))
  <1> DEFINE c     == close_extent_and_move_to_next_one(m)
             o     == IF c.ret = "ok" THEN internal_OPENFILE(c) ELSE c
             moved == IF m.fcb.cr = m.fcb.rc THEN o ELSE m
             eof   == [moved EXCEPT !.ret = "eof"]
             read  == [ReadRecord(moved) EXCEPT !.fcb.cr = CountedCr(moved)]
  <1>1. /\ c \in Machines /\ Searchable(c) /\ Safe(f, c)
        /\ c.ret \in {"ok", "error", "abort"} /\ (c.ret # "abort" => ~c.fcb.mod)
        /\ (c.ret = "ok" => c.fcb.ext # m.fcb.ext)
        /\ (c.ret = "error" /\ c.fcb.ext = m.fcb.ext => Held(c))
    BY NextExtentType, NextExtentSearchable, NextExtentIsSafe
  <1> HIDE DEF c
  <1>2. /\ moved \in Machines /\ Safe(f, moved)
        /\ moved.ret \in {"ok", "error", "abort"}
        /\ moved.ret = "ok" => Held(moved)
        /\ moved.ret # "abort" =>
              \/ moved.fcb.ext = m.fcb.ext /\ Held(moved)
              \/ moved.fcb.ext # m.fcb.ext /\ Astray(moved.dir, moved.fcb)
    <2>1. CASE m.fcb.cr # m.fcb.rc
      BY <2>1
    <2>2. CASE m.fcb.cr = m.fcb.rc /\ c.ret # "ok"
      BY <1>1, <2>2 DEF Astray
    <2>3. CASE m.fcb.cr = m.fcb.rc /\ c.ret = "ok"
      <3>1. moved \in Machines /\ moved = internal_OPENFILE(c)
        BY <1>1, <2>3, OpenType
      <3> HIDE DEF moved
      <3>2. /\ Safe(f, moved) /\ moved.fcb.ext = c.fcb.ext
            /\ \/ Held(moved) /\ moved.ret = c.ret /\ ~moved.fcb.mod
               \/ /\ moved.ret = "error"
                  /\ \A i \in Dirents : ~Of(moved.dir, moved.fcb, i)
        BY <1>1, <3>1, OpenIsSafe
      <3> QED
        BY <1>1, <2>3, <3>1, <3>2 DEF Astray
    <2> QED
      BY <2>1, <2>2, <2>3
  <1> HIDE DEF moved
  <1>3. /\ Safe(f, eof) /\ eof.ret = "eof" /\ eof.fcb = moved.fcb /\ eof.dir = moved.dir
        /\ (Held(moved) => Held(eof))
    BY <1>2, ReturnIsSafe
  <1>4. moved.ret = "ok" => Safe(f, read) /\ read.ret \in {"ok", "abort"} /\ Held(read)
    <2> DEFINE r == ReadRecord(moved)
    <2>1. Zero \in Values /\ r = ReadRecord(moved) /\ r \in Machines
      BY <1>2, ProgramAssumption, ReadRecordType
    <2> HIDE DEF r
    <2>2. Safe(f, r) /\ (Held(moved) => Held(r)) /\ (r.ret = moved.ret \/ r.ret = "abort")
      BY <1>2, <2>1, RecordsAreSafe
    <2>3. read = [r EXCEPT !.fcb.cr = CountedCr(moved)]
      BY <2>1
    <2> HIDE DEF read
    <2> QED
      BY <1>2, <2>1, <2>2, <2>3, AdvanceIsSafe, ZenonT(60)
  <1> HIDE DEF eof, read
  <1>5. CASE m.fcb.cr = m.fcb.rc /\ m.fcb.rc # ExtRecs
    <2>1. n = [m EXCEPT !.ret = "eof"]
      BY <1>5 DEF READSEQUENTIAL
    <2>2. Safe(f, n) /\ n.ret = "eof" /\ n.fcb = m.fcb /\ Held(n)
      BY <2>1, ReturnIsSafe
    <2> QED
      BY <2>2 DEF Sorted
  <1>6. CASE ~(m.fcb.cr = m.fcb.rc /\ m.fcb.rc # ExtRecs)
    <2>1. n = IF moved.ret = "abort" THEN moved
              ELSE IF moved.ret = "error" \/ get_fcb_block(moved) = 0 THEN eof ELSE read
      BY <1>6 DEF READSEQUENTIAL, moved, c, eof, read
    <2> QED
      BY <1>2, <1>3, <1>4, <2>1 DEF Sorted, Astray
  <1> QED
    BY <1>5, <1>6

LEMMA WriteSequentialIsSafe ==
    ASSUME Careful, NEW f, NEW m \in Machines, Safe(f, m), Searchable(m), Held(m),
           m.ret = "ok", NEW v \in Values, NEW n, n = WRITESEQUENTIAL(m, v)
    PROVE  Safe(f, n) /\ (n.ret # "abort" => Sorted(m.fcb.ext, n))
  <1> DEFINE e == IF m.fcb.cr = ExtRecs THEN next_extent_for_writing(m) ELSE m
             s == seek_to_block_and_create(e, FALSE)
             w == WriteRecord(s, v)
             k == CountRecord(w)
             x == [k EXCEPT !.fcb.cr = CountedCr(w)]
  <1>1. /\ e \in Machines /\ Safe(f, e) /\ (e.ret = "ok" => Held(e))
        /\ e.ret \in {"ok", "abort", "diskfull", "dirfull"}
        /\ (e.ret \in {"diskfull", "dirfull"} => Astray(e.dir, e.fcb))
    <2>1. CASE m.fcb.cr = ExtRecs
      <3>1. e = next_extent_for_writing(m) /\ e \in Machines
        BY <2>1, WritingExtentType
      <3> HIDE DEF e
      <3> QED
        BY <3>1, WritingExtentIsSafe
    <2>2. CASE m.fcb.cr # ExtRecs
      BY <2>2
    <2> QED
      BY <2>1, <2>2
  <1> HIDE DEF e
  <1>2. s \in Machines /\ s = seek_to_block_and_create(e, FALSE)
    BY <1>1, SeekBlockType
  <1> HIDE DEF s
  <1>3. e.ret = "ok" => Safe(f, s) /\ Held(s) /\ s.ret \in {"ok", "abort"}
    BY <1>1, <1>2, SeekBlockIsSafe
  <1>4. w \in Machines /\ w = WriteRecord(s, v)
    BY <1>2, WriteRecordType
  <1> HIDE DEF w
  <1>5. e.ret = "ok" /\ s.ret = "ok" =>
           Safe(f, w) /\ Held(w) /\ w.ret \in {"ok", "abort"}
    BY <1>2, <1>3, <1>4, RecordsAreSafe, ZenonT(60)
  <1>6. k \in Machines /\ k = CountRecord(w)
    BY <1>4, CountRecordType
  <1> HIDE DEF k
  <1>7. e.ret = "ok" /\ s.ret = "ok" /\ w.ret = "ok" =>
           Safe(f, k) /\ Held(k) /\ k.ret \in {"ok", "abort"}
    BY <1>4, <1>5, <1>6, RecordsAreSafe
  <1>8. Safe(f, k) => Safe(f, x) /\ (Held(k) => Held(x)) /\ x.ret = k.ret
    BY <1>6, AdvanceIsSafe, ZenonT(60)
  <1> HIDE DEF x
  <1>9. n = IF m.fcb.ro \/ readonly THEN [m EXCEPT !.ret = "abort"]
            ELSE IF e.ret # "ok" THEN e
            ELSE IF s.ret # "ok" THEN s
            ELSE IF w.ret # "ok" THEN w ELSE x
    BY DEF WRITESEQUENTIAL, e, s, w, k, x
  <1>10. CASE m.fcb.ro \/ readonly
    BY <1>9, <1>10, ReturnIsSafe
  <1>11. CASE ~(m.fcb.ro \/ readonly)
    BY <1>1, <1>3, <1>5, <1>7, <1>8, <1>9, <1>11 DEF Sorted
  <1> QED
    BY <1>10, <1>11

LEMMA RandomIsSafe ==
    ASSUME Careful, NEW f, NEW m \in Machines, Safe(f, m), Searchable(m), Held(m),
           m.ret = "ok", NEW r \in Records, NEW v \in Values, NEW filled, NEW n,
           n = READRANDOM(m, r) \/ n = WRITERANDOM(m, r, v, filled)
    PROVE  Safe(f, n) /\ (n.ret # "abort" => Sorted(m.fcb.ext, n))
  <1> DEFINE s == seek_to_random_location(m, r)
             k == CountRecord(s)
             b == seek_to_block_and_create(k, filled)
             w == WriteRecord(b, v)
             q == ReadRecord(s)
  <1>1. s \in Machines /\ s = seek_to_random_location(m, r)
    BY SeekRandomType
  <1> HIDE DEF s
  <1>2. /\ Safe(f, s) /\ s.ret \in {"ok", "abort", "noextent"}
        /\ (s.ret = "ok" => Held(s)) /\ (s.ret = "noextent" => Astray(s.dir, s.fcb))
    BY <1>1, SeekRandomIsSafe
  <1>3. k \in Machines /\ k = CountRecord(s) /\ q = ReadRecord(s)
    BY <1>1, CountRecordType
  <1> HIDE DEF k, q
  <1>4. /\ Safe(f, k) /\ (Held(s) => Held(k)) /\ (k.ret = s.ret \/ k.ret = "abort")
        /\ Safe(f, q) /\ (Held(s) => Held(q)) /\ (q.ret = s.ret \/ q.ret = "abort")
    BY <1>1, <1>2, <1>3, RecordsAreSafe
  <1>5. b \in Machines /\ b = seek_to_block_and_create(k, filled)
    BY <1>3, SeekBlockType
  <1> HIDE DEF b
  <1>6. Held(s) /\ k.ret = "ok" => Safe(f, b) /\ Held(b) /\ b.ret \in {"ok", "abort"}
    BY <1>3, <1>4, <1>5, SeekBlockIsSafe
  <1>7. w = WriteRecord(b, v)
    OBVIOUS
  <1> HIDE DEF w
  <1>8. Held(s) /\ k.ret = "ok" /\ b.ret = "ok" =>
           Safe(f, w) /\ Held(w) /\ w.ret \in {"ok", "abort"}
    BY <1>5, <1>6, <1>7, RecordsAreSafe
  <1>9. s.ret = "ok" => k.ret = "ok"
    BY <1>1, <1>3 DEF CountRecord, Machines
  <1>10. CASE n = READRANDOM(m, r)
    <2>1. n = IF s.ret # "ok" THEN s
              ELSE IF s.fcb.cr >= s.fcb.rc \/ get_fcb_block(s) = 0
              THEN [s EXCEPT !.ret = "nodata"] ELSE q
      BY <1>10 DEF READRANDOM, s, q
    <2>2. CASE n = [s EXCEPT !.ret = "nodata"] /\ s.ret = "ok"
      BY <1>1, <1>2, <2>2, ReturnIsSafe DEF Sorted
    <2> QED
      BY <1>2, <1>4, <2>1, <2>2 DEF Sorted
  <1>11. CASE n = WRITERANDOM(m, r, v, filled)
    <2>1. n = IF m.fcb.ro \/ readonly THEN [m EXCEPT !.ret = "abort"]
              ELSE IF s.ret # "ok" THEN s
              ELSE IF b.ret # "ok" THEN b ELSE w
      BY <1>11 DEF WRITERANDOM, s, k, b, w
    <2>2. CASE m.fcb.ro \/ readonly
      BY <2>1, <2>2, ReturnIsSafe
    <2>3. CASE ~(m.fcb.ro \/ readonly)
      BY <1>2, <1>6, <1>8, <1>9, <2>1, <2>3 DEF Sorted
    <2> QED
      BY <2>2, <2>3
  <1> QED
    BY <1>10, <1>11

-----------------------------------------------------------------------------
(* The steps of the specification *)

\* Taking no dirent into use and leaving maps as they are.
LEMMA FewerIsDirSafe ==
    ASSUME NEW old, NEW d, NEW B, DirSafe(old, B),
           \A h \in Dirents : InUse(d, h) => InUse(old, h) /\ d[h].al = old[h].al
    PROVE  DirSafe(d, B)
  BY DEF DirSafe

\* A login marks what the directory points to.
LEMMA WarmBootIsSafe ==
    ASSUME NEW d, NEW contents, NEW B, WarmBoot(d, contents), DirSafe(d, B)
    PROVE  BlockInv'
  <1>1. dir' = d /\ bitmap' = LoginBitmap(d) /\ \A f \in FCBs : use'[f] = "closed"
    BY DEF WarmBoot
  <1>2. DirArea \subseteq LoginBitmap(d)
    BY DEF LoginBitmap, DirArea
  <1>3. \A i \in Dirents, s \in Slots : InUse(d, i) /\ d[i].al[s] # 0 =>
           d[i].al[s] \in LoginBitmap(d)
    BY DEF LoginBitmap, BlocksOf
  <1>4. DirSafe(d, LoginBitmap(d))
    BY <1>2, <1>3 DEF DirSafe
  <1> QED
    BY <1>1, <1>4 DEF BlockInv

LEMMA ReturnKeepsBlocks ==
    ASSUME TypeInv, BlockInv, NEW f \in FCBs, NEW m, NEW u, Return(f, m, u),
           Safe(f, m), m.ret # "abort" /\ u # "closed" => Placed(m.dir, m.fcb, u)
    PROVE  BlockInv'
  <1>1. CASE m.ret = "abort"
    BY <1>1, WarmBootIsSafe DEF Return, Safe
  <1>2. CASE m.ret # "abort"
    <2>1. /\ dir' = m.dir /\ bitmap' = m.bitmap
          /\ fcb' = [fcb EXCEPT ![f] = IF u = "closed" THEN UnusedFcb ELSE m.fcb]
          /\ use' = [use EXCEPT ![f] = u]
      BY <1>2 DEF Return
    <2>2. \A g \in FCBs : IF g = f THEN use'[g] = u /\ (u # "closed" => fcb'[g] = m.fcb)
                          ELSE use'[g] = use[g] /\ fcb'[g] = fcb[g]
      BY <2>1 DEF TypeInv, TypeOK
    <2>3. \A F, G : Apart(F, G) => Apart(G, F)
      BY DEF Apart
    <2>4. ASSUME NEW g \in FCBs, use'[g] # "closed"
          PROVE  Fits(dir', bitmap', fcb'[g]) /\ Placed(dir', fcb'[g], use'[g])
      BY <1>2, <2>1, <2>2, <2>4 DEF Safe, Others
    <2>5. ASSUME NEW g \in FCBs, NEW h \in FCBs, g # h, use'[g] # "closed", use'[h] # "closed"
          PROVE  Apart(fcb'[g], fcb'[h])
      BY <2>2, <2>3, <2>5 DEF Safe, Others, BlockInv
    <2>6. DirSafe(dir', bitmap')
      BY <2>1 DEF Safe
    <2> QED
      BY <2>4, <2>5, <2>6 DEF BlockInv
  <1> QED
    BY <1>1, <1>2

\* The machine of a call on an FCB in hand, and of a first call.
LEMMA MachineIsSafe ==
    ASSUME BlockInv, NEW f \in FCBs, use[f] # "closed", NEW k, NEW j
    PROVE  LET m == Machine(f, k, j)
           IN Safe(f, m) /\ Placed(m.dir, m.fcb, use[f]) /\ m.ret = "ok" /\ m.fcb = fcb[f]
  <1> DEFINE m == Machine(f, k, j)
  <1>1. m.dir = dir /\ m.bitmap = bitmap /\ m.fcb = fcb[f] /\ m.ret = "ok"
    BY DEF Machine
  <1> HIDE DEF m
  <1>2. Safe(f, m) /\ Placed(m.dir, m.fcb, use[f])
    BY <1>1 DEF Safe, Others, BlockInv
  <1> QED
    BY <1>1, <1>2 DEF m

LEMMA FreshMachineIsSafe ==
    ASSUME Careful, BlockInv, NEW f \in FCBs, NEW n \in Files, use[f] = "closed",
           Untouched(n), NEW k, NEW j
    PROVE  LET m == [Machine(f, k, j) EXCEPT !.fcb = FreshFcb(n)]
           IN Safe(f, m) /\ m.ret = "ok"
  <1> DEFINE m == [Machine(f, k, j) EXCEPT !.fcb = FreshFcb(n)]
  <1>1. m.dir = dir /\ m.bitmap = bitmap /\ m.fcb = FreshFcb(n) /\ m.ret = "ok"
    BY DEF Machine
  <1> HIDE DEF m
  <1>2. FreshFcb(n).file = n /\ \A s \in Slots : FreshFcb(n).al[s] = 0
    BY DEF FreshFcb, UnusedFcb, NoBlocks
  <1>3. \A g \in FCBs : use[g] # "closed" => fcb[g].file # n
    BY DEF Untouched, InHand
  <1>4. Fits(dir, bitmap, FreshFcb(n))
    BY <1>2 DEF Fits
  <1>5. \A g \in FCBs : use[g] # "closed" => Apart(fcb[g], FreshFcb(n))
    BY <1>2, <1>3 DEF Apart
  <1>6. Safe(f, m)
    BY <1>1, <1>4, <1>5 DEF Safe, Others, BlockInv
  <1> QED
    BY <1>1, <1>6 DEF m

LEMMA FirstCallsKeepBlocks ==
    ASSUME Careful, TypeInv, Sane(dir, cdrmax), BlockInv, NEW f \in FCBs, NEW n \in Files,
           bdos_OPENFILE(f, n) \/ bdos_CREATEFILE(f, n)
    PROVE  BlockInv'
  <1> DEFINE m(k) == [Machine(f, k, 0) EXCEPT !.fcb = FreshFcb(n)]
  <1>1. use[f] = "closed" /\ Untouched(n)
    BY DEF bdos_OPENFILE, bdos_CREATEFILE
  <1>2. ASSUME NEW k \in Nat
        PROVE  m(k) \in Machines /\ Searchable(m(k)) /\ Safe(f, m(k)) /\ m(k).ret = "ok"
    BY <1>1, MachineType, MachineSearchable, FreshMachineIsSafe, ZeroIsABlock
  <1> HIDE DEF m
  <1>3. CASE bdos_OPENFILE(f, n)
    <2> DEFINE o == internal_OPENFILE(m(0))
    <2>1. Return(f, o, IF o.ret = "ok" THEN "open" ELSE "closed")
      BY <1>3 DEF bdos_OPENFILE, m
    <2>2. o = internal_OPENFILE(m(0))
      OBVIOUS
    <2> HIDE DEF o
    <2>3. Safe(f, o) /\ (o.ret = "ok" => Held(o))
      BY <1>2, <2>2, OpenIsSafe
    <2> QED
      BY <2>1, <2>3, ReturnKeepsBlocks DEF Placed, Held
  <1>4. CASE bdos_CREATEFILE(f, n)
    <2> DEFINE c(k) == internal_CREATEFILE(m(k))
    <2>1. PICK k \in WriteBudgets : Return(f, c(k), IF c(k).ret = "ok" THEN "made" ELSE "closed")
      BY <1>4 DEF bdos_CREATEFILE, m
    <2>2. PICK p : p = c(k)
      OBVIOUS
    <2>3. p = internal_CREATEFILE(m(k)) /\ k \in Nat
      BY <2>2, BudgetType
    <2>4. Return(f, p, IF p.ret = "ok" THEN "made" ELSE "closed")
      BY <2>1, <2>2
    <2>5. Safe(f, p) /\ (p.ret = "ok" => Held(p))
      BY <1>2, <2>3, CreateIsSafe
    <2> QED
      BY <2>4, <2>5, ReturnKeepsBlocks DEF Placed, Held
  <1> QED
    BY <1>3, <1>4

LEMMA LastCallsKeepBlocks ==
    ASSUME Careful, TypeInv, Sane(dir, cdrmax), BlockInv, NEW f \in FCBs,
           bdos_CLOSEFILE(f) \/ Abandon(f)
    PROVE  BlockInv'
  <1>1. CASE bdos_CLOSEFILE(f)
    <2>1. PICK k \in WriteBudgets :
            Return(f, internal_CLOSEFILE(Machine(f, k, 0)), "closed")
      BY <1>1 DEF bdos_CLOSEFILE
    <2>2. use[f] # "closed" /\ k \in Nat
      BY <1>1, BudgetType DEF bdos_CLOSEFILE
    <2> DEFINE m == Machine(f, k, 0)
    <2>3. m \in Machines /\ Searchable(m) /\ Safe(f, m) /\ Placed(m.dir, m.fcb, use[f])
      BY <2>2, MachineType, MachineSearchable, MachineIsSafe, ZeroIsABlock
    <2> HIDE DEF m
    <2>4. PICK c : c = internal_CLOSEFILE(m)
      OBVIOUS
    <2>5. Safe(f, c)
      <3>1. Held(m) \/ Astray(m.dir, m.fcb)
        BY <2>3 DEF Placed, Held
      <3> QED
        BY <2>3, <2>4, <3>1, CloseIsSafe, CloseAstrayIsSafe
    <2>6. Return(f, c, "closed")
      BY <2>1, <2>4 DEF m
    <2> QED
      BY <2>5, <2>6, ReturnKeepsBlocks
  <1>2. CASE Abandon(f)
    <2>1. \A g \in FCBs : use'[g] # "closed" => g # f /\ use'[g] = use[g] /\ fcb'[g] = fcb[g]
      BY <1>2 DEF Abandon, TypeInv, TypeOK
    <2>2. dir' = dir /\ bitmap' = bitmap
      BY <1>2 DEF Abandon
    <2> QED
      BY <2>1, <2>2 DEF BlockInv
  <1> QED
    BY <1>1, <1>2

\* A call on a record, given what it leaves on the machine.
LEMMA RecordCallKeepsBlocks ==
    ASSUME TypeInv, BlockInv, NEW f \in FCBs, use[f] \in {"open", "made"},
           NEW n, Safe(f, n), n.ret # "abort" => Sorted(fcb[f].ext, n),
           NEW call, NEW r, NEW v, RecordCall(call, f, r, n, v)
    PROVE  BlockInv'
  <1>1. Return(f, n, After(f, n))
    BY DEF RecordCall
  <1>2. n.ret # "abort" => Placed(n.dir, n.fcb, After(f, n))
    BY DEF After, Sorted, Placed, Held
  <1> QED
    BY <1>1, <1>2, ReturnKeepsBlocks

LEMMA RecordCallsKeepBlocks ==
    ASSUME Careful, StopAtError, TypeInv, Sane(dir, cdrmax), BlockInv, NEW f \in FCBs,
           NEW r, NEW v \in Values,
           \/ bdos_READSEQUENTIAL(f) \/ bdos_WRITESEQUENTIAL(f, v)
           \/ /\ r \in Records
              /\ \/ bdos_READRANDOM(f, r)
                 \/ bdos_WRITERANDOM(f, r, v) \/ bdos_WRITERANDOMFILLED(f, r, v)
    PROVE  BlockInv'
  <1>1. use[f] \in {"open", "made"}
    BY DEF bdos_READSEQUENTIAL, bdos_WRITESEQUENTIAL, bdos_READRANDOM, bdos_WRITERANDOM,
           bdos_WRITERANDOMFILLED, Writable, Usable
  <1> DEFINE m(k, j) == Machine(f, k, j)
  <1>2. ASSUME NEW k \in WriteBudgets, NEW j \in Blocks
        PROVE  /\ m(k, j) \in Machines /\ Searchable(m(k, j)) /\ Safe(f, m(k, j))
               /\ Held(m(k, j)) /\ m(k, j).ret = "ok" /\ m(k, j).fcb = fcb[f]
    BY <1>1, BudgetType, MachineType, MachineSearchable, MachineIsSafe DEF Placed, Held
  <1>3. PICK k, j, n, call, q, w :
           /\ k \in WriteBudgets /\ j \in Blocks
           /\ RecordCall(call, f, q, n, w)
           /\ \/ n = READSEQUENTIAL(m(k, j)) \/ n = WRITESEQUENTIAL(m(k, j), v)
              \/ /\ r \in Records
                 /\ \/ n = READRANDOM(m(k, j), r)
                    \/ n = WRITERANDOM(m(k, j), r, v, FALSE)
                    \/ n = WRITERANDOM(m(k, j), r, v, TRUE)
    <2>1. CASE bdos_READSEQUENTIAL(f)
      BY <2>1, BeyondType DEF bdos_READSEQUENTIAL
    <2>2. CASE bdos_WRITESEQUENTIAL(f, v)
      BY <2>2, ZeroIsABlock DEF bdos_WRITESEQUENTIAL
    <2>3. CASE r \in Records /\ bdos_READRANDOM(f, r)
      BY <2>3, ZeroIsABlock DEF bdos_READRANDOM
    <2>4. CASE r \in Records /\ bdos_WRITERANDOM(f, r, v)
      BY <2>4, ZeroIsABlock DEF bdos_WRITERANDOM
    <2>5. CASE r \in Records /\ bdos_WRITERANDOMFILLED(f, r, v)
      BY <2>5, ZeroIsABlock DEF bdos_WRITERANDOMFILLED
    <2> QED
      BY <2>1, <2>2, <2>3, <2>4, <2>5
  <1>4. /\ m(k, j) \in Machines /\ Searchable(m(k, j)) /\ Safe(f, m(k, j))
        /\ Held(m(k, j)) /\ m(k, j).ret = "ok" /\ m(k, j).fcb = fcb[f]
    BY <1>2, <1>3
  <1> HIDE DEF m
  <1>5. Safe(f, n) /\ (n.ret # "abort" => Sorted(fcb[f].ext, n))
    BY <1>3, <1>4, ReadSequentialIsSafe, WriteSequentialIsSafe, RandomIsSafe
  <1> QED
    BY <1>1, <1>3, <1>5, RecordCallKeepsBlocks

\* What calls that rewrite the dirents of a name leave of the FCBs of others:
\* the dirents of n are freed, given the name to, or keep theirs.
LEMMA RenamedIsPlaced ==
    ASSUME NEW d, NEW e, NEW B, NEW n, NEW to, NEW F, NEW u,
           \A i \in Dirents :
               \/ e[i] = d[i]
               \/ /\ InUse(d, i) /\ d[i].file = n
                  /\ InUse(e, i) => e[i].al = d[i].al /\ e[i].file \in {n, to},
           F.file # n, F.file # to
    PROVE  /\ Fits(d, B, F) => Fits(e, B, F)
           /\ Placed(d, F, u) => Placed(e, F, u)
  <1>1. \A i \in Dirents : Of(d, F, i) <=> Of(e, F, i)
    BY DEF Of, InUse
  <1>2. \A i \in Dirents : Of(d, F, i) => e[i] = d[i]
    BY DEF Of
  <1>3. Fits(d, B, F) => Fits(e, B, F)
    BY DEF Fits, InUse
  <1>4. Holds(d, F) => Holds(e, F)
    <2>1. \A i \in Dirents, s \in Slots : InUse(e, i) /\ e[i].al[s] = F.al[s] =>
             InUse(d, i) /\ d[i].al[s] = F.al[s]
      BY DEF InUse
    <2> QED
      BY <1>1, <1>2, <2>1 DEF Holds
  <1>5. Astray(d, F) => Astray(e, F)
    BY <1>1 DEF Astray
  <1> QED
    BY <1>3, <1>4, <1>5 DEF Placed

\* However far the rewriting gets: either it ends in a warm boot on a
\* directory with fewer dirents or other names, or all of it is done.
LEMMA RewriteKeepsBlocks ==
    ASSUME Careful, BlockInv, NEW n, NEW to, Untouched(n), Untouched(to),
           NEW found, found = NameMatches(n), NEW k, NEW refused, NEW freed, NEW d,
           \A i \in Dirents :
               IF i \in found
               THEN InUse(d, i) => d[i].al = dir[i].al /\ d[i].file \in {n, to}
               ELSE d[i] = dir[i],
           freed = {} \/ (freed = UNION {BlocksOf(dir[i].al) : i \in found}
                            /\ \A i \in found : ~InUse(d, i)),
           Rewrite(found, k, refused, d, freed)
    PROVE  BlockInv'
  <1> DEFINE written == IF refused THEN {} ELSE First(found, k)
             half == [i \in Dirents |-> IF i \in written THEN d[i] ELSE dir[i]]
  <1>1. /\ found \subseteq Dirents
        /\ \A i \in found : InUse(dir, i) /\ dir[i].file = n
    BY DEF NameMatches
  <1>2. DirSafe(dir, bitmap)
    BY DEF BlockInv
  <1>3. CASE refused \/ written # found
    <2>1. WarmBoot(half, data)
      BY <1>3 DEF Rewrite
    <2>2. written \subseteq found
      BY DEF First
    <2>3. \A h \in Dirents : InUse(half, h) => InUse(dir, h) /\ half[h].al = dir[h].al
      <3> HIDE DEF written
      <3> QED
        BY <1>1, <2>2 DEF InUse
    <2> HIDE DEF half
    <2>4. DirSafe(half, bitmap)
      BY <1>2, <2>3, FewerIsDirSafe
    <2> QED
      BY <2>1, <2>4, WarmBootIsSafe
  <1>4. CASE ~(refused \/ written # found)
    <2>1. dir' = d /\ bitmap' = bitmap \ freed /\ fcb' = fcb /\ use' = use
      BY <1>4 DEF Rewrite
    <2>2. \A i \in Dirents : InUse(d, i) => InUse(dir, i) /\ d[i].al = dir[i].al
      BY <1>1 DEF InUse
    <2>3. DirSafe(d, bitmap)
      BY <1>2, <2>2, FewerIsDirSafe
    <2>4. freed # {} => \A b \in freed : b # 0 /\ \E i \in found, s \in Slots : b = dir[i].al[s]
      BY DEF BlocksOf
    <2>5. freed \cap DirArea = {}
      BY <1>1, <1>2, <2>4 DEF DirSafe
    <2>6. \A i \in Dirents, s \in Slots : InUse(d, i) => d[i].al[s] \notin freed
      <3> SUFFICES ASSUME NEW i \in Dirents, NEW s \in Slots, InUse(d, i), d[i].al[s] \in freed
                   PROVE  FALSE
        OBVIOUS
      <3>1. PICK j \in found, t \in Slots : d[i].al[s] = dir[j].al[t] /\ d[i].al[s] # 0
        BY <2>4
      <3>2. i \notin found
        OBVIOUS
      <3> QED
        BY <1>1, <1>2, <2>2, <3>1, <3>2 DEF DirSafe
    <2>7. DirSafe(d, bitmap \ freed)
      BY <2>3, <2>5, <2>6 DEF DirSafe
    <2>8. ASSUME NEW f \in FCBs, use[f] # "closed"
          PROVE  Fits(d, bitmap \ freed, fcb[f]) /\ Placed(d, fcb[f], use[f])
      <3>1. fcb[f].file # n /\ fcb[f].file # to
        BY <2>8 DEF Untouched, InHand
      <3>2. Fits(dir, bitmap, fcb[f]) /\ Placed(dir, fcb[f], use[f])
        BY <2>8 DEF BlockInv
      <3>3. \A i \in Dirents :
               \/ d[i] = dir[i]
               \/ /\ InUse(dir, i) /\ dir[i].file = n
                  /\ InUse(d, i) => d[i].al = dir[i].al /\ d[i].file \in {n, to}
        BY <1>1
      <3>4. Fits(d, bitmap, fcb[f]) /\ Placed(d, fcb[f], use[f])
        BY <3>1, <3>2, <3>3, RenamedIsPlaced
      <3>5. \A s \in Slots : fcb[f].al[s] # 0 => fcb[f].al[s] \notin freed
        BY <1>1, <2>4, <3>1, <3>2 DEF Fits
      <3> QED
        BY <3>4, <3>5 DEF Fits
    <2> QED
      BY <2>1, <2>7, <2>8 DEF BlockInv
  <1> QED
    BY <1>3, <1>4

LEMMA NameCallsKeepBlocks ==
    ASSUME Careful, TypeInv, BlockInv, NameCall
    PROVE  BlockInv'
  <1>1. \A n : \A i \in NameMatches(n) : i \in Dirents /\ dir[i] \in Dirent /\ dir[i].file = n
    BY DEF NameMatches, InUse, TypeInv, TypeOK
  <1>2. ASSUME NEW n \in Files, bdos_DELETEFILE(n) PROVE BlockInv'
    <2> DEFINE found == NameMatches(n)
               d == [i \in Dirents |-> IF i \in found THEN Free ELSE dir[i]]
               freed == UNION {BlocksOf(dir[i].al) : i \in found}
    <2>1. PICK k \in WriteBudgets : Rewrite(found, k, Refused(found), d, freed)
      BY <1>2 DEF bdos_DELETEFILE
    <2>2. \A i \in Dirents : IF i \in found THEN ~InUse(d, i) ELSE d[i] = dir[i]
      BY DEF InUse
    <2>3. Untouched(n)
      BY <1>2 DEF bdos_DELETEFILE
    <2>4. found \subseteq Dirents /\ found = NameMatches(n)
          /\ freed = UNION {BlocksOf(dir[i].al) : i \in found}
      BY <1>1
    <2> HIDE DEF d, found, freed
    <2> QED
      BY <2>1, <2>2, <2>3, <2>4, RewriteKeepsBlocks
  <1>3. ASSUME NEW n \in Files, NEW to \in Files, bdos_RENAMEFILE(n, to) PROVE BlockInv'
    <2> DEFINE found == NameMatches(n)
               d == [i \in Dirents |-> IF i \in found
                       THEN [dir[i] EXCEPT !.file = to, !.ro = FALSE] ELSE dir[i]]
    <2>1. PICK k \in WriteBudgets : Rewrite(found, k, Refused(found), d, {})
      BY <1>3 DEF bdos_RENAMEFILE
    <2>2. \A i \in Dirents : IF i \in found THEN d[i].al = dir[i].al /\ d[i].file = to
                             ELSE d[i] = dir[i]
      <3>1. \A i \in Dirents : d[i] = IF i \in found
                       THEN [dir[i] EXCEPT !.file = to, !.ro = FALSE] ELSE dir[i]
        OBVIOUS
      <3> HIDE DEF d, found
      <3>2. \A i \in found : dir[i] \in Dirent
        BY <1>1 DEF found
      <3> QED
        BY <3>1, <3>2 DEF Dirent
    <2>3. Untouched(n) /\ Untouched(to) /\ found = NameMatches(n)
      BY <1>3 DEF bdos_RENAMEFILE
    <2> HIDE DEF d, found
    <2> QED
      BY <2>1, <2>2, <2>3, RewriteKeepsBlocks
  <1>4. ASSUME NEW n \in Files, NEW ro \in BOOLEAN, bdos_SETFILEATTRS(n, ro) PROVE BlockInv'
    <2> DEFINE found == NameMatches(n)
               d == [i \in Dirents |-> IF i \in found THEN [dir[i] EXCEPT !.ro = ro] ELSE dir[i]]
               refused == FALSE
    <2>1. PICK k \in WriteBudgets : Rewrite(found, k, refused, d, {})
      BY <1>4 DEF bdos_SETFILEATTRS
    <2>2. \A i \in Dirents : IF i \in found THEN d[i].al = dir[i].al /\ d[i].file = n
                             ELSE d[i] = dir[i]
      <3>1. \A i \in Dirents : d[i] = IF i \in found THEN [dir[i] EXCEPT !.ro = ro] ELSE dir[i]
        OBVIOUS
      <3> HIDE DEF d, found
      <3>2. \A i \in found : dir[i] \in Dirent /\ dir[i].file = n
        BY <1>1 DEF found
      <3> QED
        BY <3>1, <3>2 DEF Dirent
    <2>3. Untouched(n) /\ found = NameMatches(n)
      BY <1>4 DEF bdos_SETFILEATTRS
    <2> HIDE DEF d, found, refused
    <2> QED
      BY <2>1, <2>2, <2>3, RewriteKeepsBlocks
  <1>5. ASSUME NEW n \in Files, bdos_COMPUTEFILESIZE(n) PROVE BlockInv'
    BY <1>5 DEF bdos_COMPUTEFILESIZE, BlockInv
  <1> QED
    BY <1>2, <1>3, <1>4, <1>5 DEF NameCall

LEMMA DriveCallsKeepBlocks ==
    ASSUME BlockInv, DriveCall
    PROVE  BlockInv'
  <1>1. CASE bdos_SETDRIVEREADONLY
    BY <1>1 DEF bdos_SETDRIVEREADONLY, BlockInv
  <1>2. CASE bdos_RESETDISK
    BY <1>2 DEF bdos_RESETDISK, BlockInv
  <1>3. CASE bdos_EXIT
    BY <1>3, WarmBootIsSafe DEF bdos_EXIT, BlockInv
  <1> QED
    BY <1>1, <1>2, <1>3 DEF DriveCall

LEMMA BlockInvariant ==
    ASSUME Careful, StopAtError
    PROVE  Spec => [](TypeInv /\ Sane(dir, cdrmax) /\ BlockInv)
  <1>1. Init => BlockInv
    BY DEF Init, BlockInv, DirSafe, DirArea, InUse
  <1>2. ASSUME TypeInv, Sane(dir, cdrmax), BlockInv, [Next]_vars PROVE BlockInv'
    <2>1. ASSUME NEW f \in FCBs, FileCall(f) PROVE BlockInv'
      <3>1. Zero \in Values
        BY ProgramAssumption
      <3> QED
        BY <1>2, <2>1, <3>1, FirstCallsKeepBlocks, LastCallsKeepBlocks,
           RecordCallsKeepBlocks DEF FileCall
    <2>2. CASE UNCHANGED vars
      BY <1>2, <2>2 DEF vars, BlockInv
    <2> QED
      BY <1>2, <2>1, <2>2, NameCallsKeepBlocks, DriveCallsKeepBlocks DEF Next
  <1>3. BlockInv /\ (TypeInv /\ Sane(dir, cdrmax)) /\ [Next]_vars => BlockInv'
    BY <1>2
  <1> QED
    BY <1>1, <1>3, SaneInvariant, PTL DEF Spec

\* A block is never in two places of the directory, and no file is given a
\* block of the directory's own: allocate_unused_block and CLOSEFILE's merge
\* hand no block out twice, whichever write fails and wherever a DELETEFILE or
\* RENAMEFILE stops.
THEOREM NoBlockIsSharedOnDisk == ASSUME Careful, StopAtError PROVE Spec => []NoCrossLink
  <1>1. TypeInv /\ DirSafe(dir, bitmap) => NoCrossLink
    <2> SUFFICES ASSUME TypeInv, DirSafe(dir, bitmap),
                        NEW i \in Dirents, NEW j \in Dirents, NEW s \in Slots, NEW t \in Slots,
                        InUse(dir, i), InUse(dir, j), dir[i].al[s] # 0
                 PROVE  /\ dir[i].al[s] >= DirBlocks
                        /\ dir[i].al[s] = dir[j].al[t] => i = j /\ s = t
      BY DEF NoCrossLink
    <2>1. dir[i].al[s] \in Blocks
      BY DEF TypeInv, TypeOK, InUse, Dirent
    <2>2. dir[i].al[s] \notin 0..DirBlocks - 1
      BY DEF DirSafe, DirArea
    <2>3. dir[i].al[s] >= DirBlocks
      BY <2>1, <2>2, DiskAssumption DEF Blocks
    <2> QED
      BY <2>3 DEF DirSafe
  <1>2. TypeInv /\ BlockInv => NoCrossLink
    BY <1>1 DEF BlockInv
  <1> QED
    BY <1>2, BlockInvariant, PTL

\* The bitmap the BDOS allocates from has every block a dirent or an FCB in a
\* program's hands points to: DELETEFILE frees none that is still somebody's,
\* and the login scan of a warm boot misses none.
THEOREM NoBlockInUseIsFree == ASSUME Careful, StopAtError PROVE Spec => []BitmapCovers
  <1>1. BlockInv => BitmapCovers
    <2>1. \A al : BlocksOf(al) = {al[s] : s \in Slots} \ {0}
      BY DEF BlocksOf
    <2> QED
      BY <2>1 DEF BlockInv, DirSafe, DirArea, Fits, BitmapCovers
  <1> QED
    BY <1>1, BlockInvariant, PTL

\* An FCB whose calls all succeeded writes into no block of another file, of
\* another extent, or of another FCB: OPENFILE, CLOSEFILE's merge and the seeks
\* between extents keep each map with the extent it belongs to.
THEOREM NoBlockIsSharedInHand == ASSUME Careful, StopAtError PROVE Spec => []MapsAreDisjoint
  <1>1. BlockInv => MapsAreDisjoint
    <2> SUFFICES ASSUME BlockInv, NEW f \in FCBs, NEW s \in Slots, Sound(f), fcb[f].al[s] # 0
                 PROVE  /\ \A i \in Dirents, t \in Slots :
                              InUse(dir, i) /\ dir[i].al[t] = fcb[f].al[s] =>
                                  /\ dir[i].file = fcb[f].file /\ s = t
                                  /\ Group(dir[i].ext) = Group(fcb[f].ext)
                        /\ \A g \in FCBs, t \in Slots :
                              Sound(g) /\ fcb[g].al[t] = fcb[f].al[s] => f = g /\ s = t
      BY DEF MapsAreDisjoint
    <2>1. Fits(dir, bitmap, fcb[f]) /\ Holds(dir, fcb[f])
      BY DEF BlockInv, Sound, Placed
    <2>2. \A g \in FCBs, t \in Slots :
             Sound(g) /\ fcb[g].al[t] = fcb[f].al[s] => f = g
      BY DEF BlockInv, Sound, Apart
    <2> QED
      BY <2>1, <2>2 DEF Fits, Holds, Of
  <1> QED
    BY <1>1, BlockInvariant, PTL
=============================================================================
