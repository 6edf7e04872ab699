------------------------ MODULE FilesystemRefinement ------------------------
(***************************************************************************)
(* Filesystem implements FileStore: the records of a file are those that a *)
(* search of the directory reaches through the maps of its dirents, except *)
(* in the extent an FCB has in hand, whose map and record count are the    *)
(* FCB's until CLOSEFILE writes them back.                                 *)
(***************************************************************************)
EXTENDS Filesystem

CONSTANTS None, Absent

\* No record and no file holds the marks for those that are not there.
ASSUME StoreAssumption ==
    None \notin Values /\ Absent \notin [Records -> Values \cup {None}]

\* What a map and a record count let a reader see at record c of an extent.
Seen(map, e, c, count) ==
    LET b == map[get_fcb_block_index([ext |-> e, cr |-> c])]
    IN IF c < count /\ b # 0 THEN data[b][c % BlockRecs] ELSE None

Holders(n, e) ==
    {f \in FCBs : (Sound(f) \/ use[f] = "stopped") /\ fcb[f].file = n /\ fcb[f].ext = e}

Record(n, r) ==
    LET e == r \div ExtRecs
        c == r % ExtRecs
        here == {i \in Dirents : /\ InUse(dir, i) /\ dir[i].file = n
                                 /\ Group(dir[i].ext) = Group(e)}
        d == dir[Lowest(here)]
        F == fcb[CHOOSE f \in Holders(n, e) : TRUE]
    IN IF here = {} THEN None
       ELSE IF Holders(n, e) # {} THEN Seen(F.al, e, c, F.rc)
       ELSE Seen(d.al, e, c, RecordCount(d, e))

Contents(n) == IF Exists(n) THEN [r \in Records |-> Record(n, r)] ELSE Absent

Store == INSTANCE FileStore WITH
    store  <- [n \in Files |-> Contents(n)],
    inHand <- {n \in Files : InHand(n)}

\* Programs that keep to one FCB per file and stop at the first error read
\* back what they wrote, and no call or failure on one file touches another.
ImplementsFileStore == Store!Spec
=============================================================================
