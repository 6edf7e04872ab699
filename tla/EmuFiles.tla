------------------------------ MODULE EmuFiles ------------------------------
(***************************************************************************)
(* The file calls of cpmemu, which runs CP/M-65 programs over the files of *)
(* the host: tools/cpmemu/fileio.c and the calls of biosbdos.c that use    *)
(* it.                                                                     *)
(*                                                                         *)
(* A CP/M program may leave files open, so the emulator keeps descriptors  *)
(* by file name in NumFiles slots, on a list with the slot used last in    *)
(* front; a slot whose name is not the one asked for is taken from the     *)
(* end.  The list is kept by its links, as the program keeps it.  A host   *)
(* file is an inode: a directory entry refers to one, and so does a        *)
(* descriptor, whatever becomes of the entry.                              *)
(***************************************************************************)
EXTENDS Integers, Sequences, FiniteSets, FiniteSetsExt

CONSTANTS
    NumFiles,       \* slots
    Names,          \* file names on the drive that is mapped
    ReadOnly,       \* the names the host lets nobody write
    Elsewhere,      \* a file name on a drive that is not mapped
    Blank,          \* the name of a slot in nobody's use
    FCBs,
    Values, Zero,   \* contents of a record; that of a hole
    ExtRecs,        \* records in an extent (128)
    MaxRecs,        \* bound: records in a file
    Garbage,        \* record counts that fstat of no descriptor leaves behind
    Programs,       \* those that run, each the set of the calls it makes; with
                    \* "tidy" in the set it uses a single FCB per file, MAKEs
                    \* only files that are not there, and CLOSEs what it
                    \* opened before it DELETEs or RENAMEs
    Absent          \* no entry, no descriptor, no slot, no search

ASSUME Bounds ==
    /\ NumFiles \in Nat \ {0} /\ ExtRecs \in Nat \ {0} /\ MaxRecs \in Nat
    /\ IsFiniteSet(Names) /\ Garbage \subseteq Nat /\ IsFiniteSet(Garbage)
    /\ Zero \in Values /\ ReadOnly \subseteq Names
    /\ {Elsewhere, Blank} \cap Names = {} /\ Elsewhere # Blank

Slots == 1 .. NumFiles
AllNames == Names \cup {Elsewhere}
Inodes == 1 .. Cardinality(Names) + NumFiles

ASSUME AbsentIsNothing == Absent \notin Slots \cup Inodes /\ Absent \notin Seq(Values)

VARIABLES
    first, prev, nxt,           \* the list of slots
    filename, fd, flags,        \* of each slot
    entry,                      \* the directory: the inode of each name
    data,                       \* the records of each inode
    program,
    disk,                       \* current_disk: is it a drive that is mapped?
    fcb,                        \* the FCBs in hand; Blank names are not
    search,                     \* names the directory stream has yet to give
    answer                      \* the call made last

cache == <<first, prev, nxt, filename, fd, flags>>
vars == <<cache, entry, data, program, disk, fcb, search, answer>>

\* Everything a routine of fileio.c changes.
Here == [first |-> first, prev |-> prev, nxt |-> nxt, filename |-> filename, fd |-> fd,
         flags |-> flags, entry |-> entry, data |-> data]

\* The host forgets an inode that no entry and no descriptor refers to.
Referred(h) == {h.entry[n] : n \in Names} \cup {h.fd[f] : f \in Slots}
Kept(h) == [i \in Inodes |-> IF i \in Referred(h) THEN h.data[i] ELSE <<>>]

Becomes(h) ==
    /\ first' = h.first /\ prev' = h.prev /\ nxt' = h.nxt
    /\ filename' = h.filename /\ fd' = h.fd /\ flags' = h.flags
    /\ entry' = h.entry /\ data' = Kept(h)

-----------------------------------------------------------------------------
(* fileio.c *)

\* Mutant of bump: the slot is not taken out of the list first.
OnlyInserts(h, f) ==
    IF f = h.first THEN h
    ELSE [h EXCEPT !.prev = [@ EXCEPT ![h.first] = f, ![f] = Absent],
                   !.nxt[f] = h.first, !.first = f]

bump(h, f) ==
    IF f = h.first THEN h
    ELSE LET p == h.prev[f]
             n == h.nxt[f]
             next == IF p = Absent THEN h.nxt ELSE [h.nxt EXCEPT ![p] = n]
             back == IF n = Absent THEN h.prev ELSE [h.prev EXCEPT ![n] = p]
         IN  [h EXCEPT !.prev = [back EXCEPT ![h.first] = f, ![f] = Absent],
                       !.nxt = [next EXCEPT ![f] = h.first],
                       !.first = f]

\* The slots in the order of the list.
Order(h) ==
    LET at[i \in Slots] == IF i = 1 THEN h.first
                           ELSE IF at[i - 1] = Absent THEN Absent ELSE h.nxt[at[i - 1]]
    IN  at

Place(h, f) == CHOOSE i \in Slots : Order(h)[i] = f

\* Mutant of find_file: a slot without a descriptor is no slot of the name.
FindsOpenOnly(h, n) ==
    LET hits == {f \in Slots : h.filename[f] = n /\ h.fd[f] # Absent}
        last == CHOOSE f \in Slots : h.nxt[f] = Absent
    IN  IF hits # {} THEN [h |-> h, f |-> CHOOSE f \in hits : TRUE]
        ELSE [h |-> [bump(h, last) EXCEPT !.fd[last] = Absent, !.filename[last] = n, !.flags[last] = "ro"],
              f |-> last]

\* The slot of a name, the last one on the list if there is none.
find_file(h, n) ==
    LET hits == {f \in Slots : h.filename[f] = n}
        hit == CHOOSE f \in hits : \A g \in hits : Place(h, f) <= Place(h, g)
        last == CHOOSE f \in Slots : h.nxt[f] = Absent
    IN  IF hits # {} THEN [h |-> h, f |-> hit]
        ELSE [h |-> [bump(h, last) EXCEPT !.fd[last] = Absent,
                                          !.filename[last] = n,
                                          !.flags[last] = "ro"],
              f |-> last]

Unused(h) == Min(Inodes \ Referred(h))

\* Mutant of reopen: a descriptor that is there is good for anything.
NeverReopens(h, f, mode) ==
    IF h.fd[f] # Absent \/ h.filename[f] \notin Names THEN h
    ELSE LET n == h.filename[f]
             i == IF h.entry[n] # Absent \/ mode # "create" THEN h.entry[n] ELSE Unused(h)
         IN  [h EXCEPT !.flags[f] = IF mode = "ro" THEN mode ELSE "rw", !.fd[f] = i,
                       !.entry[n] = i, !.data = IF i = h.entry[n] THEN @ ELSE [@ EXCEPT ![i] = <<>>]]

\* mode is "ro", "rw" or "create" (O_RDWR | O_CREAT, which is not O_RDWR).
reopen(h, f, mode) ==
    LET n == h.filename[f]
        wanted == h.fd[f] = Absent \/ (h.flags[f] = "ro" /\ mode = "rw")
        creates == h.entry[n] = Absent /\ mode = "create"
        refused == mode # "ro" /\ n \in ReadOnly
        i == IF creates THEN Unused(h) ELSE h.entry[n]
    IN  IF ~wanted \/ n \notin Names THEN h
        ELSE [h EXCEPT !.flags[f] = IF mode = "ro" THEN mode ELSE "rw",
                       !.fd[f] = IF refused THEN Absent ELSE i,
                       !.entry[n] = IF creates /\ ~refused THEN i ELSE @,
                       !.data = IF creates /\ ~refused THEN [@ EXCEPT ![i] = <<>>] ELSE @]

file_open(h, n) ==
    LET s == find_file(h, n) IN [s EXCEPT !.h = reopen(s.h, s.f, "ro")]

file_create(h, n) ==
    LET s == find_file(h, n) IN [s EXCEPT !.h = reopen(s.h, s.f, "create")]

\* The records of the file behind a descriptor; none behind none.
Contents(h, f) == IF h.fd[f] = Absent THEN <<>> ELSE h.data[h.fd[f]]

\* g is what the uninitialised struct holds when there is no descriptor.
file_getrecordcount(h, f, g) ==
    LET k == reopen(h, f, "ro")
    IN  [h |-> k, n |-> IF k.fd[f] = Absent THEN g ELSE Len(Contents(k, f))]

Resized(s, n) == [i \in 1 .. n |-> IF i <= Len(s) THEN s[i] ELSE Zero]

file_setrecordcount(h, f, n, g) ==
    LET c == file_getrecordcount(h, f, g)
        k == reopen(c.h, f, "rw")
    IN  IF c.n = n THEN c.h
        ELSE IF k.fd[f] = Absent THEN k
        ELSE [k EXCEPT !.data[k.fd[f]] = Resized(@, n)]

file_close(h, n) ==
    LET s == find_file(h, n)
    IN  [s.h EXCEPT !.filename[s.f] = Blank, !.fd[s.f] = Absent, !.flags[s.f] = "ro"]

\* What pread and pwrite at record r give back: "error" is -1, "eof" is 0.
file_read(h, f, r) ==
    LET k == bump(reopen(h, f, "ro"), f)
    IN  [h |-> k,
         ret |-> IF k.fd[f] = Absent THEN "error" ELSE IF r < Len(Contents(k, f)) THEN "ok" ELSE "eof",
         val |-> IF r < Len(Contents(k, f)) THEN Contents(k, f)[r + 1] ELSE Zero]

file_write(h, f, r, v) ==
    LET k == bump(reopen(h, f, "rw"), f)
        writable == k.fd[f] # Absent /\ k.flags[f] = "rw"
        longer == Resized(Contents(k, f), Max({Len(Contents(k, f)), r + 1}))
    IN  [h |-> IF writable THEN [k EXCEPT !.data[k.fd[f]] = [longer EXCEPT ![r + 1] = v]] ELSE k,
         ret |-> IF writable THEN "ok" ELSE "error",
         val |-> v]

-----------------------------------------------------------------------------
(* biosbdos.c *)

Unopened == [name |-> Blank, extent |-> 0, rc |-> 0, cr |-> 0]

files_init ==
    /\ first = 1
    /\ prev = [f \in Slots |-> IF f = 1 THEN Absent ELSE f - 1]
    /\ nxt = [f \in Slots |-> IF f = NumFiles THEN Absent ELSE f + 1]
    /\ filename = [f \in Slots |-> Blank]
    /\ fd = [f \in Slots |-> Absent]
    /\ flags = [f \in Slots |-> "ro"]

Init ==
    /\ files_init
    /\ entry = [n \in Names |-> Absent] /\ data = [i \in Inodes |-> <<>>]
    /\ program \in Programs /\ disk = TRUE
    /\ fcb = [F \in FCBs |-> Unopened]
    /\ search = Absent
    /\ answer = [call |-> "SELECT", name |-> Blank, ret |-> "", rec |-> 0, val |-> Zero]

Answers(call, n, ret, r, v) ==
    answer' = [call |-> call, name |-> n, ret |-> ret, rec |-> r, val |-> v]

\* fcb_at: a name without a drive is on the current one, from now on.
On(n) == IF disk THEN n ELSE Elsewhere

get_current_record(F) == fcb[F].extent * ExtRecs + fcb[F].cr

\* Mutant of set_current_record: the record is not taken within its extent.
KeepsRecord(n, r, total) ==
    [name |-> n, extent |-> r \div ExtRecs, rc |-> total % ExtRecs, cr |-> r]

set_current_record(n, r, total) ==
    LET e == r \div ExtRecs
    IN  [name |-> n, extent |-> e, cr |-> r % ExtRecs,
         rc |-> IF e < total \div ExtRecs THEN ExtRecs ELSE total % ExtRecs]

InHand(n) == \E F \in FCBs : fcb[F].name = n
Tidily(P) == "tidy" \in program => P

\* What may be counted of a file that is not there; only then does it matter.
Counts(n) == IF n \in Names /\ entry[n] # Absent THEN {0} ELSE Garbage

bdos_selectdisk ==
    /\ "SELECT" \in program
    /\ disk' = ~disk
    /\ Answers("SELECT", Blank, "", 0, Zero)
    /\ UNCHANGED <<cache, entry, data, program, fcb, search>>

\* Whether there is such a file or not.
bdos_openfile(F, n) == \E g \in Counts(On(n)) :
    LET s == file_open(Here, On(n))
        c == file_getrecordcount(s.h, s.f, g)
    IN  /\ "OPEN" \in program
        /\ Tidily(fcb[F].name = Blank /\ ~InHand(On(n)))
        /\ Becomes(c.h)
        /\ fcb' = [fcb EXCEPT ![F] = set_current_record(On(n), 0, c.n)]
        /\ Answers("OPEN", On(n), "ok", 0, Zero)
        /\ UNCHANGED <<program, disk, search>>

bdos_makefile(F, n) ==
    LET s == file_create(Here, On(n))
        made == s.h.fd[s.f] # Absent
    IN  /\ "MAKE" \in program
        /\ Tidily(fcb[F].name = Blank /\ ~InHand(On(n)) /\ (disk => entry[n] = Absent))
        /\ Becomes(s.h)
        /\ fcb' = [fcb EXCEPT ![F] = IF made THEN set_current_record(On(n), 0, 0) ELSE Unopened]
        /\ Answers("MAKE", On(n), IF made THEN "ok" ELSE "error", 0, Zero)
        /\ UNCHANGED <<program, disk, search>>

\* A file of one extent is cut to the count in its FCB.
bdos_closefile(F) == \E g \in Counts(fcb[F].name) :
    LET n == fcb[F].name
        s == file_open(Here, n)
        c == file_getrecordcount(s.h, s.f, g)
        cut == IF c.n < ExtRecs THEN file_setrecordcount(c.h, s.f, fcb[F].rc, g) ELSE c.h
    IN  /\ "CLOSE" \in program
        /\ n # Blank
        /\ Becomes(file_close(cut, n))
        /\ fcb' = [fcb EXCEPT ![F] = Unopened]
        /\ Answers("CLOSE", n, "ok", 0, Zero)
        /\ UNCHANGED <<program, disk, search>>

\* The file behind an FCB is found, readwrite does its work at record r and the
\* FCB moves to record next, whatever came of it.
ReadWrite(F, call, r, next, v) == \E g \in Counts(fcb[F].name) :
    LET n == fcb[F].name
        s == file_open(Here, n)
        did == IF call = "READ" THEN file_read(s.h, s.f, r) ELSE file_write(s.h, s.f, r, v)
        c == file_getrecordcount(did.h, s.f, g)
    IN  /\ n # Blank
        /\ Becomes(c.h)
        /\ fcb' = [fcb EXCEPT ![F] = set_current_record(n, next, c.n)]
        /\ Answers(call, n, did.ret, r, did.val)
        /\ UNCHANGED <<program, disk, search>>

\* Bounds: no file grows beyond MaxRecs, and a reader stops after the record
\* beyond that.
bdos_readwritesequential(F, call, v) ==
    LET here == get_current_record(F)
    IN  /\ call \in program
        /\ here < IF call = "READ" THEN MaxRecs + 1 ELSE MaxRecs
        /\ ReadWrite(F, call, here, here + 1, v)

bdos_readwriterandom(F, call, r, v) ==
    /\ "RANDOM" \in program
    /\ r < IF call = "READ" THEN MaxRecs + 1 ELSE MaxRecs
    /\ ReadWrite(F, call, r, r, v)

bdos_filelength(F) == \E g \in Counts(fcb[F].name) :
    LET s == file_open(Here, fcb[F].name)
        c == file_getrecordcount(s.h, s.f, g)
    IN  /\ "SIZE" \in program
        /\ fcb[F].name # Blank
        /\ Becomes(c.h)
        /\ Answers("SIZE", fcb[F].name, "ok", c.n, Zero)
        /\ UNCHANGED <<program, disk, fcb, search>>

\* The names of a pattern that are there; none on a drive that is not mapped.
Matches(s) == IF disk THEN {n \in s : entry[n] # Absent} ELSE {}

bdos_deletefile(s) ==
    LET gone == Matches(s)
    IN  /\ "DELETE" \in program
        /\ Tidily(\A n \in gone : ~InHand(n))
        /\ Becomes([Here EXCEPT !.entry = [n \in Names |-> IF n \in gone THEN Absent ELSE entry[n]]])
        /\ answer' = [call |-> "DELETE", name |-> IF disk THEN s ELSE {},
                      ret |-> IF gone # {} THEN "ok" ELSE "error", rec |-> 0, val |-> Zero]
        /\ UNCHANGED <<program, disk, fcb, search>>

bdos_renamefile(n, to) ==
    LET there == disk /\ entry[n] # Absent
    IN  /\ "RENAME" \in program
        /\ Tidily(~InHand(n) /\ ~InHand(to))
        /\ Becomes(IF there THEN [Here EXCEPT !.entry = [@ EXCEPT ![n] = Absent, ![to] = entry[n]]] ELSE Here)
        /\ Answers("RENAME", On(n), IF there THEN "ok" ELSE "error", 0, Zero)
        /\ UNCHANGED <<program, disk, fcb, search>>

\* The stream gives the names it read when it was opened, but for those that
\* have gone since.
FindNext(names) ==
    LET there == {n \in names : entry[n] # Absent}
    IN  /\ "FIND" \in program
        /\ \/ there = {} /\ search' = Absent /\ Answers("FIND", Blank, "error", 0, Zero)
           \/ \E n \in there, past \in SUBSET (names \ there) :
                /\ search' = names \ ({n} \cup past)
                /\ Answers("FIND", n, "ok", 0, Zero)
        /\ UNCHANGED <<cache, entry, data, program, disk, fcb>>

bdos_findfirst(s) == FindNext(Matches(s))
bdos_findnext == FindNext(IF search = Absent THEN {} ELSE search)

Patterns == {Names} \cup {{n} : n \in Names}

Next ==
    \/ bdos_selectdisk
    \/ bdos_findnext
    \/ \E s \in Patterns : bdos_findfirst(s) \/ bdos_deletefile(s)
    \/ \E n \in Names, to \in Names : bdos_renamefile(n, to)
    \/ \E F \in FCBs :
        \/ bdos_closefile(F) \/ bdos_filelength(F)
        \/ \E n \in Names : bdos_openfile(F, n) \/ bdos_makefile(F, n)
        \/ bdos_readwritesequential(F, "READ", Zero)
        \/ \E r \in 0 .. MaxRecs : bdos_readwriterandom(F, "READ", r, Zero)
        \/ \E v \in Values :
            \/ bdos_readwritesequential(F, "WRITE", v)
            \/ \E r \in 0 .. MaxRecs : bdos_readwriterandom(F, "WRITE", r, v)

Spec == Init /\ [][Next]_vars

-----------------------------------------------------------------------------

TypeOK ==
    /\ first \in Slots
    /\ prev \in [Slots -> Slots \cup {Absent}] /\ nxt \in [Slots -> Slots \cup {Absent}]
    /\ filename \in [Slots -> AllNames \cup {Blank}]
    /\ fd \in [Slots -> Inodes \cup {Absent}] /\ flags \in [Slots -> {"ro", "rw"}]
    /\ entry \in [Names -> Inodes \cup {Absent}]
    /\ \A i \in Inodes : data[i] \in Seq(Values) /\ Len(data[i]) <= Max({MaxRecs} \cup Garbage)
    /\ fcb \in [FCBs -> [name : AllNames \cup {Blank}, extent : Nat, rc : 0 .. ExtRecs, cr : 0 .. ExtRecs - 1]]
    /\ search \in {Absent} \cup SUBSET Names

\* bump() keeps the slots on one list, front to back by nxt and back to front by
\* prev, none lost: a slot that dropped out would never be found or reused.
SlotsOnOneList ==
    /\ {Order(Here)[i] : i \in Slots} = Slots
    /\ \A i \in Slots : prev[Order(Here)[i]] = IF i = 1 THEN Absent ELSE Order(Here)[i - 1]
    /\ nxt[Order(Here)[NumFiles]] = Absent

\* A name has one slot, however slots are reused, evicted and closed: find_file
\* stops at the first, and file_close would leave a second one behind.
OneSlotPerName ==
    \A f, g \in Slots : filename[f] = filename[g] /\ filename[f] # Blank => f = g

\* The file of each name, as a program sees it.
Files == [n \in AllNames |-> IF n = Elsewhere \/ entry[n] = Absent THEN Absent ELSE data[entry[n]]]

Host == INSTANCE HostFiles WITH Names <- AllNames, ReadOnly <- ReadOnly \cup {Elsewhere}, files <- Files

\* For a tidy program the descriptors kept between calls make no difference:
\* every call acts on the file of that name, evictions and refusals included.
ImplementsHostFiles == []["tidy" \in program => Host!Next]_<<Files, answer>>
=============================================================================
