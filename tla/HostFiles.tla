------------------------------ MODULE HostFiles ------------------------------
(***************************************************************************)
(* What cpmemu's file calls promise a program that closes what it opens:   *)
(* every call goes to the host's file of that name, as if no descriptor    *)
(* were ever kept from one call to the next.                               *)
(***************************************************************************)
EXTENDS Integers, Sequences

CONSTANTS Names, ReadOnly, Values, Zero, Absent

VARIABLES
    files,      \* the records of the host's file of each name, or Absent
    answer      \* the call made last: what, of which file, and what came back

host == <<files, answer>>

Asked(call, n, ret) == answer'.call = call /\ answer'.name = n /\ answer'.ret = ret

\* A record there is reads as it is; beyond the end there is none, and a file
\* that is not there cannot be read.
Read(n) ==
    LET r == answer'.rec IN
    /\ answer'.call = "READ" /\ answer'.name = n
    /\ CASE answer'.ret = "ok" -> files[n] # Absent /\ r < Len(files[n]) /\ answer'.val = files[n][r + 1]
         [] answer'.ret = "eof" -> files[n] # Absent /\ r >= Len(files[n])
         [] answer'.ret = "error" -> files[n] = Absent
    /\ UNCHANGED files

\* A record that is written is where it belongs, and the file reaches to it.
Write(n) ==
    LET r == answer'.rec
        old == files[n]
        size == IF r < Len(old) THEN Len(old) ELSE r + 1
    IN  /\ Asked("WRITE", n, "ok") /\ old # Absent
        /\ files' = [files EXCEPT ![n] =
              [i \in 1 .. size |-> IF i = r + 1 THEN answer'.val
                                   ELSE IF i <= Len(old) THEN old[i] ELSE Zero]]

\* Refused only where there is nothing the host lets one write.
Unwritable(n) == files[n] = Absent \/ n \in ReadOnly
WriteRefused(n) == Asked("WRITE", n, "error") /\ Unwritable(n) /\ UNCHANGED files

\* Opening and closing change no file.
Look(n) == answer'.call \in {"OPEN", "CLOSE", "SIZE"} /\ answer'.name = n /\ UNCHANGED files

Make(n) ==
    \/ Asked("MAKE", n, "ok") /\ files[n] = Absent /\ files' = [files EXCEPT ![n] = <<>>]
    \/ Asked("MAKE", n, "error") /\ n \in ReadOnly /\ UNCHANGED files

\* All the files of a set of names.
Delete(s) ==
    /\ answer'.call = "DELETE" /\ answer'.name = s
    /\ answer'.ret = "ok" <=> \E n \in s : files[n] # Absent
    /\ files' = [n \in Names |-> IF n \in s THEN Absent ELSE files[n]]

Rename(n) ==
    \/ \E to \in Names :
        /\ Asked("RENAME", n, "ok") /\ files[n] # Absent
        /\ files' = [m \in Names |-> IF m = to THEN files[n] ELSE IF m = n THEN Absent ELSE files[m]]
    \/ Asked("RENAME", n, "error") /\ files[n] = Absent /\ UNCHANGED files

\* A search finds files that are there.
Find(n) == Asked("FIND", n, "ok") /\ files[n] # Absent /\ UNCHANGED files

Other == answer'.call \in {"FIND", "SELECT"} /\ answer'.ret # "ok" /\ UNCHANGED files

Init == files \in [Names -> {Absent} \cup Seq(Values)]

Next ==
    \/ Other \/ \E s \in SUBSET Names : Delete(s)
    \/ \E n \in Names : \/ Read(n) \/ Write(n) \/ WriteRefused(n) \/ Look(n)
                        \/ Make(n) \/ Rename(n) \/ Find(n)

Spec == Init /\ [][Next]_host
=============================================================================
