-------------------------- MODULE MCAccountStore --------------------------
(* Instances of AccountStore for TLC.                                       *)
EXTENDS AccountStore

\* Any two tools run at once, or a tool and its repetition.
Pairs == {{"folder1", "folder2"}, {"folder1", "file"}, {"folder1", "check1"}, {"check1", "check2"}}

\* The file names the first proxy for the first account only.
FileProxies == [phone \in Phones |-> IF phone = 1 THEN 1 ELSE 0]
===========================================================================
