--------------------------- MODULE AccountStore ---------------------------
(***************************************************************************)
(* The tables of sessions and proxies, and the tools of the operator that  *)
(* write to them: the import of a folder of accounts (scripts/             *)
(* import_accounts.py) or of a file of sessions (src/cli/sessions.py), by  *)
(* way of AccountService, and the proxy check (src/modules/scraping/       *)
(* proxy_manager.py). Every tool is a process of its own; two may run at   *)
(* once, and one that died is run again. An action ends at a commit or at  *)
(* the read before it.                                                     *)
(*                                                                         *)
(* Left out: what the rows say of accounts and proxies, and encryption.    *)
(***************************************************************************)
EXTENDS Integers, Sequences, FiniteSets

CONSTANTS
    FolderImports, FileImports, Checks,  \* the processes
    Together,    \* bound: sets of processes that run in one behaviour
    NumPhones,   \* accounts, in the order of their file names
    Unreadable,  \* accounts without JSON, or whose session does not convert
    Lines,       \* proxies in the folder's file
    OldProxies,  \* rows of proxies there are before
    Given,       \* [Phones -> 0 .. OldProxies], the proxies the file names; 0 is none
    FailLimit,   \* failures that deactivate a proxy (3 in the code)
    Rounds       \* bound: times a check is run

Imports == FolderImports \cup FileImports
Phones  == 1 .. NumPhones

ASSUME SizesAssumption   == /\ {NumPhones, Lines, OldProxies} \subseteq Nat
                            /\ {FailLimit, Rounds} \subseteq Nat \ {0}
ASSUME InputAssumption   == /\ Unreadable \subseteq Phones
                            /\ Given \in [Phones -> 0 .. OldProxies]
ASSUME ProcessAssumption == /\ Together \subseteq SUBSET (Imports \cup Checks)
                            /\ FolderImports \cap FileImports = {}
                            /\ Imports \cap Checks = {}

VARIABLES
    proxies,   \* table: is_active and fail_count of each proxy
    sessions,  \* table: the proxy of each imported phone; 0 is none
    import,    \* where each import stands
    check,     \* where each check stands
    past       \* history: per proxy, failures in all, failures since the last
               \* success, and whether checks of it have overlapped

vars == <<proxies, sessions, import, check, past>>

Row     == [active : BOOLEAN, fails : Nat]
NewRow  == [active |-> TRUE, fails |-> 0]
Past    == [failures : Nat, streak : Nat, overlapped : BOOLEAN]
NoPast  == [failures |-> 0, streak |-> 0, overlapped |-> FALSE]
Ids     == DOMAIN proxies

TypeOK ==
    /\ proxies \in Seq(Row)
    /\ past \in Seq(Past)
    /\ Len(past) = Len(proxies)
    /\ DOMAIN sessions \subseteq Phones
    /\ \A phone \in DOMAIN sessions : sessions[phone] \in Ids \cup {0}
    /\ import \in [Imports -> [pc : {"off", "running", "inserting", "done", "dead"},
                               mine : Seq(Nat), phone : Nat, drawn : Nat, proxy : Nat,
                               exists : BOOLEAN]]
    /\ check \in [Checks -> [pc : {"off", "idle", "checking", "counting", "dead"},
                             at : Nat, upTo : Nat, seen : Row, rounds : Nat]]

Init ==
    /\ proxies  = [p \in 1 .. OldProxies |-> NewRow]
    /\ past     = [p \in 1 .. OldProxies |-> NoPast]
    /\ sessions = <<>>
    /\ \E on \in Together :
          /\ import = [i \in Imports |-> [pc |-> IF i \in on THEN "running" ELSE "off", mine |-> <<>>,
                                          phone |-> 1, drawn |-> 0, proxy |-> 0, exists |-> FALSE]]
          /\ check  = [c \in Checks |-> [pc |-> IF c \in on THEN "idle" ELSE "off", at |-> 0,
                                         upTo |-> 0, seen |-> NewRow, rounds |-> Rounds]]

---------------------------------------------------------------------------
(* The imports                                                             *)

\* import_all first adds the proxies of its file, one commit each, whether the
\* table has them or not.
\* Faulty: no commit.
AddProxyUncommitted(i) ==
    /\ i \in FolderImports
    /\ import[i].pc = "running"
    /\ Len(import[i].mine) < Lines
    /\ import' = [import EXCEPT ![i].mine = Append(@, Len(proxies) + 1)]
    /\ UNCHANGED <<proxies, sessions, check, past>>

AddProxy(i) ==
    /\ i \in FolderImports
    /\ import[i].pc = "running"
    /\ Len(import[i].mine) < Lines
    /\ proxies' = Append(proxies, NewRow)
    /\ past' = Append(past, NoPast)
    /\ import' = [import EXCEPT ![i].mine = Append(@, Len(proxies) + 1)]
    /\ UNCHANGED <<sessions, check>>

ProxiesAdded(i) == i \in FileImports \/ Len(import[i].mine) = Lines

\* An account that cannot be read is left out.
\* Faulty: after it has drawn a proxy.
SkipWithProxy(i) ==
    /\ import[i].pc = "running"
    /\ ProxiesAdded(i)
    /\ i \in FolderImports /\ import[i].phone \in Unreadable
    /\ import' = [import EXCEPT ![i].phone = @ + 1, ![i].drawn = @ + 1]
    /\ UNCHANGED <<proxies, sessions, check, past>>

Skip(i) ==
    /\ import[i].pc = "running"
    /\ ProxiesAdded(i)
    /\ i \in FolderImports /\ import[i].phone \in Unreadable
    /\ import' = [import EXCEPT ![i].phone = @ + 1]
    /\ UNCHANGED <<proxies, sessions, check, past>>

\* The proxy of the next account: the file's, or next(proxy_cycle).
Draw(i) ==
    LET mine == import[i].mine
    IN CASE i \in FileImports -> Given[import[i].phone]
         [] i \notin FileImports /\ mine = <<>> -> 0
         [] OTHER -> mine[(import[i].drawn % Len(mine)) + 1]

\* import_session looks the phone up ...
LookUp(i) ==
    /\ import[i].pc = "running"
    /\ ProxiesAdded(i)
    /\ import[i].phone \in Phones \ (IF i \in FolderImports THEN Unreadable ELSE {})
    /\ import' = [import EXCEPT ![i].pc = "inserting", ![i].drawn = @ + 1, ![i].proxy = Draw(i),
                                ![i].exists = import[i].phone \in DOMAIN sessions]
    /\ UNCHANGED <<proxies, sessions, check, past>>

\* ... and inserts it when it was not there. A row that has come since violates
\* the unique column, which ends the import.
\* Faulty: the row of the phone is overwritten.
Overwrite(i) ==
    LET phone == import[i].phone
    IN /\ import[i].pc = "inserting"
       /\ sessions' = [ph \in DOMAIN sessions \cup {phone} |->
                         IF ph = phone THEN import[i].proxy ELSE sessions[ph]]
       /\ import' = [import EXCEPT ![i].pc = "running", ![i].phone = @ + 1]
       /\ UNCHANGED <<proxies, check, past>>

Insert(i) ==
    LET phone == import[i].phone
    IN /\ import[i].pc = "inserting"
       /\ IF import[i].exists \/ phone \in DOMAIN sessions
          THEN UNCHANGED sessions
          ELSE sessions' = [ph \in DOMAIN sessions \cup {phone} |->
                              IF ph = phone THEN import[i].proxy ELSE sessions[ph]]
       /\ IF ~import[i].exists /\ phone \in DOMAIN sessions
          THEN import' = [import EXCEPT ![i].pc = "dead"]
          ELSE import' = [import EXCEPT ![i].pc = "running", ![i].phone = @ + 1]
       /\ UNCHANGED <<proxies, check, past>>

Finish(i) ==
    /\ import[i].pc = "running"
    /\ ProxiesAdded(i)
    /\ import[i].phone \notin Phones
    /\ import' = [import EXCEPT ![i].pc = "done"]
    /\ UNCHANGED <<proxies, sessions, check, past>>

\* The operator stops it, a port is no number, the database is away.
Die(i) ==
    /\ import[i].pc \in {"running", "inserting"}
    /\ import' = [import EXCEPT ![i].pc = "dead"]
    /\ UNCHANGED <<proxies, sessions, check, past>>

---------------------------------------------------------------------------
(* The proxy check                                                         *)

\* check_all_proxies reads the rows and goes through them.
Begin(c) ==
    /\ check[c].pc = "idle" /\ check[c].rounds > 0
    /\ proxies # <<>>
    /\ check' = [check EXCEPT ![c].pc = "checking", ![c].at = 1, ![c].upTo = Len(proxies),
                              ![c].rounds = @ - 1]
    /\ UNCHANGED <<proxies, sessions, import, past>>

Advanced(c) ==
    IF check[c].at < check[c].upTo
    THEN [check EXCEPT ![c].pc = "checking", ![c].at = @ + 1]
    ELSE [check EXCEPT ![c].pc = "idle"]

\* An other check has read the row of p and not yet written it.
Overlapping(c, p) == \E d \in Checks \ {c} : check[d].pc = "counting" /\ check[d].at = p

\* The proxy answers: active, no failures.
\* Faulty: the failures are kept.
AliveKeepsFails(c) ==
    LET p == check[c].at
    IN /\ check[c].pc = "checking"
       /\ proxies' = [proxies EXCEPT ![p].active = TRUE]
       /\ past' = [past EXCEPT ![p].streak = 0, ![p].overlapped = @ \/ Overlapping(c, p)]
       /\ check' = Advanced(c)
       /\ UNCHANGED <<sessions, import>>

Alive(c) ==
    LET p == check[c].at
    IN /\ check[c].pc = "checking"
       /\ proxies' = [proxies EXCEPT ![p] = NewRow]
       /\ past' = [past EXCEPT ![p].streak = 0, ![p].overlapped = @ \/ Overlapping(c, p)]
       /\ check' = Advanced(c)
       /\ UNCHANGED <<sessions, import>>

\* It does not, or the write failed: its row is read ...
Failed(c) ==
    /\ check[c].pc = "checking"
    /\ check' = [check EXCEPT ![c].pc = "counting", ![c].seen = proxies[check[c].at]]
    /\ UNCHANGED <<proxies, sessions, import, past>>

\* ... and what has changed of it is written: is_active only if it was set.
AtLimit(row) == row.fails + 1 >= FailLimit

Count(c) ==
    LET p == check[c].at
        row == check[c].seen
    IN /\ check[c].pc = "counting"
       /\ proxies' = [proxies EXCEPT ![p].fails  = row.fails + 1,
                                     ![p].active = @ /\ ~(AtLimit(row) /\ row.active)]
       /\ past' = [past EXCEPT ![p].streak = @ + 1, ![p].failures = @ + 1,
                               ![p].overlapped = @ \/ Overlapping(c, p)]
       /\ check' = Advanced(c)
       /\ UNCHANGED <<sessions, import>>

\* The database is away, or the operator stops it.
GiveUp(c) ==
    /\ check[c].pc \in {"checking", "counting"}
    /\ check' = [check EXCEPT ![c].pc = "dead"]
    /\ UNCHANGED <<proxies, sessions, import, past>>

---------------------------------------------------------------------------

Next ==
    \/ \E i \in Imports :
          AddProxy(i) \/ Skip(i) \/ LookUp(i) \/ Insert(i) \/ Finish(i) \/ Die(i)
    \/ \E c \in Checks : Begin(c) \/ Alive(c) \/ Failed(c) \/ Count(c) \/ GiveUp(c)

Spec == Init /\ [][Next]_vars

---------------------------------------------------------------------------
(* Properties                                                              *)

\* A session never changes its proxy, however often and by whom it is imported
\* again: Telegram watches the address (session_pool.py:73).
SessionKeepsItsProxy ==
    [][\A phone \in DOMAIN sessions :
          phone \in DOMAIN sessions' /\ sessions'[phone] = sessions[phone]]_vars

\* The accounts are spread over the folder's proxies: none of these has more
\* than its share, with unreadable accounts, repeated and broken imports.
\* ceil(n / Lines) is -((-n) \div Lines).
LoadIsSpread ==
    \A p \in Ids : p > OldProxies =>
        Cardinality({phone \in DOMAIN sessions : sessions[phone] = p})
            <= -((-Cardinality(Phones \ Unreadable)) \div Lines)

\* A proxy is never deactivated before it has failed FailLimit times, even by
\* checks that overlap; as long as they do not, it is inactive exactly when its
\* last FailLimit checks failed (proxy_manager.py:36-38, 51-53).
ChecksDecide ==
    \A p \in Ids :
        /\ ~proxies[p].active => past[p].failures >= FailLimit
        /\ ~past[p].overlapped => (proxies[p].active <=> past[p].streak < FailLimit)

===========================================================================
