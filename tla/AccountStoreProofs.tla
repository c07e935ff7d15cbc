------------------------ MODULE AccountStoreProofs ------------------------
(***************************************************************************)
(* Theorems about AccountStore, for any number of tools, accounts, proxies *)
(* and rounds, and any limit of failures.                                  *)
(***************************************************************************)
EXTENDS AccountStore, FiniteSetTheorems, TLAPS

\* The proxies a tool holds by number are rows, and stay rows.
RowsOfImports ==
    \A i \in Imports :
        /\ import[i].mine \in Seq(Ids)
        /\ import[i].proxy \in Ids \cup {0}
        /\ import[i].pc = "inserting" => import[i].phone \in Phones

RowsOfChecks ==
    \A c \in Checks : check[c].pc \in {"checking", "counting"}
                      => check[c].at \in 1 .. check[c].upTo /\ check[c].upTo <= Len(proxies)

\* Checks only write what they have counted: a row, or what a check has seen of
\* it, has no more failures than there were, and exactly those since the last
\* success as long as no checks overlapped.
CountIsTrue ==
    \A p \in Ids :
        /\ proxies[p].fails <= past[p].failures
        /\ ~past[p].overlapped => proxies[p].fails = past[p].streak

SeenIsTrue ==
    \A c \in Checks : check[c].pc = "counting" =>
        LET p == check[c].at
        IN /\ check[c].seen.fails <= past[p].failures
           /\ ~past[p].overlapped => check[c].seen = proxies[p]

IInv ==
    /\ TypeOK
    /\ OldProxies <= Len(proxies)
    /\ RowsOfImports
    /\ RowsOfChecks
    /\ CountIsTrue
    /\ SeenIsTrue
    /\ ChecksDecide

---------------------------------------------------------------------------
(* The states of the two kinds of tools.                                   *)

ImportStates == [pc : {"off", "running", "inserting", "done", "dead"},
                 mine : Seq(Nat), phone : Nat, drawn : Nat, proxy : Nat, exists : BOOLEAN]
CheckStates  == [pc : {"off", "idle", "checking", "counting", "dead"},
                 at : Nat, upTo : Nat, seen : Row, rounds : Nat]

\* A step of an import that leaves the proxies alone.
LEMMA ImportStep ==
    ASSUME IInv, NEW i \in Imports, NEW r \in ImportStates, import' = [import EXCEPT ![i] = r],
           UNCHANGED <<proxies, check, past>>,
           r.mine \in Seq(Ids), r.proxy \in Ids \cup {0},
           r.pc = "inserting" => r.phone \in Phones,
           DOMAIN sessions' \subseteq Phones,
           \A phone \in DOMAIN sessions' : sessions'[phone] \in Ids \cup {0}
    PROVE  IInv'
<1>1. TypeOK'
    BY DEF IInv, TypeOK, ImportStates, Ids
<1>2. RowsOfImports'
    BY DEF IInv, TypeOK, RowsOfImports, Ids
<1>3. (RowsOfChecks /\ CountIsTrue /\ SeenIsTrue /\ ChecksDecide)'
    BY DEF IInv, RowsOfChecks, CountIsTrue, SeenIsTrue, ChecksDecide, Ids
<1> QED BY <1>1, <1>2, <1>3 DEF IInv

LEMMA DrawnIsRow ==
    ASSUME IInv, NEW i \in Imports, import[i].phone \in Phones
    PROVE  Draw(i) \in Ids \cup {0}
<1> DEFINE mine == import[i].mine
<1>1. CASE i \in FileImports
  <2>1. Draw(i) = Given[import[i].phone]
      BY <1>1 DEF Draw
  <2>2. Given[import[i].phone] \in 0 .. OldProxies /\ OldProxies \in Nat
      BY InputAssumption, SizesAssumption
  <2>3. Ids = 1 .. Len(proxies) /\ Len(proxies) \in Nat /\ OldProxies <= Len(proxies)
      BY DEF IInv, TypeOK, Ids
  <2> QED BY <2>1, <2>2, <2>3
<1>2. CASE i \notin FileImports /\ mine = <<>>
    BY <1>2 DEF Draw
<1>3. CASE i \notin FileImports /\ mine # <<>>
  <2>1. Draw(i) = mine[(import[i].drawn % Len(mine)) + 1]
      BY <1>3 DEF Draw
  <2>2. mine \in Seq(Ids) /\ import[i].drawn \in Nat
      BY DEF IInv, TypeOK, RowsOfImports
  <2>3. Len(mine) \in Nat /\ Len(mine) > 0
      BY <1>3, <2>2
  <2>4. (import[i].drawn % Len(mine)) + 1 \in 1 .. Len(mine)
      BY <2>2, <2>3
  <2> QED BY <2>1, <2>2, <2>4
<1> QED BY <1>1, <1>2, <1>3

LEMMA AddProxyStep ==
    ASSUME IInv, NEW i \in Imports, AddProxy(i)
    PROVE  IInv'
<1> DEFINE n == Len(proxies) + 1
<1>1. /\ proxies' = Append(proxies, NewRow) /\ past' = Append(past, NoPast)
      /\ import' = [import EXCEPT ![i].mine = Append(@, n)]
      /\ UNCHANGED <<sessions, check>>
    BY DEF AddProxy
<1>2. /\ Len(proxies) \in Nat /\ Len(past) = Len(proxies)
      /\ Ids = 1 .. Len(proxies) /\ DOMAIN past = Ids
    BY DEF IInv, TypeOK, Ids
<1>3. /\ proxies' \in Seq(Row) /\ past' \in Seq(Past) /\ Len(past') = Len(proxies')
      /\ Len(proxies') = n /\ Ids' = Ids \cup {n} /\ n \notin Ids
  <2>1. NewRow \in Row /\ NoPast \in Past
      BY DEF NewRow, Row, NoPast, Past
  <2> QED BY <1>1, <1>2, <2>1 DEF IInv, TypeOK, Ids
<1>4. /\ \A p \in Ids : proxies'[p] = proxies[p] /\ past'[p] = past[p]
      /\ proxies'[n] = NewRow /\ past'[n] = NoPast
    BY <1>1, <1>2 DEF IInv, TypeOK
<1>5. import' \in [Imports -> ImportStates]
  <2> DEFINE r == [import[i] EXCEPT !.mine = Append(@, n)]
  <2>1. import' = [import EXCEPT ![i] = r] /\ import \in [Imports -> ImportStates]
      BY <1>1 DEF IInv, TypeOK, ImportStates
  <2>2. Append(import[i].mine, n) \in Seq(Nat)
      BY <1>2, <2>1 DEF ImportStates
  <2>3. r \in ImportStates
      BY <2>1, <2>2 DEF ImportStates
  <2> QED BY <2>1, <2>3
<1>6. /\ import'[i].mine = Append(import[i].mine, n)
      /\ import'[i].pc = import[i].pc /\ import'[i].phone = import[i].phone
      /\ import'[i].proxy = import[i].proxy
      /\ \A k \in Imports \ {i} : import'[k] = import[k]
    BY <1>1 DEF IInv, TypeOK
<1>7. TypeOK'
    BY <1>1, <1>3, <1>5 DEF IInv, TypeOK, ImportStates
<1>8. RowsOfImports'
  <2>1. \A k \in Imports : import[k].mine \in Seq(Ids')
      BY <1>3 DEF IInv, RowsOfImports
  <2>2. import'[i].mine \in Seq(Ids')
      BY <1>3, <1>6, <2>1
  <2> QED BY <1>3, <1>6, <2>1, <2>2 DEF IInv, RowsOfImports
<1>9. RowsOfChecks'
    BY <1>1, <1>2, <1>3 DEF IInv, TypeOK, RowsOfChecks
<1>10. CountIsTrue' /\ ChecksDecide'
  <2>1. FailLimit \in Nat /\ FailLimit > 0
      BY SizesAssumption
  <2> QED BY <1>3, <1>4, <2>1 DEF IInv, CountIsTrue, ChecksDecide, NewRow, NoPast
<1>11. SeenIsTrue'
  <2>1. \A c \in Checks : check[c].pc = "counting" => check[c].at \in Ids
      BY <1>2 DEF IInv, TypeOK, RowsOfChecks
  <2> QED BY <1>1, <1>4, <2>1 DEF IInv, SeenIsTrue
<1>12. (OldProxies <= Len(proxies))'
    BY <1>2, <1>3, SizesAssumption DEF IInv
<1> QED BY <1>7, <1>8, <1>9, <1>10, <1>11, <1>12 DEF IInv

\* The other steps of an import, but for what it stores.
LEMMA MovesOfImport ==
    ASSUME IInv, NEW i \in Imports, Skip(i) \/ LookUp(i) \/ Finish(i) \/ Die(i)
    PROVE  IInv'
<1>1. /\ import[i] \in ImportStates /\ import[i].mine \in Seq(Ids)
      /\ import[i].proxy \in Ids \cup {0}
    BY DEF IInv, TypeOK, ImportStates, RowsOfImports
<1>2. UNCHANGED <<proxies, sessions, check, past>>
    BY DEF Skip, LookUp, Finish, Die
<1>3. /\ DOMAIN sessions' \subseteq Phones
      /\ \A phone \in DOMAIN sessions' : sessions'[phone] \in Ids \cup {0}
    BY <1>2 DEF IInv, TypeOK
<1>4. CASE Skip(i)
  <2> DEFINE r == [import[i] EXCEPT !.phone = @ + 1]
  <2>1. import' = [import EXCEPT ![i] = r]
      BY <1>4 DEF Skip, IInv, TypeOK
  <2>2. import[i].phone + 1 \in Nat
      BY <1>1 DEF ImportStates
  <2>3. r \in ImportStates
      BY <1>1, <2>2 DEF ImportStates
  <2>4. r.pc = "running" /\ r.mine = import[i].mine /\ r.proxy = import[i].proxy
      BY <1>1, <1>4 DEF ImportStates, Skip
  <2> QED BY <1>1, <1>2, <1>3, <2>1, <2>3, <2>4, ImportStep
<1>5. CASE LookUp(i)
  <2> DEFINE r == [import[i] EXCEPT !.pc = "inserting", !.drawn = @ + 1, !.proxy = Draw(i),
                                    !.exists = import[i].phone \in DOMAIN sessions]
  <2>1. import' = [import EXCEPT ![i] = r]
      BY <1>5 DEF LookUp, IInv, TypeOK
  <2>2. import[i].phone \in Phones
      BY <1>5 DEF LookUp
  <2>3. Draw(i) \in Ids \cup {0} /\ Draw(i) \in Nat
      BY <2>2, DrawnIsRow DEF IInv, TypeOK, Ids
  <2>4. import[i].drawn + 1 \in Nat
      BY <1>1 DEF ImportStates
  <2>5. PICK known \in BOOLEAN : known = (import[i].phone \in DOMAIN sessions)
    <3>1. (import[i].phone \in DOMAIN sessions) \in BOOLEAN
        OBVIOUS
    <3> QED BY <3>1
  <2>6. r \in ImportStates
      BY <1>1, <2>3, <2>4, <2>5 DEF ImportStates
  <2>7. r.phone = import[i].phone /\ r.mine = import[i].mine /\ r.proxy = Draw(i)
      BY <1>1 DEF ImportStates
  <2> QED BY <1>1, <1>2, <1>3, <2>1, <2>2, <2>3, <2>6, <2>7, ImportStep
<1>6. CASE Finish(i) \/ Die(i)
  <2>1. PICK pc \in {"done", "dead"} : import' = [import EXCEPT ![i].pc = pc]
      BY <1>6 DEF Finish, Die
  <2> DEFINE r == [import[i] EXCEPT !.pc = pc]
  <2>2. import' = [import EXCEPT ![i] = r]
      BY <2>1 DEF IInv, TypeOK
  <2>3. r \in ImportStates /\ r.pc = pc /\ r.mine = import[i].mine /\ r.proxy = import[i].proxy
      BY <1>1 DEF ImportStates
  <2> QED BY <1>1, <1>2, <1>3, <2>2, <2>3, ImportStep
<1> QED BY <1>4, <1>5, <1>6

LEMMA InsertStep ==
    ASSUME IInv, NEW i \in Imports, Insert(i)
    PROVE  IInv'
<1> DEFINE phone == import[i].phone
<1>1. /\ import[i] \in ImportStates /\ import[i].mine \in Seq(Ids)
      /\ import[i].proxy \in Ids \cup {0} /\ phone \in Phones
    BY DEF IInv, TypeOK, ImportStates, RowsOfImports, Insert
<1>2. UNCHANGED <<proxies, check, past>>
    BY DEF Insert
<1>3. /\ DOMAIN sessions' \subseteq Phones
      /\ \A ph \in DOMAIN sessions' : sessions'[ph] \in Ids \cup {0}
  <2>1. CASE sessions' = sessions
      BY <2>1 DEF IInv, TypeOK
  <2>2. CASE sessions' = [ph \in DOMAIN sessions \cup {phone} |->
                            IF ph = phone THEN import[i].proxy ELSE sessions[ph]]
      BY <1>1, <2>2 DEF IInv, TypeOK
  <2> QED BY <2>1, <2>2 DEF Insert
<1>4. CASE import' = [import EXCEPT ![i].pc = "dead"]
  <2> DEFINE r == [import[i] EXCEPT !.pc = "dead"]
  <2>1. import' = [import EXCEPT ![i] = r]
      BY <1>4 DEF IInv, TypeOK
  <2>2. r \in ImportStates /\ r.pc = "dead" /\ r.mine = import[i].mine /\ r.proxy = import[i].proxy
      BY <1>1 DEF ImportStates
  <2> QED BY <1>1, <1>2, <1>3, <2>1, <2>2, ImportStep
<1>5. CASE import' = [import EXCEPT ![i].pc = "running", ![i].phone = @ + 1]
  <2> DEFINE r == [import[i] EXCEPT !.pc = "running", !.phone = @ + 1]
  <2>1. import' = [import EXCEPT ![i] = r]
      BY <1>5 DEF IInv, TypeOK
  <2>2. import[i].phone + 1 \in Nat
      BY <1>1 DEF ImportStates
  <2>3. r \in ImportStates
      BY <1>1, <2>2 DEF ImportStates
  <2>4. r.pc = "running" /\ r.mine = import[i].mine /\ r.proxy = import[i].proxy
      BY <1>1 DEF ImportStates
  <2> QED BY <1>1, <1>2, <1>3, <2>1, <2>3, <2>4, ImportStep
<1> QED BY <1>4, <1>5 DEF Insert

---------------------------------------------------------------------------
(* The proxy check.                                                        *)

LEMMA CheckMoves ==
    ASSUME IInv, NEW c \in Checks, NEW r \in CheckStates, check' = [check EXCEPT ![c] = r]
    PROVE  /\ check' \in [Checks -> CheckStates]
           /\ check'[c] = r
           /\ \A d \in Checks \ {c} : check'[d] = check[d]
BY DEF IInv, TypeOK, CheckStates

\* Where a check goes from a row: to the next one, or to rest.
LEMMA AdvancedMoves ==
    ASSUME IInv, NEW c \in Checks, check[c].pc \in {"checking", "counting"}, check' = Advanced(c)
    PROVE  /\ check' \in [Checks -> CheckStates]
           /\ \A d \in Checks \ {c} : check'[d] = check[d]
           /\ check'[c].pc # "counting"
           /\ check'[c].pc = "checking" => /\ check'[c].at \in 1 .. check'[c].upTo
                                           /\ check'[c].upTo <= Len(proxies)
<1>1. /\ check[c] \in CheckStates /\ check[c].at \in 1 .. check[c].upTo
      /\ check[c].upTo <= Len(proxies)
    BY DEF IInv, TypeOK, RowsOfChecks, CheckStates
<1>2. CASE check[c].at < check[c].upTo
  <2> DEFINE r == [check[c] EXCEPT !.pc = "checking", !.at = @ + 1]
  <2>1. check' = [check EXCEPT ![c] = r]
      BY <1>2 DEF Advanced, IInv, TypeOK
  <2>2. check[c].at + 1 \in 1 .. check[c].upTo
      BY <1>1, <1>2 DEF CheckStates
  <2>3. check[c].at + 1 \in Nat
      BY <1>1 DEF CheckStates
  <2>4. r \in CheckStates
      BY <1>1, <2>3 DEF CheckStates
  <2>5. r.pc = "checking" /\ r.at = check[c].at + 1 /\ r.upTo = check[c].upTo
      BY <1>1 DEF CheckStates
  <2> HIDE DEF r
  <2> QED BY <1>1, <2>1, <2>2, <2>4, <2>5, CheckMoves
<1>3. CASE ~(check[c].at < check[c].upTo)
  <2> DEFINE r == [check[c] EXCEPT !.pc = "idle"]
  <2>1. check' = [check EXCEPT ![c] = r]
      BY <1>3 DEF Advanced, IInv, TypeOK
  <2>2. r \in CheckStates /\ r.pc = "idle"
      BY <1>1 DEF CheckStates
  <2> QED BY <2>1, <2>2, CheckMoves
<1> QED BY <1>2, <1>3

\* A check that reads.
LEMMA ReadStep ==
    ASSUME IInv, NEW c \in Checks, Begin(c) \/ Failed(c) \/ GiveUp(c)
    PROVE  IInv'
<1>1. UNCHANGED <<proxies, sessions, import, past>> /\ check[c] \in CheckStates
    BY DEF Begin, Failed, GiveUp, IInv, TypeOK, CheckStates
<1>2. proxies \in Seq(Row) /\ Len(proxies) \in Nat /\ Ids = 1 .. Len(proxies)
    BY DEF IInv, TypeOK, Ids
<1>3. \E r \in CheckStates :
        /\ check' = [check EXCEPT ![c] = r]
        /\ r.pc \in {"checking", "counting"} => r.at \in 1 .. r.upTo /\ r.upTo <= Len(proxies)
        /\ r.pc = "counting" => r.seen = proxies[r.at]
  <2>1. CASE Begin(c)
    <3> DEFINE r == [check[c] EXCEPT !.pc = "checking", !.at = 1, !.upTo = Len(proxies),
                                     !.rounds = @ - 1]
    <3>1. check' = [check EXCEPT ![c] = r]
        BY <2>1 DEF Begin, IInv, TypeOK
    <3>2. check[c].rounds - 1 \in Nat /\ Len(proxies) \in Nat \ {0}
        BY <1>1, <1>2, <2>1 DEF Begin, CheckStates
    <3>3. r \in CheckStates
        BY <1>1, <3>2 DEF CheckStates
    <3>4. r.pc = "checking" /\ r.at = 1 /\ r.upTo = Len(proxies)
        BY <1>1 DEF CheckStates
    <3>5. r.at \in 1 .. r.upTo /\ r.upTo <= Len(proxies) /\ r.pc # "counting"
        BY <3>2, <3>4
    <3> HIDE DEF r
    <3> QED BY <3>1, <3>3, <3>5
  <2>2. CASE Failed(c)
    <3> DEFINE r == [check[c] EXCEPT !.pc = "counting", !.seen = proxies[check[c].at]]
    <3>1. check' = [check EXCEPT ![c] = r]
        BY <2>2 DEF Failed, IInv, TypeOK
    <3>2. check[c].at \in 1 .. check[c].upTo /\ check[c].upTo <= Len(proxies)
        BY <2>2 DEF Failed, IInv, RowsOfChecks
    <3>3. proxies[check[c].at] \in Row
        BY <1>1, <1>2, <3>2 DEF CheckStates
    <3>4. /\ r \in CheckStates /\ r.pc = "counting" /\ r.at = check[c].at
          /\ r.upTo = check[c].upTo /\ r.seen = proxies[check[c].at]
        BY <1>1, <3>3 DEF CheckStates
    <3> QED BY <3>1, <3>2, <3>4
  <2>3. CASE GiveUp(c)
    <3> DEFINE r == [check[c] EXCEPT !.pc = "dead"]
    <3>1. check' = [check EXCEPT ![c] = r]
        BY <2>3 DEF GiveUp, IInv, TypeOK
    <3>2. r \in CheckStates /\ r.pc = "dead"
        BY <1>1 DEF CheckStates
    <3> QED BY <3>1, <3>2
  <2> QED BY <2>1, <2>2, <2>3
<1>4. PICK r \in CheckStates :
        /\ check' = [check EXCEPT ![c] = r]
        /\ r.pc \in {"checking", "counting"} => r.at \in 1 .. r.upTo /\ r.upTo <= Len(proxies)
        /\ r.pc = "counting" => r.seen = proxies[r.at]
    BY <1>3
<1>5. /\ check' \in [Checks -> CheckStates] /\ check'[c] = r
      /\ \A d \in Checks \ {c} : check'[d] = check[d]
    BY <1>4, CheckMoves
<1>6. TypeOK'
    BY <1>1, <1>5 DEF IInv, TypeOK, CheckStates, Ids
<1>7. RowsOfChecks'
    BY <1>1, <1>4, <1>5 DEF IInv, RowsOfChecks
<1>8. RowsOfImports' /\ CountIsTrue' /\ ChecksDecide'
    BY <1>1 DEF IInv, RowsOfImports, CountIsTrue, ChecksDecide, Ids
<1>9. SeenIsTrue'
  <2>1. ASSUME r.pc = "counting"
        PROVE  r.seen = proxies[r.at] /\ r.seen.fails <= past[r.at].failures
    <3>1. r.at \in Ids
        BY <1>2, <1>4, <2>1 DEF CheckStates
    <3> QED BY <1>4, <2>1, <3>1 DEF IInv, CountIsTrue
  <2> QED BY <1>1, <1>5, <2>1 DEF IInv, SeenIsTrue
<1> QED BY <1>1, <1>6, <1>7, <1>8, <1>9 DEF IInv

\* A check that writes row p: the others that have seen it know it for stale.
LEMMA WriteStep ==
    ASSUME IInv, NEW c \in Checks, check[c].pc \in {"checking", "counting"}, check' = Advanced(c),
           NEW p, p = check[c].at, NEW row \in Row, NEW then \in Past,
           proxies' = [proxies EXCEPT ![p] = row], past' = [past EXCEPT ![p] = then],
           UNCHANGED <<sessions, import>>,
           then.failures >= past[p].failures,
           then.overlapped = (past[p].overlapped \/ Overlapping(c, p)),
           row.fails <= then.failures,
           ~row.active => then.failures >= FailLimit,
           ~then.overlapped => /\ row.fails = then.streak
                               /\ row.active <=> then.streak < FailLimit
    PROVE  IInv'
<1>1. /\ proxies \in Seq(Row) /\ past \in Seq(Past) /\ Len(proxies) \in Nat
      /\ Len(past) = Len(proxies) /\ Ids = 1 .. Len(proxies) /\ DOMAIN past = Ids
    BY DEF IInv, TypeOK, Ids
<1>2. p \in Ids
    BY <1>1 DEF IInv, TypeOK, RowsOfChecks
<1>3. /\ proxies' \in Seq(Row) /\ past' \in Seq(Past) /\ Len(proxies') = Len(proxies)
      /\ Len(past') = Len(past) /\ Ids' = Ids
    BY <1>1, <1>2 DEF Ids
<1>4. /\ proxies'[p] = row /\ past'[p] = then
      /\ \A q \in Ids \ {p} : proxies'[q] = proxies[q] /\ past'[q] = past[q]
    BY <1>1, <1>2
<1>5. /\ check' \in [Checks -> CheckStates]
      /\ \A d \in Checks \ {c} : check'[d] = check[d]
      /\ check'[c].pc # "counting"
      /\ check'[c].pc = "checking" => /\ check'[c].at \in 1 .. check'[c].upTo
                                      /\ check'[c].upTo <= Len(proxies)
    BY AdvancedMoves
<1>6. TypeOK'
    BY <1>1, <1>3, <1>5 DEF IInv, TypeOK, CheckStates
<1>7. RowsOfImports' /\ RowsOfChecks' /\ (OldProxies <= Len(proxies))'
    BY <1>3, <1>5 DEF IInv, RowsOfImports, RowsOfChecks
<1>8. CountIsTrue' /\ ChecksDecide'
    BY <1>2, <1>3, <1>4 DEF IInv, CountIsTrue, ChecksDecide
<1>9. SeenIsTrue'
  <2> SUFFICES ASSUME NEW d \in Checks, check'[d].pc = "counting"
               PROVE  /\ check'[d].seen.fails <= past'[check'[d].at].failures
                      /\ ~past'[check'[d].at].overlapped => check'[d].seen = proxies'[check'[d].at]
      BY DEF SeenIsTrue
  <2>1. d # c /\ check'[d] = check[d]
      BY <1>5
  <2>2. check[d].at \in Ids /\ check[d] \in CheckStates
      BY <1>1, <2>1 DEF IInv, TypeOK, RowsOfChecks, CheckStates
  <2>3. /\ check[d].seen.fails <= past[check[d].at].failures
        /\ ~past[check[d].at].overlapped => check[d].seen = proxies[check[d].at]
      BY <2>1 DEF IInv, SeenIsTrue
  <2>4. CASE check[d].at = p
    <3>1. then.overlapped
        BY <2>1, <2>4 DEF Overlapping
    <3>2. check[d].seen.fails \in Nat
        BY <2>2 DEF CheckStates, Row
    <3>3. past[p] \in Past
        BY <1>1, <1>2
    <3>4. past[p].failures \in Nat /\ then.failures \in Nat
        BY <3>3 DEF Past
    <3>5. check[d].seen.fails <= then.failures
        BY <2>3, <2>4, <3>2, <3>4
    <3> QED BY <1>4, <2>1, <2>4, <3>1, <3>5
  <2>5. CASE check[d].at # p
      BY <1>4, <2>1, <2>2, <2>3, <2>5
  <2> QED BY <2>4, <2>5
<1> QED BY <1>6, <1>7, <1>8, <1>9 DEF IInv

\* The rows a check works on.
LEMMA RowOfCheck ==
    ASSUME IInv, NEW c \in Checks, check[c].pc \in {"checking", "counting"}
    PROVE  /\ check[c].at \in Ids
           /\ proxies[check[c].at] \in Row
           /\ past[check[c].at] \in Past
           /\ check[c].seen \in Row
<1>1. check[c] \in CheckStates /\ check[c].at \in 1 .. Len(proxies)
    BY DEF IInv, TypeOK, RowsOfChecks, CheckStates
<1> QED BY <1>1 DEF IInv, TypeOK, CheckStates, Ids

LEMMA AliveStep ==
    ASSUME IInv, NEW c \in Checks, Alive(c)
    PROVE  IInv'
<1> DEFINE p == check[c].at
           then == [past[p] EXCEPT !.streak = 0, !.overlapped = @ \/ Overlapping(c, p)]
<1>1. check[c].pc = "checking" /\ check' = Advanced(c) /\ UNCHANGED <<sessions, import>>
      /\ proxies' = [proxies EXCEPT ![p] = NewRow]
    BY DEF Alive
<1>2. p \in Ids /\ past[p] \in Past
    BY <1>1, RowOfCheck
<1>3. past' = [past EXCEPT ![p] = then]
    BY DEF Alive
<1>4. /\ then \in Past /\ then.failures = past[p].failures /\ then.streak = 0
      /\ then.overlapped = (past[p].overlapped \/ Overlapping(c, p))
  <2>1. PICK both \in BOOLEAN : both = (past[p].overlapped \/ Overlapping(c, p))
      OBVIOUS
  <2>2. then = [past[p] EXCEPT !.streak = 0, !.overlapped = both]
      BY <2>1
  <2>3. then \in Past
      BY <1>2, <2>2 DEF Past
  <2> QED BY <1>2, <2>1, <2>2, <2>3 DEF Past
<1> HIDE DEF then
<1>5. NewRow \in Row /\ NewRow.active /\ NewRow.fails = 0
    BY DEF NewRow, Row
<1>6. then.failures \in Nat /\ past[p].failures \in Nat /\ 0 < FailLimit
    BY <1>2, <1>4, SizesAssumption DEF Past
<1>7. /\ then.failures >= past[p].failures /\ NewRow.fails <= then.failures
      /\ NewRow.fails = then.streak /\ then.streak < FailLimit
    BY <1>4, <1>5, <1>6
<1>8. p = check[c].at
    OBVIOUS
<1> HIDE DEF p
<1> QED BY <1>1, <1>3, <1>4, <1>5, <1>7, <1>8, WriteStep

LEMMA CountStep ==
    ASSUME IInv, NEW c \in Checks, Count(c)
    PROVE  IInv'
<1> DEFINE p == check[c].at
           seen == check[c].seen
           row == [proxies[p] EXCEPT !.fails = seen.fails + 1,
                                     !.active = @ /\ ~(AtLimit(seen) /\ seen.active)]
           then == [past[p] EXCEPT !.streak = @ + 1, !.failures = @ + 1,
                                   !.overlapped = @ \/ Overlapping(c, p)]
<1>1. check[c].pc = "counting" /\ check' = Advanced(c) /\ UNCHANGED <<sessions, import>>
    BY DEF Count
<1>2. p \in Ids /\ proxies[p] \in Row /\ past[p] \in Past /\ seen \in Row
    BY <1>1, RowOfCheck
<1>3. proxies' = [proxies EXCEPT ![p] = row] /\ past' = [past EXCEPT ![p] = then]
    BY DEF Count
<1>4. /\ then \in Past /\ then.failures = past[p].failures + 1 /\ then.streak = past[p].streak + 1
      /\ then.overlapped = (past[p].overlapped \/ Overlapping(c, p))
  <2>1. PICK both \in BOOLEAN : both = (past[p].overlapped \/ Overlapping(c, p))
      OBVIOUS
  <2>2. then = [past[p] EXCEPT !.streak = @ + 1, !.failures = @ + 1, !.overlapped = both]
      BY <2>1
  <2>3. past[p].streak + 1 \in Nat /\ past[p].failures + 1 \in Nat
      BY <1>2 DEF Past
  <2>4. then \in Past
      BY <1>2, <2>2, <2>3 DEF Past
  <2> QED BY <1>2, <2>1, <2>2, <2>4 DEF Past
<1>5. /\ row \in Row /\ row.fails = seen.fails + 1
      /\ row.active <=> (proxies[p].active /\ ~(AtLimit(seen) /\ seen.active))
  <2>1. PICK still \in BOOLEAN : still = (proxies[p].active /\ ~(AtLimit(seen) /\ seen.active))
      OBVIOUS
  <2>2. row = [proxies[p] EXCEPT !.fails = seen.fails + 1, !.active = still]
      BY <2>1
  <2>3. seen.fails + 1 \in Nat
      BY <1>2 DEF Row
  <2>4. row \in Row
      BY <1>2, <2>2, <2>3 DEF Row
  <2> QED BY <1>2, <2>1, <2>2, <2>4 DEF Row
<1>6. /\ seen.fails <= past[p].failures
      /\ ~past[p].overlapped => seen = proxies[p]
    BY <1>1 DEF IInv, SeenIsTrue
<1>7. /\ ~proxies[p].active => past[p].failures >= FailLimit
      /\ ~past[p].overlapped => /\ proxies[p].active <=> past[p].streak < FailLimit
                                /\ proxies[p].fails = past[p].streak
    BY <1>2 DEF IInv, ChecksDecide, CountIsTrue
<1>8. /\ seen.fails \in Nat /\ past[p].failures \in Nat /\ past[p].streak \in Nat
      /\ FailLimit \in Nat
    BY <1>2, SizesAssumption DEF Row, Past
<1>12. p = check[c].at
    OBVIOUS
<1> HIDE DEF p, seen, row, then
<1>9. then.failures >= past[p].failures /\ row.fails <= then.failures
    BY <1>4, <1>5, <1>6, <1>8
<1>10. ~row.active => then.failures >= FailLimit
    BY <1>4, <1>5, <1>6, <1>7, <1>8 DEF AtLimit
<1>11. ~then.overlapped => /\ row.fails = then.streak
                           /\ row.active <=> then.streak < FailLimit
  <2> SUFFICES ASSUME ~then.overlapped
               PROVE  row.fails = then.streak /\ (row.active <=> then.streak < FailLimit)
      OBVIOUS
  <2>1. ~past[p].overlapped
      BY <1>4
  <2>2. seen = proxies[p] /\ seen.fails = past[p].streak
      BY <1>6, <1>7, <2>1
  <2>3. seen.active <=> past[p].streak < FailLimit
      BY <1>7, <2>1, <2>2
  <2>4. AtLimit(seen) <=> past[p].streak + 1 >= FailLimit
      BY <2>2 DEF AtLimit
  <2>5. row.active <=> (seen.active /\ ~AtLimit(seen))
      BY <1>5, <2>2
  <2>6. row.active <=> past[p].streak < FailLimit /\ past[p].streak + 1 < FailLimit
      BY <1>8, <2>3, <2>4, <2>5
  <2> QED BY <1>4, <1>5, <1>8, <2>2, <2>6
<1> QED BY <1>1, <1>3, <1>4, <1>5, <1>9, <1>10, <1>11, <1>12, WriteStep

---------------------------------------------------------------------------
(* The invariant, and what follows.                                        *)

LEMMA InitIInv == Init => IInv
<1> SUFFICES ASSUME Init PROVE IInv
    OBVIOUS
<1>1. OldProxies \in Nat /\ FailLimit \in Nat \ {0} /\ Rounds \in Nat
    BY SizesAssumption
<1>2. /\ proxies \in Seq(Row) /\ past \in Seq(Past) /\ Len(proxies) = OldProxies
      /\ Len(past) = OldProxies /\ Ids = 1 .. OldProxies
      /\ \A p \in Ids : proxies[p] = NewRow /\ past[p] = NoPast
    BY <1>1 DEF Init, NewRow, NoPast, Row, Past, Ids
<1>3. /\ import \in [Imports -> ImportStates]
      /\ \A i \in Imports : import[i].mine = <<>> /\ import[i].proxy = 0 /\ import[i].pc # "inserting"
    BY DEF Init, ImportStates
<1>4. /\ check \in [Checks -> CheckStates]
      /\ \A c \in Checks : check[c].pc \in {"off", "idle"}
    BY <1>1 DEF Init, CheckStates, NewRow, Row
<1>5. TypeOK
  <2>1. sessions = <<>>
      BY DEF Init
  <2>2. DOMAIN sessions = {}
      BY <2>1
  <2> QED BY <1>2, <1>3, <1>4, <2>2 DEF TypeOK, ImportStates, CheckStates
<1>6. RowsOfImports
  <2>1. <<>> \in Seq(Ids)
      OBVIOUS
  <2>2. \A i \in Imports : import[i].mine \in Seq(Ids) /\ import[i].proxy \in Ids \cup {0}
      BY <1>3, <2>1
  <2> QED BY <1>3, <2>2 DEF RowsOfImports
<1>8. RowsOfChecks /\ SeenIsTrue
    BY <1>4 DEF RowsOfChecks, SeenIsTrue
<1>7. CountIsTrue /\ ChecksDecide
  <2>1. /\ NewRow.active /\ NewRow.fails = 0
        /\ NoPast.streak = 0 /\ NoPast.failures = 0
      BY DEF NewRow, NoPast
  <2> QED BY <1>1, <1>2, <2>1 DEF CountIsTrue, ChecksDecide
<1> QED BY <1>1, <1>2, <1>5, <1>6, <1>8, <1>7 DEF IInv

LEMMA StepIInv == IInv /\ [Next]_vars => IInv'
<1> SUFFICES ASSUME IInv, [Next]_vars PROVE IInv'
    OBVIOUS
<1>1. ASSUME NEW i \in Imports, AddProxy(i) \/ Skip(i) \/ LookUp(i) \/ Insert(i) \/ Finish(i) \/ Die(i)
      PROVE IInv'
    BY <1>1, AddProxyStep, MovesOfImport, InsertStep
<1>2. ASSUME NEW c \in Checks, Begin(c) \/ Alive(c) \/ Failed(c) \/ Count(c) \/ GiveUp(c)
      PROVE IInv'
    BY <1>2, ReadStep, AliveStep, CountStep
<1>3. CASE UNCHANGED vars
    BY <1>3 DEF vars, IInv, TypeOK, Ids, RowsOfImports, RowsOfChecks, CountIsTrue, SeenIsTrue,
                ChecksDecide, Ids
<1> QED BY <1>1, <1>2, <1>3 DEF Next

LEMMA Invariance == Spec => []IInv
BY InitIInv, StepIInv, PTL DEF Spec

\* The tables and the tools are of their types; a session refers to a row of the
\* proxies, or to none (accounts/models.py).
THEOREM StoreTypeCorrect == Spec => []TypeOK
<1>1. IInv => TypeOK
    BY DEF IInv
<1> QED BY <1>1, Invariance, PTL

\* A proxy is deactivated after FailLimit failures and never before, and in
\* step with its last checks unless checks overlap (proxy_manager.py:36-53).
THEOREM ProxyVerdicts == Spec => []ChecksDecide
<1>1. IInv => ChecksDecide
    BY DEF IInv
<1> QED BY <1>1, Invariance, PTL

\* No import, repeated, broken or beside an other, moves a session to an other
\* proxy or removes it (accounts/service.py).
THEOREM ProxyIsForLife == Spec => SessionKeepsItsProxy
<1>1. [Next]_vars => [\A phone \in DOMAIN sessions :
                        phone \in DOMAIN sessions' /\ sessions'[phone] = sessions[phone]]_vars
  <2> SUFFICES ASSUME [Next]_vars, NEW phone \in DOMAIN sessions
               PROVE  phone \in DOMAIN sessions' /\ sessions'[phone] = sessions[phone]
      OBVIOUS
  <2>1. CASE UNCHANGED sessions
      BY <2>1
  <2>2. ASSUME NEW i \in Imports, Insert(i)
        PROVE  phone \in DOMAIN sessions' /\ sessions'[phone] = sessions[phone]
      BY <2>2 DEF Insert
  <2> QED BY <2>1, <2>2
          DEF Next, vars, AddProxy, Skip, LookUp, Finish, Die, Begin, Alive, Failed, Count, GiveUp
<1> QED BY <1>1, PTL DEF Spec, SessionKeepsItsProxy



---------------------------------------------------------------------------
(* The load of the proxies. An import deals its own proxies in turn to the  *)
(* accounts it can read, so the proxy of an account follows from the number *)
(* of readable accounts before it, its rank, whichever import inserts it.   *)

Readable    == Phones \ Unreadable
Rank(phone) == Cardinality({ph \in Readable : ph < phone})
Seat(phone) == (Rank(phone) % Lines) + 1

\* Where a folder import stands: it has drawn one proxy for every readable account
\* before this one, and this one's is that of its seat.
InStep(r) ==
    /\ r.pc = "running" => /\ r.drawn = Rank(r.phone)
                           /\ Len(r.mine) < Lines => r.phone = 1
    /\ r.pc = "inserting" => /\ Len(r.mine) = Lines
                             /\ r.phone \in Readable
                             /\ r.drawn = Rank(r.phone) + 1
                             /\ Lines > 0 => r.proxy = r.mine[Seat(r.phone)]
                             /\ Lines = 0 => r.proxy = 0

\* The rows that imports add are new, and those of one are not those of an other.
MinesApart ==
    /\ \A i \in FolderImports :
          /\ Len(import[i].mine) <= Lines
          /\ \A k \in DOMAIN import[i].mine : import[i].mine[k] > OldProxies
    /\ \A i, j \in FolderImports : \A k \in DOMAIN import[i].mine, l \in DOMAIN import[j].mine :
          import[i].mine[k] = import[j].mine[l] => i = j /\ k = l

\* Some import has dealt the proxy p to the account, from the account's seat.
Dealt(phone, p) ==
    /\ phone \in Readable
    /\ Lines > 0
    /\ \E i \in FolderImports : /\ Len(import[i].mine) = Lines
                                /\ import[i].mine[Seat(phone)] = p

SpreadInv ==
    /\ MinesApart
    /\ \A i \in FolderImports : InStep(import[i])
    /\ \A i \in FileImports : import[i].proxy <= OldProxies
    /\ \A phone \in DOMAIN sessions : sessions[phone] > OldProxies => Dealt(phone, sessions[phone])
    /\ Len(proxies) > OldProxies => Lines > 0

\* What division leaves; the provers have it for numbers, not for terms.
LEMMA Division ==
    ASSUME NEW a \in Int, NEW b \in Int, b > 0
    PROVE  /\ a \div b \in Int /\ a % b \in 0 .. b - 1
           /\ a = b * (a \div b) + (a % b)
OBVIOUS

\* Of two multiples of b the lesser is of the lesser factor.
LEMMA ProductOrder ==
    ASSUME NEW b \in Int, b > 0, NEW q \in Int, NEW c \in Int, b * q < b * c
    PROVE  q < c
<1> SUFFICES ASSUME c <= q PROVE FALSE
    OBVIOUS
<1>1. b * c <= b * q
    OBVIOUS
<1> QED BY <1>1

\* The readable accounts, and any of them, are finitely many.
LEMMA ReadableIsFinite ==
    /\ IsFiniteSet(Readable) /\ Readable \subseteq Nat
    /\ \A S \in SUBSET Readable : IsFiniteSet(S) /\ Cardinality(S) \in Nat
<1>1. NumPhones \in Nat /\ 1 \in Int
    BY SizesAssumption
<1>2. IsFiniteSet(Phones)
    BY <1>1, FS_Interval DEF Phones
<1>3. Readable \subseteq Phones /\ Phones \subseteq Nat
    BY <1>1 DEF Readable, Phones
<1>4. IsFiniteSet(Readable)
    BY <1>2, <1>3, FS_Subset
<1> QED BY <1>3, <1>4, FS_Subset, FS_CardinalityType

\* An account that can be read raises the ranks of those after it by one ...
LEMMA RankOfNext ==
    ASSUME NEW phone \in Nat
    PROVE  /\ Rank(phone) \in Nat
           /\ Rank(phone + 1) = IF phone \in Readable THEN Rank(phone) + 1 ELSE Rank(phone)
<1> DEFINE Before(ph) == {q \in Readable : q < ph}
<1>1. IsFiniteSet(Before(phone)) /\ Cardinality(Before(phone)) \in Nat
    BY ReadableIsFinite
<1>2. phone \notin Before(phone)
    OBVIOUS
<1>5. \A q \in Readable : (q < phone + 1) <=> (q < phone \/ q = phone)
  <2>1. \A q \in Nat : (q < phone + 1) <=> (q < phone \/ q = phone)
      OBVIOUS
  <2> QED BY <2>1, ReadableIsFinite
<1>3. CASE phone \in Readable
  <2>1. Before(phone + 1) = Before(phone) \cup {phone}
      BY <1>3, <1>5
  <2>2. Cardinality(Before(phone + 1)) = Cardinality(Before(phone)) + 1
      BY <1>1, <1>2, <2>1, FS_AddElement
  <2> QED BY <1>1, <1>3, <2>2 DEF Rank
<1>4. CASE phone \notin Readable
  <2>1. Before(phone + 1) = Before(phone)
      BY <1>4, <1>5
  <2> QED BY <1>1, <1>4, <2>1 DEF Rank
<1> QED BY <1>3, <1>4

\* ... beginning with zero ...
LEMMA RankOfFirst == Rank(1) = 0
<1>1. {ph \in Readable : ph < 1} = {}
    BY SizesAssumption DEF Readable, Phones
<1> QED BY <1>1, FS_EmptySet DEF Rank

\* ... so that ranks are in the order of the accounts ...
LEMMA RankOrder ==
    ASSUME NEW one \in Readable, NEW other \in Readable, one < other
    PROVE  Rank(one) < Rank(other)
<1> DEFINE Before(ph) == {q \in Readable : q < ph}
<1>1. /\ IsFiniteSet(Before(one)) /\ Cardinality(Before(one)) \in Nat
      /\ IsFiniteSet(Before(other)) /\ Cardinality(Before(other)) \in Nat
    BY ReadableIsFinite
<1>2. one \notin Before(one) /\ Before(one) \cup {one} \subseteq Before(other)
  <2>1. Readable \subseteq Nat /\ one \in Nat /\ other \in Nat
      BY ReadableIsFinite
  <2>2. \A q \in Nat : q < one => q < other
      BY <2>1
  <2>3. one \notin Before(one) /\ one \in Before(other)
      BY <2>1
  <2>4. Before(one) \subseteq Before(other)
      BY <2>1, <2>2
  <2> QED BY <2>3, <2>4
<1>3. Cardinality(Before(one) \cup {one}) = Cardinality(Before(one)) + 1
    BY <1>1, <1>2, FS_AddElement
<1>4. Cardinality(Before(one) \cup {one}) <= Cardinality(Before(other))
    BY <1>1, <1>2, FS_Subset
<1>5. Cardinality(Before(one)) < Cardinality(Before(other))
    BY <1>1, <1>3, <1>4
<1> QED BY <1>5 DEF Rank

\* ... and below the number of readable accounts.
LEMMA RankBound ==
    ASSUME NEW phone \in Readable
    PROVE  Rank(phone) < Cardinality(Readable)
<1> DEFINE Before == {q \in Readable : q < phone}
<1>1. /\ IsFiniteSet(Before) /\ Cardinality(Before) \in Nat
      /\ IsFiniteSet(Readable) /\ Cardinality(Readable) \in Nat
    BY ReadableIsFinite
<1>2. phone \notin Before /\ Before \cup {phone} \subseteq Readable
    BY ReadableIsFinite
<1>3. Cardinality(Before \cup {phone}) = Cardinality(Before) + 1
    BY <1>1, <1>2, FS_AddElement
<1>4. Cardinality(Before \cup {phone}) <= Cardinality(Readable)
    BY <1>1, <1>2, FS_Subset
<1>5. Cardinality(Before) < Cardinality(Readable)
    BY <1>1, <1>3, <1>4
<1> QED BY <1>5 DEF Rank

\* The place in the cycle over the proxies is one of them.
LEMMA SeatIsInRange ==
    ASSUME Lines > 0, NEW phone \in Readable
    PROVE  Seat(phone) \in 1 .. Lines
<1>1. Rank(phone) \in Nat /\ Lines \in Int
    BY RankOfNext, ReadableIsFinite, SizesAssumption
<1>2. Rank(phone) % Lines \in 0 .. Lines - 1
    BY <1>1, Division
<1> QED BY <1>1, <1>2 DEF Seat

\* A step of an import that keeps its list of proxies.
LEMMA SpreadStep ==
    ASSUME IInv, SpreadInv, NEW i \in Imports, NEW r \in ImportStates,
           import' = [import EXCEPT ![i] = r], r.mine = import[i].mine, proxies' = proxies,
           i \in FolderImports => InStep(r),
           i \in FileImports => r.proxy <= OldProxies,
           \A phone \in DOMAIN sessions' :
               sessions'[phone] > OldProxies => Dealt(phone, sessions'[phone])
    PROVE  SpreadInv'
<1>1. /\ import'[i] = r
      /\ \A j \in Imports \ {i} : import'[j] = import[j]
      /\ \A j \in Imports : import'[j].mine = import[j].mine
    BY DEF IInv, TypeOK
<1>2. FolderImports \subseteq Imports /\ FileImports \subseteq Imports
    BY DEF Imports
<1>3. MinesApart'
    BY <1>1, <1>2 DEF SpreadInv, MinesApart
<1>4. \A j \in FolderImports : InStep(import'[j])
    BY <1>1, <1>2 DEF SpreadInv
<1>5. \A j \in FileImports : import'[j].proxy <= OldProxies
    BY <1>1, <1>2 DEF SpreadInv
<1>6. (\A phone \in DOMAIN sessions : sessions[phone] > OldProxies => Dealt(phone, sessions[phone]))'
    BY <1>1, <1>2 DEF Dealt
<1>7. (Len(proxies) > OldProxies => Lines > 0)'
    BY DEF SpreadInv
<1> QED BY <1>3, <1>4, <1>5, <1>6, <1>7 DEF SpreadInv, InStep

\* The steps of a tool, one by one.
LEMMA AddProxySpread ==
    ASSUME IInv, SpreadInv, NEW i \in Imports, AddProxy(i)
    PROVE  SpreadInv'
<1> DEFINE n == Len(proxies) + 1
           mine == import[i].mine
<1>1. /\ i \in FolderImports /\ import[i].pc = "running" /\ Len(mine) < Lines
      /\ import' = [import EXCEPT ![i].mine = Append(@, n)]
      /\ proxies' = Append(proxies, NewRow) /\ sessions' = sessions
    BY DEF AddProxy
<1>2. /\ import \in [Imports -> ImportStates] /\ Len(proxies) \in Nat /\ proxies \in Seq(Row)
      /\ Ids = 1 .. Len(proxies) /\ Lines \in Nat /\ OldProxies \in Nat /\ OldProxies < n
    BY SizesAssumption DEF IInv, TypeOK, ImportStates, Ids
<1>3. FolderImports \subseteq Imports /\ FileImports \subseteq Imports
      /\ i \notin FileImports
    BY <1>1, ProcessAssumption DEF Imports
<1>4. /\ import'[i].mine = Append(mine, n) /\ import'[i].pc = "running"
      /\ import'[i].drawn = import[i].drawn /\ import'[i].phone = import[i].phone
      /\ \A j \in Imports \ {i} : import'[j] = import[j]
    BY <1>1, <1>2 DEF ImportStates
<1>5. \A j \in Imports : import[j].mine \in Seq(Ids) /\ Len(import[j].mine) \in Nat
    BY <1>2 DEF IInv, RowsOfImports
<1>6. /\ Len(Append(mine, n)) = Len(mine) + 1 /\ DOMAIN Append(mine, n) = 1 .. Len(mine) + 1
      /\ DOMAIN mine = 1 .. Len(mine)
      /\ \A k \in DOMAIN mine : Append(mine, n)[k] = mine[k]
      /\ Append(mine, n)[Len(mine) + 1] = n
  <2>1. mine \in Seq(Ids)
      BY <1>5
  <2>2. mine \in Seq(Nat)
      BY <1>2 DEF ImportStates
  <2> QED BY <1>2, <2>2
<1>7. \A j \in Imports : \A k \in DOMAIN import[j].mine : import[j].mine[k] \in Ids /\ import[j].mine[k] # n
    BY <1>2, <1>5
<1>8. MinesApart'
  <2>1. ASSUME NEW j \in FolderImports
        PROVE  /\ Len(import'[j].mine) <= Lines
               /\ \A k \in DOMAIN import'[j].mine : import'[j].mine[k] > OldProxies
    <3>1. CASE j = i
      <4>1. \A k \in DOMAIN mine : mine[k] > OldProxies
          BY <1>1 DEF SpreadInv, MinesApart
      <4>2. Len(mine) \in Nat
          BY <1>5
      <4>3. ASSUME NEW k \in 1 .. Len(mine) + 1
            PROVE  Append(mine, n)[k] > OldProxies
        <5>1. CASE k = Len(mine) + 1
            BY <1>2, <1>6, <5>1
        <5>2. CASE k \in DOMAIN mine
            BY <1>6, <4>1, <5>2
        <5> QED BY <1>6, <4>2, <5>1, <5>2
      <4> QED BY <1>1, <1>2, <1>4, <1>6, <3>1, <4>2, <4>3
    <3>2. CASE j # i
        BY <1>3, <1>4, <3>2 DEF SpreadInv, MinesApart
    <3> QED BY <3>1, <3>2
  <2>2. ASSUME NEW j \in FolderImports, NEW k \in DOMAIN import'[j].mine
        PROVE  \/ k \in DOMAIN import[j].mine /\ import'[j].mine[k] = import[j].mine[k]
               \/ j = i /\ k = Len(mine) + 1 /\ import'[j].mine[k] = n
    <3>1. CASE j = i
      <4>1. k \in 1 .. Len(mine) + 1 /\ Len(mine) \in Nat
          BY <1>4, <1>5, <1>6, <3>1
      <4>2. k \in 1 .. Len(mine) \/ k = Len(mine) + 1
          BY <4>1
      <4> QED BY <1>4, <1>6, <3>1, <4>2
    <3>2. CASE j # i
        BY <1>3, <1>4, <3>2
    <3> QED BY <3>1, <3>2
  <2>3. ASSUME NEW a \in FolderImports, NEW b \in FolderImports,
               NEW k \in DOMAIN import'[a].mine, NEW l \in DOMAIN import'[b].mine,
               import'[a].mine[k] = import'[b].mine[l]
        PROVE  a = b /\ k = l
    <3>1. CASE k \in DOMAIN import[a].mine /\ l \in DOMAIN import[b].mine
               /\ import'[a].mine[k] = import[a].mine[k] /\ import'[b].mine[l] = import[b].mine[l]
      <4>1. import[a].mine[k] = import[b].mine[l]
          BY <2>3, <3>1
      <4> QED BY <3>1, <4>1 DEF SpreadInv, MinesApart
    <3> QED BY <1>3, <1>7, <2>2, <2>3, <3>1
  <2> QED BY <2>1, <2>3 DEF MinesApart
<1>9. ASSUME NEW j \in FolderImports
      PROVE  InStep(import'[j])
  <2>1. CASE j = i
    <3>1. import[i].drawn = Rank(import[i].phone) /\ import[i].phone = 1
        BY <1>1 DEF SpreadInv, InStep
    <3> QED BY <1>4, <2>1, <3>1 DEF InStep
  <2>2. CASE j # i
      BY <1>3, <1>4, <2>2 DEF SpreadInv
  <2> QED BY <2>1, <2>2
<1>10. \A j \in FileImports : import'[j].proxy <= OldProxies
    BY <1>3, <1>4 DEF SpreadInv
<1>11. ASSUME NEW phone \in DOMAIN sessions, sessions[phone] > OldProxies
       PROVE  Dealt(phone, sessions[phone])'
  <2>1. Dealt(phone, sessions[phone])
      BY <1>11 DEF SpreadInv
  <2>2. PICK j \in FolderImports : /\ Len(import[j].mine) = Lines
                                   /\ import[j].mine[Seat(phone)] = sessions[phone]
      BY <2>1 DEF Dealt
  <2>3. j # i
      BY <1>1, <1>2, <1>5, <2>2
  <2>4. import'[j] = import[j]
      BY <1>3, <1>4, <2>3
  <2> QED BY <1>1, <2>1, <2>2, <2>4 DEF Dealt
<1>12. Lines > 0
    BY <1>1, <1>2, <1>5
<1> QED BY <1>1, <1>8, <1>9, <1>10, <1>11, <1>12 DEF SpreadInv, InStep

LEMMA MovesSpread ==
    ASSUME IInv, SpreadInv, NEW i \in Imports, Skip(i) \/ Finish(i) \/ Die(i)
    PROVE  SpreadInv'
<1>1. /\ import[i] \in ImportStates /\ UNCHANGED <<proxies, sessions>>
      /\ i \in FolderImports => InStep(import[i])
      /\ i \in FileImports => import[i].proxy <= OldProxies
    BY DEF IInv, TypeOK, ImportStates, SpreadInv, Skip, Finish, Die
<1>2. \A phone \in DOMAIN sessions' :
          sessions'[phone] > OldProxies => Dealt(phone, sessions'[phone])
    BY <1>1 DEF SpreadInv
<1>3. CASE Skip(i)
  <2> DEFINE r == [import[i] EXCEPT !.phone = @ + 1]
  <2>1. import' = [import EXCEPT ![i] = r]
      BY <1>3 DEF Skip, IInv, TypeOK
  <2>2. import[i].phone \in Nat /\ import[i].phone + 1 \in Nat
      BY <1>1 DEF ImportStates
  <2>3. r \in ImportStates
      BY <1>1, <2>2 DEF ImportStates
  <2>4. /\ r.pc = "running" /\ r.mine = import[i].mine /\ r.proxy = import[i].proxy
        /\ r.phone = import[i].phone + 1 /\ r.drawn = import[i].drawn
      BY <1>1, <1>3 DEF ImportStates, Skip
  <2>5. /\ i \in FolderImports /\ i \notin FileImports /\ import[i].phone \notin Readable
        /\ import[i].pc = "running" /\ Len(import[i].mine) = Lines
      BY <1>3, ProcessAssumption DEF Skip, ProxiesAdded, Readable
  <2>6. import[i].drawn = Rank(import[i].phone + 1)
      BY <1>1, <2>2, <2>5, RankOfNext DEF InStep
  <2>7. ~(Len(r.mine) < Lines)
      BY <2>4, <2>5, SizesAssumption
  <2>8. InStep(r)
      BY <2>4, <2>6, <2>7 DEF InStep
  <2> HIDE DEF r
  <2> QED BY <1>1, <1>2, <2>1, <2>3, <2>4, <2>5, <2>8, SpreadStep
<1>4. CASE Finish(i) \/ Die(i)
  <2>1. PICK pc \in {"done", "dead"} : import' = [import EXCEPT ![i].pc = pc]
      BY <1>4 DEF Finish, Die
  <2> DEFINE r == [import[i] EXCEPT !.pc = pc]
  <2>2. import' = [import EXCEPT ![i] = r]
      BY <2>1 DEF IInv, TypeOK
  <2>3. r \in ImportStates /\ r.pc = pc /\ r.mine = import[i].mine /\ r.proxy = import[i].proxy
      BY <1>1 DEF ImportStates
  <2>4. InStep(r)
      BY <2>3 DEF InStep
  <2> HIDE DEF r
  <2> QED BY <1>1, <1>2, <2>2, <2>3, <2>4, SpreadStep
<1> QED BY <1>3, <1>4

\* What an import draws for an account is the proxy of the account's seat.
LEMMA LookUpSpread ==
    ASSUME IInv, SpreadInv, NEW i \in Imports, LookUp(i)
    PROVE  SpreadInv'
<1> DEFINE mine == import[i].mine
           phone == import[i].phone
           r == [import[i] EXCEPT !.pc = "inserting", !.drawn = @ + 1, !.proxy = Draw(i),
                                  !.exists = phone \in DOMAIN sessions]
<1>1. /\ import[i] \in ImportStates /\ import[i].pc = "running" /\ ProxiesAdded(i)
      /\ phone \in Phones /\ (i \in FolderImports => phone \in Readable)
      /\ UNCHANGED <<proxies, sessions>>
    BY DEF IInv, TypeOK, ImportStates, LookUp, Readable
<1>2. import' = [import EXCEPT ![i] = r]
    BY DEF LookUp, IInv, TypeOK
<1>3. Draw(i) \in Nat /\ import[i].drawn + 1 \in Nat
  <2>1. Draw(i) \in Ids \cup {0}
      BY <1>1, DrawnIsRow
  <2> QED BY <1>1, <2>1 DEF IInv, TypeOK, Ids, ImportStates
<1>4. r \in ImportStates
  <2>1. PICK known \in BOOLEAN : known = (phone \in DOMAIN sessions)
    <3>1. (phone \in DOMAIN sessions) \in BOOLEAN
        OBVIOUS
    <3> QED BY <3>1
  <2> QED BY <1>1, <1>3, <2>1 DEF ImportStates
<1>5. /\ r.pc = "inserting" /\ r.mine = mine /\ r.phone = phone /\ r.proxy = Draw(i)
      /\ r.drawn = import[i].drawn + 1
    BY <1>1 DEF ImportStates
<1>6. ASSUME i \in FileImports
      PROVE  Draw(i) <= OldProxies
  <2>1. Draw(i) = Given[phone]
      BY <1>6 DEF Draw
  <2>2. Given[phone] \in 0 .. OldProxies /\ OldProxies \in Nat
      BY <1>1, InputAssumption, SizesAssumption
  <2> QED BY <2>1, <2>2
<1>7. ASSUME i \in FolderImports
      PROVE  InStep(r)
  <2>1. i \notin FileImports /\ Len(mine) = Lines /\ Lines \in Nat /\ phone \in Readable
      BY <1>1, <1>7, ProcessAssumption, SizesAssumption DEF ProxiesAdded
  <2>2. import[i].drawn = Rank(phone)
      BY <1>1, <1>7 DEF SpreadInv, InStep
  <2>3. mine \in Seq(Nat)
      BY <1>1 DEF ImportStates
  <2>4. Lines > 0 => Draw(i) = mine[Seat(phone)]
      BY <2>1, <2>2, <2>3 DEF Draw, Seat
  <2>5. Lines = 0 => Draw(i) = 0
    <3>1. ASSUME Lines = 0
          PROVE  mine = <<>>
        BY <2>1, <2>3, <3>1
    <3> QED BY <2>1, <3>1 DEF Draw
  <2> HIDE DEF r
  <2> QED BY <1>5, <2>1, <2>2, <2>4, <2>5 DEF InStep
<1>8. \A ph \in DOMAIN sessions' : sessions'[ph] > OldProxies => Dealt(ph, sessions'[ph])
    BY <1>1 DEF SpreadInv
<1> HIDE DEF r
<1> QED BY <1>1, <1>2, <1>4, <1>5, <1>6, <1>7, <1>8, SpreadStep

LEMMA InsertSpread ==
    ASSUME IInv, SpreadInv, NEW i \in Imports, Insert(i)
    PROVE  SpreadInv'
<1> DEFINE phone == import[i].phone
<1>1. /\ import[i] \in ImportStates /\ import[i].pc = "inserting" /\ proxies' = proxies
      /\ phone \in Phones /\ phone \in Nat
    BY DEF IInv, TypeOK, ImportStates, RowsOfImports, Insert
<1>2. i \in FolderImports => InStep(import[i])
    BY DEF SpreadInv
<1>3. i \in FileImports => import[i].proxy <= OldProxies
    BY DEF SpreadInv
<1>4. import[i].proxy > OldProxies => Dealt(phone, import[i].proxy)
  <2> SUFFICES ASSUME import[i].proxy > OldProxies
               PROVE  Dealt(phone, import[i].proxy)
      OBVIOUS
  <2>1. import[i].proxy \in Nat /\ OldProxies \in Nat /\ Lines \in Nat
      BY <1>1, SizesAssumption DEF ImportStates
  <2>2. i \in FolderImports
      BY <1>3, <2>1 DEF Imports
  <2>3. Lines > 0
      BY <1>1, <1>2, <2>1, <2>2 DEF InStep
  <2> QED BY <1>1, <1>2, <2>2, <2>3 DEF InStep, Dealt
<1>5. ASSUME NEW ph \in DOMAIN sessions', sessions'[ph] > OldProxies
      PROVE  Dealt(ph, sessions'[ph])
  <2>1. CASE sessions' = sessions
      BY <1>5, <2>1 DEF SpreadInv
  <2>2. CASE sessions' = [q \in DOMAIN sessions \cup {phone} |->
                            IF q = phone THEN import[i].proxy ELSE sessions[q]]
    <3>1. CASE ph = phone
        BY <1>4, <1>5, <2>2, <3>1
    <3>2. CASE ph # phone
        BY <1>5, <2>2, <3>2 DEF SpreadInv
    <3> QED BY <3>1, <3>2
  <2> QED BY <2>1, <2>2 DEF Insert
<1>6. CASE import' = [import EXCEPT ![i].pc = "dead"]
  <2> DEFINE r == [import[i] EXCEPT !.pc = "dead"]
  <2>1. import' = [import EXCEPT ![i] = r]
      BY <1>6 DEF IInv, TypeOK
  <2>2. r \in ImportStates /\ r.pc = "dead" /\ r.mine = import[i].mine /\ r.proxy = import[i].proxy
      BY <1>1 DEF ImportStates
  <2>3. InStep(r)
      BY <2>2 DEF InStep
  <2> HIDE DEF r
  <2> QED BY <1>1, <1>3, <1>5, <2>1, <2>2, <2>3, SpreadStep
<1>7. CASE import' = [import EXCEPT ![i].pc = "running", ![i].phone = @ + 1]
  <2> DEFINE r == [import[i] EXCEPT !.pc = "running", !.phone = @ + 1]
  <2>1. import' = [import EXCEPT ![i] = r]
      BY <1>7 DEF IInv, TypeOK
  <2>2. phone + 1 \in Nat
      BY <1>1
  <2>3. r \in ImportStates
      BY <1>1, <2>2 DEF ImportStates
  <2>4. /\ r.pc = "running" /\ r.mine = import[i].mine /\ r.proxy = import[i].proxy
        /\ r.phone = phone + 1 /\ r.drawn = import[i].drawn
      BY <1>1 DEF ImportStates
  <2> HIDE DEF r
  <2>5. ASSUME i \in FolderImports
        PROVE  InStep(r)
    <3>1. phone \in Readable /\ Len(import[i].mine) = Lines /\ import[i].drawn = Rank(phone) + 1
        BY <1>1, <1>2, <2>5 DEF InStep
    <3>2. Rank(phone + 1) = Rank(phone) + 1
        BY <1>1, <3>1, RankOfNext
    <3>3. ~(Len(r.mine) < Lines)
        BY <2>4, <3>1, SizesAssumption
    <3> QED BY <2>4, <3>1, <3>2, <3>3 DEF InStep
  <2> QED BY <1>1, <1>3, <1>5, <2>1, <2>3, <2>4, <2>5, SpreadStep
<1> QED BY <1>6, <1>7 DEF Insert

\* SpreadInv is inductive, given IInv.
LEMMA InitSpread == Init => SpreadInv
<1> SUFFICES ASSUME Init PROVE SpreadInv
    OBVIOUS
<1>1. OldProxies \in Nat /\ Lines \in Nat
    BY SizesAssumption
<1>2. Len(proxies) = OldProxies /\ DOMAIN sessions = {}
  <2>1. sessions = <<>>
      BY DEF Init
  <2> QED BY <1>1, <2>1 DEF Init
<1>3. \A i \in Imports : /\ import[i].mine = <<>> /\ import[i].proxy = 0 /\ import[i].drawn = 0
                         /\ import[i].phone = 1 /\ import[i].pc \in {"off", "running"}
    BY DEF Init
<1>4. FolderImports \subseteq Imports /\ FileImports \subseteq Imports
    BY DEF Imports
<1>5. MinesApart
  <2>1. Len(<<>>) = 0 /\ DOMAIN <<>> = {}
      OBVIOUS
  <2>2. \A i \in FolderImports : Len(import[i].mine) <= Lines /\ DOMAIN import[i].mine = {}
      BY <1>1, <1>3, <1>4, <2>1
  <2> QED BY <2>2 DEF MinesApart
<1>6. \A i \in FolderImports : InStep(import[i])
    BY <1>3, <1>4, RankOfFirst DEF InStep
<1> QED BY <1>1, <1>2, <1>3, <1>4, <1>5, <1>6 DEF SpreadInv

LEMMA StepSpread == IInv /\ SpreadInv /\ [Next]_vars => SpreadInv'
<1> SUFFICES ASSUME IInv, SpreadInv, [Next]_vars PROVE SpreadInv'
    OBVIOUS
<1>1. ASSUME NEW i \in Imports, AddProxy(i) \/ Skip(i) \/ LookUp(i) \/ Insert(i) \/ Finish(i) \/ Die(i)
      PROVE SpreadInv'
    BY <1>1, AddProxySpread, MovesSpread, LookUpSpread, InsertSpread
<1>2. ASSUME UNCHANGED <<import, sessions>>, Len(proxies') = Len(proxies)
      PROVE  SpreadInv'
    BY <1>2 DEF SpreadInv, MinesApart, InStep, Dealt
<1>3. ASSUME NEW c \in Checks, Begin(c) \/ Alive(c) \/ Failed(c) \/ Count(c) \/ GiveUp(c)
      PROVE  SpreadInv'
  <2>1. UNCHANGED <<import, sessions>>
      BY <1>3 DEF Begin, Alive, Failed, Count, GiveUp
  <2>2. proxies \in Seq(Row)
      BY DEF IInv, TypeOK
  <2>3. \A p, row : Len([proxies EXCEPT ![p] = row]) = Len(proxies)
      BY <2>2
  <2>4. CASE Begin(c) \/ Failed(c) \/ GiveUp(c)
    <3>1. proxies' = proxies
        BY <2>4 DEF Begin, Failed, GiveUp
    <3> QED BY <1>2, <2>1, <3>1
  <2>5. CASE Alive(c)
    <3>1. proxies' = [proxies EXCEPT ![check[c].at] = NewRow]
        BY <2>5 DEF Alive
    <3> QED BY <1>2, <2>1, <2>3, <3>1
  <2>6. CASE Count(c)
    <3> DEFINE p == check[c].at
               seen == check[c].seen
               row == [proxies[p] EXCEPT !.fails = seen.fails + 1,
                                         !.active = @ /\ ~(AtLimit(seen) /\ seen.active)]
    <3>1. proxies' = [proxies EXCEPT ![p] = row]
        BY <2>6 DEF Count
    <3> HIDE DEF row
    <3>2. Len(proxies') = Len(proxies)
        BY <2>3, <3>1
    <3> QED BY <1>2, <2>1, <3>2
  <2> QED BY <1>3, <2>4, <2>5, <2>6
<1>4. CASE UNCHANGED vars
    BY <1>2, <1>4 DEF vars
<1> QED BY <1>1, <1>3, <1>4 DEF Next

\* Two accounts of a proxy have the same seat, so their ranks differ by a
\* multiple of Lines: the quotient tells them apart.
LEMMA SpreadIsEven == IInv /\ SpreadInv => LoadIsSpread
<1> SUFFICES ASSUME IInv, SpreadInv, NEW p \in Ids, p > OldProxies
             PROVE  Cardinality({phone \in DOMAIN sessions : sessions[phone] = p})
                        <= -((-Cardinality(Phones \ Unreadable)) \div Lines)
    BY DEF LoadIsSpread
<1> DEFINE S == {phone \in DOMAIN sessions : sessions[phone] = p}
           n == Cardinality(Readable)
           share == -((-n) \div Lines)
           round == [phone \in S |-> Rank(phone) \div Lines]
<1>1. Lines \in Int /\ Lines > 0 /\ OldProxies \in Nat
  <2>1. p \in 1 .. Len(proxies) /\ Len(proxies) \in Nat /\ OldProxies \in Nat /\ Lines \in Nat
      BY SizesAssumption DEF IInv, TypeOK, Ids
  <2>2. Len(proxies) > OldProxies
      BY <2>1
  <2> QED BY <2>1, <2>2 DEF SpreadInv
<1>2. n \in Nat /\ S \subseteq Readable /\ Readable \subseteq Nat
  <2>1. S \subseteq Readable
      BY DEF SpreadInv, Dealt
  <2> QED BY <2>1, ReadableIsFinite
<1>3. share \in Int /\ n <= Lines * share /\ share >= 0
  <2> DEFINE q == (-n) \div Lines
  <2>1. -n \in Int
      BY <1>2
  <2>2. q \in Int /\ (-n) % Lines \in 0 .. Lines - 1 /\ -n = Lines * q + ((-n) % Lines)
      BY <1>1, <2>1, Division
  <2> HIDE DEF q
  <2>3. Lines * q <= -n
      BY <1>1, <1>2, <2>2
  <2>4. Lines * q = -(Lines * (-q))
      BY <1>1, <2>2
  <2>5. n <= Lines * (-q)
      BY <1>1, <1>2, <2>2, <2>3, <2>4
  <2>6. -q >= 0
    <3>1. Lines * q < Lines * 1
        BY <1>1, <1>2, <2>2, <2>3
    <3>2. q < 1
        BY <1>1, <2>2, <3>1, ProductOrder
    <3> QED BY <2>2, <3>2
  <2>7. share = -q
      BY DEF q
  <2> QED BY <2>2, <2>5, <2>6, <2>7
<1>4. ASSUME NEW phone \in S
      PROVE  /\ Rank(phone) \in Nat /\ Rank(phone) \div Lines \in 0 .. share - 1
             /\ Rank(phone) = Lines * (Rank(phone) \div Lines) + (Rank(phone) % Lines)
             /\ Rank(phone) % Lines \in 0 .. Lines - 1
  <2>1. Rank(phone) \in Nat /\ Rank(phone) < n
      BY <1>2, RankOfNext, RankBound
  <2>2. Rank(phone) \in Int
      BY <2>1
  <2>3. /\ Rank(phone) \div Lines \in Int /\ Rank(phone) % Lines \in 0 .. Lines - 1
        /\ Rank(phone) = Lines * (Rank(phone) \div Lines) + (Rank(phone) % Lines)
      BY <1>1, <2>2, Division
  <2> DEFINE q == Rank(phone) \div Lines
  <2>4. Lines * q < Lines * share
      BY <1>1, <1>2, <1>3, <2>1, <2>3
  <2>5. q < share
      BY <1>1, <1>3, <2>3, <2>4, ProductOrder
  <2>6. Lines * (-1) < Lines * q
      BY <1>1, <2>1, <2>3
  <2>7. -1 < q
      BY <1>1, <2>3, <2>6, ProductOrder
  <2> QED BY <1>3, <2>1, <2>3, <2>5, <2>7
<1>5. ASSUME NEW one \in S, NEW other \in S, round[one] = round[other]
      PROVE  one = other
  <2>1. Dealt(one, p) /\ Dealt(other, p)
      BY DEF SpreadInv
  <2>2. PICK i \in FolderImports : Len(import[i].mine) = Lines /\ import[i].mine[Seat(one)] = p
      BY <2>1 DEF Dealt
  <2>3. PICK j \in FolderImports : Len(import[j].mine) = Lines /\ import[j].mine[Seat(other)] = p
      BY <2>1 DEF Dealt
  <2>4. Seat(one) \in DOMAIN import[i].mine /\ Seat(other) \in DOMAIN import[j].mine
    <3>1. Seat(one) \in 1 .. Lines /\ Seat(other) \in 1 .. Lines
        BY <1>1, <2>1, SeatIsInRange DEF Dealt
    <3>2. import[i].mine \in Seq(Nat) /\ import[j].mine \in Seq(Nat)
        BY DEF IInv, TypeOK, Imports
    <3> QED BY <2>2, <2>3, <3>1, <3>2
  <2>5. Seat(one) = Seat(other)
      BY <2>2, <2>3, <2>4 DEF SpreadInv, MinesApart
  <2>6. Rank(one) % Lines = Rank(other) % Lines
      BY <1>1, <1>4, <2>5 DEF Seat
  <2>7. Rank(one) \div Lines = Rank(other) \div Lines
      BY <1>5
  <2>8. Rank(one) = Rank(other)
      BY <1>4, <2>6, <2>7
  <2>9. Rank(one) \in Nat /\ Rank(other) \in Nat /\ one \in Nat /\ other \in Nat
      BY <1>2, <1>4
  <2>10. ~(one < other) /\ ~(other < one)
      BY <1>2, <2>8, <2>9, RankOrder
  <2> QED BY <2>9, <2>10
<1>6. round \in Injection(S, 0 .. share - 1)
  <2>1. round \in [S -> 0 .. share - 1]
      BY <1>4
  <2> QED BY <1>5, <2>1 DEF Injection, IsInjective
<1>7. IsFiniteSet(0 .. share - 1) /\ Cardinality(0 .. share - 1) = share
  <2>1. IsFiniteSet(0 .. share - 1)
        /\ Cardinality(0 .. share - 1) = IF 0 > share - 1 THEN 0 ELSE (share - 1) - 0 + 1
      BY <1>3, FS_Interval
  <2> QED BY <1>3, <2>1
<1>8. Cardinality(S) <= share
    BY <1>6, <1>7, FS_Injection
<1> QED BY <1>8 DEF Readable

\* No proxy of a folder is given to more than its share of the accounts, however
\* imports are repeated, broken off and run beside each other
\* (import_accounts.py: proxy_cycle; accounts/service.py:import_session).
THEOREM ProxiesShareTheLoad == Spec => []LoadIsSpread
<1>1. Spec => []SpreadInv
    BY InitSpread, StepSpread, Invariance, PTL DEF Spec
<1> QED BY <1>1, SpreadIsEven, Invariance, PTL

===========================================================================
