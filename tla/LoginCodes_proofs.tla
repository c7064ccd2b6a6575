--------------------------- MODULE LoginCodes_proofs ---------------------------
(***************************************************************************)
(* The one-time codes, for any mobiles, businesses, calls under way and    *)
(* numbers of codes, attempts and crashes.                                 *)
(***************************************************************************)
EXTENDS LoginCodes, FiniteSetTheorems, TLAPS

Ops == {"none", "sign in", "claim", "set number", "verify number"}
Ats == {"idle", "find", "lock out", "count attempt", "spend", "issue", "mark"}

-----------------------------------------------------------------------------
(* Types *)

\* What every call under way has been given.
Wired(c) ==
    /\ c.op # "none" => c.mobile \in Mobiles
    /\ c.op \in {"set number", "verify number"} => c.business \in Businesses
    /\ c.at \in {"spend", "mark"} => c.record \in Ids
    /\ c.at \in {"spend", "find"} => c.op \in {"sign in", "claim", "verify number"}
    /\ c.at = "mark" => c.op = "verify number"
    /\ c.at \in {"lock out", "count attempt"} => c.op = "sign in"
    /\ c.at = "count attempt" => c.latest # 0
    /\ c.at = "issue" => c.op = "set number"
AllWired == \A h \in Handlers : Wired(call[h])

\* A row that has not been sent yet is known to nobody.
Unsent(i) ==
    /\ otp[i] = NoRow /\ guesses[i] = 0 /\ honoured[i] = 0
    /\ \A h \in Handlers : call[h].latest # i /\ call[h].record # i
NoneAhead == \A i \in Ids : i > issued => Unsent(i)

Well == TypeOK /\ AllWired /\ NoneAhead

LEMMA Constants ==
  /\ MaxRows \in Nat /\ MaxOtpAttempts \in Nat /\ MaxCrashes \in Nat
  /\ Ids \subseteq MaybeId /\ Ids \subseteq Nat /\ MaybeId \subseteq Nat
  /\ \A i \in MaybeId : i # 0 => i \in Ids
  /\ 0 \in MaybeId /\ 0 \notin Ids
  /\ Idle \in Call /\ NoRow \notin Row
  /\ \A m \in Mobiles : m # None
BY CodesAssumption DEF Ids, MaybeId, Idle, Call, NoRow, Row, CodesAssumption

LEMMA InitWell == Init => Well
<1> SUFFICES ASSUME Init PROVE Well
  OBVIOUS
<1>1. TypeOK
  BY Constants DEF Init, TypeOK
<1>2. AllWired
  BY DEF Init, AllWired, Wired, Idle
<1>3. NoneAhead
  BY Constants DEF Init, NoneAhead, Unsent, Idle
<1> QED
  BY <1>1, <1>2, <1>3 DEF Well

\* The table of codes after a deletion or a new row.
LEMMA Deleted ==
  ASSUME TypeOK, NEW m
  PROVE  /\ Without(m) \in [Ids -> Row \cup {NoRow}]
         /\ \A i \in Ids : Without(m)[i] = IF otp[i].mobile = m THEN NoRow ELSE otp[i]
BY DEF TypeOK, Without

LEMMA Issued ==
  ASSUME TypeOK, NEW m \in Mobiles, NEW c \in Codes, Issue(m, c)
  PROVE  /\ otp' \in [Ids -> Row \cup {NoRow}] /\ issued' \in MaybeId /\ issued' = issued + 1
         /\ issued' \in Ids
         /\ otp'[issued'].mobile = m /\ otp'[issued'].attempts = 0 /\ otp'[issued'] \in Row
         /\ \A i \in Ids : i # issued' => otp'[i] = otp[i]
<1>1. issued' = issued + 1 /\ issued' \in Ids /\ issued' \in MaybeId
  BY Constants DEF TypeOK, Issue, Ids, MaybeId
<1>2. [mobile |-> m, code |-> c, attempts |-> 0, expired |-> FALSE] \in Row
  BY DEF Row
<1> QED
  BY <1>1, <1>2 DEF TypeOK, Issue

\* A call that moves on keeps what it knows of rows that were sent.
LEMMA Moves ==
  ASSUME Well, NEW h \in Handlers, NEW c \in Call, Wired(c),
         call' = [call EXCEPT ![h] = c],
         \A i \in Ids : i > issued => c.latest # i /\ c.record # i,
         UNCHANGED <<otp, issued, guesses, honoured>>
  PROVE  call' \in [Handlers -> Call] /\ AllWired' /\ NoneAhead'
<1>1. /\ call' \in [Handlers -> Call] /\ call'[h] = c
      /\ \A g \in Handlers : g # h => call'[g] = call[g]
  BY DEF Well, TypeOK
<1>2. AllWired'
  BY <1>1 DEF Well, AllWired, Wired
<1>3. NoneAhead'
  BY <1>1 DEF Well, NoneAhead, Unsent
<1> QED
  BY <1>1, <1>2, <1>3

\* A call that ends.
LEMMA Ends ==
  ASSUME Well, NEW h \in Handlers, Return(h)
  PROVE  /\ call' \in [Handlers -> Call] /\ call'[h] = Idle /\ AllWired'
         /\ \A g \in Handlers : g # h => call'[g] = call[g]
<1>1. /\ call' \in [Handlers -> Call] /\ call'[h] = Idle
      /\ \A g \in Handlers : g # h => call'[g] = call[g]
  BY Constants DEF Well, TypeOK, Return
<1>2. Wired(Idle)
  BY DEF Wired, Idle
<1>3. AllWired'
  BY <1>1, <1>2 DEF Well, AllWired, Wired
<1> QED
  BY <1>1, <1>3

\* Rows that nobody can hold are not created by clearing or counting.
LEMMA NoneAheadKept ==
  ASSUME Well, call' \in [Handlers -> Call], issued' = issued,
         \A i \in Ids : i > issued => otp'[i] = NoRow /\ guesses'[i] = 0 /\ honoured'[i] = 0,
         \A h \in Handlers : call'[h] = call[h] \/ call'[h] = Idle
                              \/ (call'[h].latest = call[h].latest /\ call'[h].record = call[h].record)
  PROVE  NoneAhead'
<1>1. \A i \in Ids, h \in Handlers : i > issued => call'[h].latest # i /\ call'[h].record # i
  <2> SUFFICES ASSUME NEW i \in Ids, NEW h \in Handlers, i > issued
               PROVE  call'[h].latest # i /\ call'[h].record # i
    OBVIOUS
  <2>1. call[h].latest # i /\ call[h].record # i
    BY DEF Well, NoneAhead, Unsent
  <2>2. Idle.latest # i /\ Idle.record # i
    BY Constants DEF Idle
  <2> QED
    BY <2>1, <2>2
<1> QED
  BY <1>1 DEF NoneAhead, Unsent

LEMMA SendOtpWell == ASSUME Well, NEW m \in Mobiles, SendOtp(m) PROVE Well'
<1>1. PICK c \in Codes : Issue(m, c)
  BY DEF SendOtp, Codes
<1>2. UNCHANGED <<number, verified, call, history>>
  BY DEF SendOtp
<1>3. TypeOK'
  BY <1>1, <1>2, Issued DEF Well, TypeOK, history
<1>4. AllWired'
  BY <1>2 DEF Well, AllWired, Wired
<1>5. NoneAhead'
  BY <1>1, <1>2, Issued, Constants DEF Well, TypeOK, NoneAhead, Unsent, history
<1> QED
  BY <1>3, <1>4, <1>5 DEF Well

LEMMA IssueNumberCodeWell == ASSUME Well, NEW h \in Handlers, IssueNumberCode(h) PROVE Well'
<1>1. call[h].mobile \in Mobiles
  BY DEF IssueNumberCode, At, Well, AllWired, Wired
<1>2. PICK c \in Codes : Issue(call[h].mobile, c)
  BY DEF IssueNumberCode, Codes
<1>3. Return(h) /\ UNCHANGED <<number, verified, history>>
  BY DEF IssueNumberCode
<1>4. TypeOK'
  BY <1>1, <1>2, <1>3, Issued, Ends DEF Well, TypeOK, history
<1>5. NoneAhead'
  <2>1. \A i \in Ids, g \in Handlers : i > issued => call'[g].latest # i /\ call'[g].record # i
    <3>1. \A i \in Ids : Idle.latest # i /\ Idle.record # i
      BY Constants DEF Idle
    <3> QED
      BY <1>3, <3>1, Ends DEF Well, NoneAhead, Unsent
  <2>2. UNCHANGED <<guesses, honoured>>
    BY <1>3 DEF history
  <2> QED
    BY <1>1, <1>2, <2>1, <2>2, Issued, Constants DEF Well, TypeOK, NoneAhead, Unsent
<1> QED
  BY <1>3, <1>4, <1>5, Ends DEF Well

LEMMA ExpireWell == ASSUME Well, NEW i \in Ids, Expire(i) PROVE Well'
<1>1. /\ otp[i] # NoRow /\ otp' = [otp EXCEPT ![i] = [otp[i] EXCEPT !.expired = TRUE]]
      /\ UNCHANGED <<issued, number, verified, call, history>>
  BY DEF Expire
<1>2. otp[i] \in Row
  BY <1>1 DEF Well, TypeOK
<1>3. [otp[i] EXCEPT !.expired = TRUE] \in Row
  BY <1>2 DEF Row
<1>4. TypeOK'
  BY <1>1, <1>3 DEF Well, TypeOK, history
<1>5. AllWired'
  BY <1>1 DEF Well, AllWired, Wired
<1>6. NoneAhead'
  BY <1>1 DEF Well, TypeOK, NoneAhead, Unsent, history
<1> QED
  BY <1>4, <1>5, <1>6 DEF Well

LEMMA ReplaceTypes ==
  ASSUME Well, NEW b \in Businesses, NEW n \in Mobiles \cup {None}, Replace(b, n)
  PROVE  /\ number' \in [Businesses -> Mobiles \cup {None}] /\ verified' \in [Businesses -> BOOLEAN]
         /\ replaced' \subseteq Businesses
         /\ UNCHANGED <<guesses, honoured, raced, proved, crashes>>
BY DEF Replace, Well, TypeOK

LEMMA RevertNumberWell == ASSUME Well, NEW b \in Businesses, RevertNumber(b) PROVE Well'
<1>1. Replace(b, None) /\ UNCHANGED <<otp, issued, call>>
  BY DEF RevertNumber
<1>2. TypeOK'
  BY <1>1, ReplaceTypes DEF Well, TypeOK
<1>3. AllWired' /\ NoneAhead'
  BY <1>1, ReplaceTypes DEF Well, AllWired, Wired, NoneAhead, Unsent
<1> QED
  BY <1>2, <1>3 DEF Well

LEMMA SetNumberWell == ASSUME Well, NEW h \in Handlers, SetNumber(h) PROVE Well'
<1>1. PICK b \in Businesses, n \in Mobiles :
        /\ Replace(b, n)
        /\ call' = [call EXCEPT ![h] = [Idle EXCEPT !.op = "set number", !.at = "issue",
                                                   !.mobile = n, !.business = b]]
  BY DEF SetNumber
<1>2. UNCHANGED <<otp, issued>>
  BY DEF SetNumber
<1> DEFINE c == [Idle EXCEPT !.op = "set number", !.at = "issue", !.mobile = n, !.business = b]
<1>3. c \in Call /\ Wired(c) /\ c.latest = 0 /\ c.record = 0
  BY Constants DEF Call, Wired, Idle
<1> HIDE DEF c
<1>4. call' = [call EXCEPT ![h] = c]
  BY <1>1 DEF c
<1>5. UNCHANGED <<guesses, honoured>>
  BY <1>1 DEF Replace
<1>6. call' \in [Handlers -> Call] /\ AllWired' /\ NoneAhead'
  BY <1>2, <1>3, <1>4, <1>5, Constants, Moves
<1>7. TypeOK'
  BY <1>1, <1>2, <1>6, ReplaceTypes DEF Well, TypeOK
<1> QED
  BY <1>6, <1>7 DEF Well

LEMMA SignInWell == ASSUME Well, NEW h \in Handlers, SignIn(h) PROVE Well'
<1>1. PICK m \in Mobiles, c \in ShortCodes, i \in MaybeId :
        /\ IsLatest(i, RowsOf(m))
        /\ call' = [call EXCEPT ![h] =
                      [Idle EXCEPT !.op = "sign in", !.mobile = m, !.code = c, !.latest = i,
                                   !.at = IF LockedOut(i) THEN "lock out" ELSE "find"]]
  BY DEF SignIn
<1> DEFINE d == [Idle EXCEPT !.op = "sign in", !.mobile = m, !.code = c, !.latest = i,
                             !.at = IF LockedOut(i) THEN "lock out" ELSE "find"]
<1>2. UNCHANGED <<tables, history>>
  BY DEF SignIn
<1>3. d \in Call /\ Wired(d) /\ d.latest = i /\ d.record = 0
  BY Constants DEF Call, Wired, Idle, Codes
<1>4. \A j \in Ids : j > issued => j # i
  <2> SUFFICES ASSUME i \in Ids, i > issued PROVE FALSE
    OBVIOUS
  <2>1. otp[i].mobile = None
    BY DEF Well, NoneAhead, Unsent, NoRow
  <2>2. i \notin RowsOf(m)
    BY <2>1, Constants DEF RowsOf
  <2> QED
    BY <1>1, <2>2, Constants DEF IsLatest
<1> HIDE DEF d
<1>5. call' = [call EXCEPT ![h] = d]
  BY <1>1 DEF d
<1>6. call' \in [Handlers -> Call] /\ AllWired' /\ NoneAhead'
  BY <1>2, <1>3, <1>4, <1>5, Constants, Moves DEF tables, history
<1>7. TypeOK'
  BY <1>2, <1>6 DEF Well, TypeOK, tables, history
<1> QED
  BY <1>6, <1>7 DEF Well

LEMMA EnterClaimCodeWell == ASSUME Well, NEW h \in Handlers, EnterClaimCode(h) PROVE Well'
<1>1. PICK m \in Mobiles, c \in ShortCodes :
        call' = [call EXCEPT ![h] = [Idle EXCEPT !.op = "claim", !.mobile = m, !.code = c,
                                                !.at = "find"]]
  BY DEF EnterClaimCode
<1> DEFINE d == [Idle EXCEPT !.op = "claim", !.mobile = m, !.code = c, !.at = "find"]
<1>2. UNCHANGED <<tables, history>>
  BY DEF EnterClaimCode
<1>3. d \in Call /\ Wired(d) /\ d.latest = 0 /\ d.record = 0
  BY Constants DEF Call, Wired, Idle, Codes
<1> HIDE DEF d
<1>5. call' = [call EXCEPT ![h] = d]
  BY <1>1 DEF d
<1>6. call' \in [Handlers -> Call] /\ AllWired' /\ NoneAhead'
  BY <1>2, <1>3, <1>5, Constants, Moves DEF tables, history
<1>7. TypeOK'
  BY <1>2, <1>6 DEF Well, TypeOK, tables, history
<1> QED
  BY <1>6, <1>7 DEF Well

LEMMA VerifyNumberWell == ASSUME Well, NEW h \in Handlers, VerifyNumber(h) PROVE Well'
<1>1. PICK b \in Businesses, c \in LongCodes :
        /\ number[b] # None
        /\ call' = [call EXCEPT ![h] = [Idle EXCEPT !.op = "verify number", !.at = "find",
                                                   !.mobile = number[b], !.code = c,
                                                   !.business = b]]
  BY DEF VerifyNumber
<1> DEFINE d == [Idle EXCEPT !.op = "verify number", !.at = "find", !.mobile = number[b],
                             !.code = c, !.business = b]
<1>2. UNCHANGED <<tables, history>>
  BY DEF VerifyNumber
<1>3. number[b] \in Mobiles
  BY <1>1 DEF Well, TypeOK
<1>4. d \in Call /\ Wired(d) /\ d.latest = 0 /\ d.record = 0
  BY <1>3, Constants DEF Call, Wired, Idle, Codes
<1> HIDE DEF d
<1>5. call' = [call EXCEPT ![h] = d]
  BY <1>1 DEF d
<1>6. call' \in [Handlers -> Call] /\ AllWired' /\ NoneAhead'
  BY <1>2, <1>4, <1>5, Constants, Moves DEF tables, history
<1>7. TypeOK'
  BY <1>2, <1>6 DEF Well, TypeOK, tables, history
<1> QED
  BY <1>6, <1>7 DEF Well

\* A row a call accepts is one of its mobile, and there.
LEMMA Accepted ==
  ASSUME Well, NEW h \in Handlers, NEW i \in Ids, Accepts(h, i),
         At(h, {"sign in", "claim", "verify number"}, "find")
  PROVE  /\ otp[i] \in Row /\ otp[i].mobile = call[h].mobile /\ call[h].mobile \in Mobiles
         /\ ~(i > issued)
<1>1. i \in Matching(h)
  BY Constants DEF Accepts, IsLatest
<1>2. otp[i].mobile = call[h].mobile /\ call[h].mobile \in Mobiles
  BY <1>1 DEF Matching, RowsOf, At, Well, AllWired, Wired
<1>3. otp[i].mobile # None /\ NoRow.mobile = None
  BY <1>2, Constants DEF NoRow
<1>4. otp[i] # NoRow
  BY <1>3
<1> QED
  BY <1>2, <1>4 DEF Well, TypeOK, NoneAhead, Unsent

LEMMA LetThroughWell == ASSUME Well, NEW h \in Handlers, LetThrough(h) PROVE Well'
<1>1. PICK i \in Ids :
        /\ Accepts(h, i)
        /\ call' = [call EXCEPT ![h].at = "spend", ![h].record = i]
        /\ raced' = raced \cup
             {j \in {i} : \E g \in Handlers : call[g].at = "spend" /\ call[g].record = j}
        /\ proved' = proved \cup
             {p \in {<<call[h].business, otp[i].mobile>>} : call[h].op = "verify number"}
  BY DEF LetThrough
<1>2. /\ At(h, {"sign in", "claim", "verify number"}, "find")
      /\ UNCHANGED <<tables, guesses, honoured, replaced, crashes>>
  BY DEF LetThrough
<1> DEFINE d == [call[h] EXCEPT !.at = "spend", !.record = i]
<1>3. call[h] \in Call /\ Wired(call[h])
  BY DEF Well, TypeOK, AllWired
<1>4. /\ d \in Call /\ d.latest = call[h].latest /\ d.record = i /\ d.at = "spend"
      /\ d.op = call[h].op /\ d.mobile = call[h].mobile /\ d.business = call[h].business
  BY <1>3, Constants DEF Call
<1>5. call' = [call EXCEPT ![h] = d]
  BY <1>1
<1> HIDE DEF d
<1>6. Wired(d)
  BY <1>2, <1>3, <1>4 DEF Wired, At
<1>7. \A j \in Ids : j > issued => d.latest # j /\ d.record # j
  BY <1>1, <1>2, <1>4, Accepted DEF Well, NoneAhead, Unsent
<1>8. call' \in [Handlers -> Call] /\ AllWired' /\ NoneAhead'
  BY <1>2, <1>4, <1>5, <1>6, <1>7, Moves DEF tables
<1>9. raced' \subseteq Ids
  BY <1>1 DEF Well, TypeOK
<1>10. proved' \subseteq Businesses \X Mobiles
  <2>1. call[h].op = "verify number" => call[h].business \in Businesses /\ otp[i].mobile \in Mobiles
    BY <1>1, <1>2, <1>3, Accepted DEF Wired
  <2>2. proved \subseteq Businesses \X Mobiles
    BY DEF Well, TypeOK
  <2>3. CASE call[h].op = "verify number"
    <3>1. proved' = proved \cup {<<call[h].business, otp[i].mobile>>}
      BY <1>1, <2>3
    <3>2. <<call[h].business, otp[i].mobile>> \in Businesses \X Mobiles
      BY <2>1, <2>3
    <3> QED
      BY <2>2, <3>1, <3>2
  <2>4. CASE call[h].op # "verify number"
    <3>1. proved' = proved
      BY <1>1, <2>4
    <3> QED
      BY <2>2, <3>1
  <2> QED
    BY <2>3, <2>4
<1>11. TypeOK'
  BY <1>2, <1>8, <1>9, <1>10 DEF Well, TypeOK, tables
<1> QED
  BY <1>8, <1>11 DEF Well

LEMMA GiveUpWell == ASSUME Well, NEW h \in Handlers, GiveUp(h) PROVE Well'
<1>1. Return(h) /\ UNCHANGED <<tables, history>>
  BY DEF GiveUp
<1>2. TypeOK'
  BY <1>1, Ends DEF Well, TypeOK, tables, history
<1>3. NoneAhead'
  BY <1>1, Ends, NoneAheadKept DEF tables, history, Well, NoneAhead, Unsent
<1> QED
  BY <1>1, <1>2, <1>3, Ends DEF Well

LEMMA MarkVerifiedWell == ASSUME Well, NEW h \in Handlers, MarkVerified(h) PROVE Well'
<1>1. /\ Return(h) /\ UNCHANGED <<otp, issued, number, history>>
      /\ verified' = [verified EXCEPT ![call[h].business] = TRUE]
  BY DEF MarkVerified
<1>2. TypeOK'
  BY <1>1, Ends DEF Well, TypeOK, history
<1>3. NoneAhead'
  BY <1>1, Ends, NoneAheadKept DEF history, Well, NoneAhead, Unsent
<1> QED
  BY <1>1, <1>2, <1>3, Ends DEF Well

LEMMA LockOutWell == ASSUME Well, NEW h \in Handlers, LockOut(h) PROVE Well'
<1>1. Return(h) /\ otp' = Without(call[h].mobile) /\ UNCHANGED <<issued, number, verified, history>>
  BY DEF LockOut, DeleteRows
<1>2. TypeOK'
  BY <1>1, Ends, Deleted DEF Well, TypeOK, history
<1>3. NoneAhead'
  BY <1>1, Ends, Deleted, NoneAheadKept DEF history, Well, NoneAhead, Unsent
<1> QED
  BY <1>1, <1>2, <1>3, Ends DEF Well

\* What a call does after it has cleared the rows.
LEMMA SpendMoves ==
  ASSUME Well, NEW h \in Handlers, Spend(h)
  PROVE  /\ call' \in [Handlers -> Call] /\ AllWired'
         /\ \A g \in Handlers : g # h => call'[g] = call[g]
         /\ \/ call'[h] = Idle
            \/ /\ call[h].op = "verify number" /\ call'[h].at = "mark"
               /\ call'[h].op = "verify number" /\ call'[h].mobile = call[h].mobile
               /\ call'[h].business = call[h].business
               /\ call'[h].latest = call[h].latest /\ call'[h].record = call[h].record
<1>1. CASE call[h].op = "verify number"
  <2>1. call' = [call EXCEPT ![h] = [call[h] EXCEPT !.at = "mark"]]
    BY <1>1 DEF Spend, Goto
  <2>2. call[h] \in Call /\ Wired(call[h]) /\ call[h].at = "spend"
    BY DEF Well, TypeOK, AllWired, Spend, At
  <2> DEFINE d == [call[h] EXCEPT !.at = "mark"]
  <2>3. /\ d \in Call /\ d.at = "mark" /\ d.op = "verify number" /\ d.mobile = call[h].mobile
        /\ d.business = call[h].business /\ d.latest = call[h].latest /\ d.record = call[h].record
    BY <1>1, <2>2 DEF Call
  <2> HIDE DEF d
  <2>4. call' = [call EXCEPT ![h] = d]
    BY <2>1 DEF d
  <2>5. call' \in [Handlers -> Call] /\ call'[h] = d /\ \A g \in Handlers : g # h => call'[g] = call[g]
    BY <2>3, <2>4 DEF Well, TypeOK
  <2>6. Wired(d)
    BY <1>1, <2>2, <2>3 DEF Wired
  <2>7. AllWired'
    BY <2>5, <2>6 DEF Well, AllWired, Wired
  <2> QED
    BY <1>1, <2>3, <2>5, <2>7
<1>2. CASE call[h].op # "verify number"
  BY <1>2, Ends DEF Spend
<1> QED
  BY <1>1, <1>2

LEMMA SpendWell == ASSUME Well, NEW h \in Handlers, Spend(h) PROVE Well'
<1>1. /\ otp' = Without(call[h].mobile) /\ honoured' = [honoured EXCEPT ![call[h].record] = @ + 1]
      /\ UNCHANGED <<issued, number, verified, guesses, raced, proved, replaced, crashes>>
  BY DEF Spend, DeleteRows
<1>2. call[h].record \in Ids
  BY DEF Spend, At, Well, AllWired, Wired
<1>3. TypeOK'
  <2>1. honoured' \in [Ids -> Nat]
    BY <1>1, <1>2 DEF Well, TypeOK
  <2>2. otp' \in [Ids -> Row \cup {NoRow}]
    BY <1>1, Deleted DEF Well
  <2> QED
    BY <1>1, <2>1, <2>2, SpendMoves DEF Well, TypeOK
<1>4. \A i \in Ids : i > issued => otp'[i] = NoRow /\ guesses'[i] = 0 /\ honoured'[i] = 0
  BY <1>1, Deleted DEF Well, TypeOK, NoneAhead, Unsent
<1>5. NoneAhead'
  BY <1>1, <1>4, SpendMoves, NoneAheadKept
<1> QED
  BY <1>3, <1>5, SpendMoves DEF Well

LEMMA RefuseMoves ==
  ASSUME Well, NEW h \in Handlers, Refuse(h)
  PROVE  /\ call' \in [Handlers -> Call] /\ AllWired'
         /\ \A g \in Handlers : g # h => call'[g] = call[g]
         /\ call[h].op = "sign in" /\ call[h].at = "find"
         /\ \/ call[h].latest = 0 /\ call'[h] = Idle
            \/ /\ call[h].latest # 0 /\ call'[h].at = "count attempt"
               /\ call'[h].op = "sign in" /\ call'[h].mobile = call[h].mobile
               /\ call'[h].latest = call[h].latest /\ call'[h].record = call[h].record
<1>0. call[h].op = "sign in" /\ call[h].at = "find"
  BY DEF Refuse, At
<1>1. CASE call[h].latest # 0
  <2>1. call' = [call EXCEPT ![h] = [call[h] EXCEPT !.at = "count attempt"]]
    BY <1>1 DEF Refuse, Goto
  <2>2. call[h] \in Call /\ Wired(call[h])
    BY DEF Well, TypeOK, AllWired
  <2> DEFINE d == [call[h] EXCEPT !.at = "count attempt"]
  <2>3. /\ d \in Call /\ d.at = "count attempt" /\ d.op = "sign in" /\ d.mobile = call[h].mobile
        /\ d.latest = call[h].latest /\ d.record = call[h].record
    BY <1>0, <2>2 DEF Call
  <2> HIDE DEF d
  <2>4. call' = [call EXCEPT ![h] = d]
    BY <2>1 DEF d
  <2>5. call' \in [Handlers -> Call] /\ call'[h] = d /\ \A g \in Handlers : g # h => call'[g] = call[g]
    BY <2>3, <2>4 DEF Well, TypeOK
  <2>6. Wired(d)
    BY <1>0, <1>1, <2>2, <2>3 DEF Wired
  <2>7. AllWired'
    BY <2>5, <2>6 DEF Well, AllWired, Wired
  <2> QED
    BY <1>0, <1>1, <2>3, <2>5, <2>7
<1>2. CASE call[h].latest = 0
  BY <1>0, <1>2, Ends DEF Refuse
<1> QED
  BY <1>1, <1>2

LEMMA RefuseWell == ASSUME Well, NEW h \in Handlers, Refuse(h) PROVE Well'
<1>1. /\ guesses' = [i \in Ids |-> guesses[i] + (IF i = call[h].latest THEN 1 ELSE 0)]
      /\ UNCHANGED <<tables, honoured, raced, proved, replaced, crashes>>
  BY DEF Refuse
<1>2. guesses' \in [Ids -> Nat]
  BY <1>1 DEF Well, TypeOK
<1>3. TypeOK'
  BY <1>1, <1>2, RefuseMoves DEF Well, TypeOK, tables
<1>4. \A i \in Ids : i > issued => otp'[i] = NoRow /\ guesses'[i] = 0 /\ honoured'[i] = 0
  BY <1>1 DEF Well, TypeOK, NoneAhead, Unsent, tables
<1>5. NoneAhead'
  BY <1>1, <1>4, RefuseMoves, NoneAheadKept DEF tables
<1> QED
  BY <1>3, <1>5, RefuseMoves DEF Well

\* A count lands on the row it is meant for, if that is still there.
LEMMA Counts ==
  ASSUME Well, NEW h \in Handlers, CountAttempt(h)
  PROVE  /\ otp' \in [Ids -> Row \cup {NoRow}] /\ call[h].latest \in Ids
         /\ \A i \in Ids : /\ (otp'[i] = NoRow <=> otp[i] = NoRow)
                           /\ otp'[i].mobile = otp[i].mobile
                           /\ otp[i] # NoRow =>
                                otp'[i].attempts = otp[i].attempts
                                                     + (IF i = call[h].latest THEN 1 ELSE 0)
<1> DEFINE l == call[h].latest
<1>1. l \in Ids
  BY Constants DEF CountAttempt, At, Well, TypeOK, AllWired, Wired, Call
<1>2. \A i \in Ids : otp[i] # NoRow => otp[i].attempts \in Nat
  BY DEF Well, TypeOK, Row
<1>3. CASE otp[l] = NoRow
  <2>1. otp' = otp
    BY <1>3 DEF CountAttempt
  <2>2. \A i \in Ids : otp[i] # NoRow => i # l /\ otp[i].attempts + 0 = otp[i].attempts
    BY <1>2, <1>3
  <2>3. \A i \in Ids : otp[i] # NoRow =>
          otp[i].attempts = otp[i].attempts + (IF i = l THEN 1 ELSE 0)
    BY <2>2
  <2> QED
    BY <1>1, <2>1, <2>3 DEF Well, TypeOK
<1>4. CASE otp[l] # NoRow
  <2>1. otp' = [otp EXCEPT ![l] = [otp[l] EXCEPT !.attempts = otp[l].attempts + 1]]
    BY <1>4 DEF CountAttempt
  <2>2. otp[l] \in Row
    BY <1>1, <1>4 DEF Well, TypeOK
  <2> DEFINE r == [otp[l] EXCEPT !.attempts = otp[l].attempts + 1]
  <2>3. r \in Row /\ r.mobile = otp[l].mobile /\ r.attempts = otp[l].attempts + 1
    BY <2>2 DEF Row
  <2> HIDE DEF r
  <2>4. otp' = [otp EXCEPT ![l] = r]
    BY <2>1 DEF r
  <2> QED
    BY <1>1, <1>2, <1>4, <2>3, <2>4, Constants DEF Well, TypeOK
<1> QED
  BY <1>3, <1>4

LEMMA CountAttemptWell == ASSUME Well, NEW h \in Handlers, CountAttempt(h) PROVE Well'
<1>1. Return(h) /\ UNCHANGED <<issued, number, verified, history>>
  BY DEF CountAttempt
<1>2. TypeOK'
  BY <1>1, Ends, Counts DEF Well, TypeOK, history
<1>3. \A i \in Ids : i > issued => otp'[i] = NoRow /\ guesses'[i] = 0 /\ honoured'[i] = 0
  BY <1>1, Counts DEF Well, NoneAhead, Unsent, history
<1>4. NoneAhead'
  BY <1>1, <1>3, Ends, NoneAheadKept
<1> QED
  BY <1>1, <1>2, <1>4, Ends DEF Well

LEMMA CrashWell == ASSUME Well, Crash PROVE Well'
<1>1. /\ call' = [h \in Handlers |-> Idle] /\ crashes' = crashes + 1 /\ crashes < MaxCrashes
      /\ UNCHANGED <<tables, guesses, honoured, raced, proved, replaced>>
  BY DEF Crash
<1>2. TypeOK'
  BY <1>1, Constants DEF Well, TypeOK, tables
<1>3. AllWired'
  BY <1>1 DEF AllWired, Wired, Idle
<1>4. NoneAhead'
  BY <1>1, Constants DEF Well, NoneAhead, Unsent, tables, Idle
<1> QED
  BY <1>2, <1>3, <1>4 DEF Well

LEMMA WellKept == ASSUME Well, [Next]_vars PROVE Well'
<1>1. CASE UNCHANGED vars
  BY <1>1 DEF vars, tables, history, Well, TypeOK, AllWired, Wired, NoneAhead, Unsent
<1>2. CASE Next
  BY <1>2, SendOtpWell, ExpireWell, RevertNumberWell, CrashWell, SignInWell, LockOutWell,
     LetThroughWell, RefuseWell, CountAttemptWell, SpendWell, EnterClaimCodeWell, GiveUpWell,
     SetNumberWell, IssueNumberCodeWell, VerifyNumberWell, MarkVerifiedWell
     DEF Next, Step
<1> QED
  BY <1>1, <1>2
\* Types, what each call has been given and the unsent rows.
LEMMA AlwaysWell == Spec => []Well
<1>1. Init => Well
  BY InitWell
<1>2. Well /\ [Next]_vars => Well'
  BY WellKept
<1> QED
  BY <1>1, <1>2, PTL DEF Spec

\* TypeOK: every table and every call keeps its type, whatever is sent,
\* entered and cleared (auth.service.ts, claim-request.service.ts,
\* business.service.ts).
THEOREM TypeCorrect == Spec => []TypeOK
<1>1. Well => TypeOK
  BY DEF Well
<1> QED
  BY <1>1, AlwaysWell, PTL

-----------------------------------------------------------------------------
(* CodeSpentOnce *)

Spending(h, i) == call[h].at = "spend" /\ call[h].record = i

\* A call let through by a row will clear it with its mobile's; a row that
\* let one through is gone, and nobody else is about to be.
HeldRows == \A h \in Handlers, i \in Ids :
              Spending(h, i) => otp[i] = NoRow \/ otp[i].mobile = call[h].mobile
SpentRows == \A i \in Ids : honoured[i] # 0 => otp[i] = NoRow
Pairs == \A g, h \in Handlers, i \in Ids :
           g # h /\ Spending(g, i) /\ Spending(h, i) => i \in raced
Alone == \A i \in Ids : i \notin raced /\ honoured[i] # 0 =>
           honoured[i] = 1 /\ \A h \in Handlers : ~Spending(h, i)
Once == HeldRows /\ SpentRows /\ Pairs /\ Alone

\* What any step does to a row: it clears it, keeps its mobile or sends it.
LEMMA RowsKept ==
  ASSUME Well, Next, NEW i \in Ids
  PROVE  \/ otp'[i] = NoRow
         \/ otp[i] # NoRow /\ otp'[i].mobile = otp[i].mobile
         \/ i > issued
<1>0. otp' = otp \/ otp # otp'
  OBVIOUS
<1>1. CASE otp' = otp
  BY <1>1
<1>2. ASSUME NEW m \in Mobiles, NEW c \in Codes, Issue(m, c)
      PROVE  i > issued \/ otp'[i] = otp[i]
  BY <1>2, Issued, Constants DEF Well, TypeOK
<1>3. ASSUME NEW m \in Mobiles, SendOtp(m)
      PROVE  i > issued \/ otp'[i] = otp[i]
  BY <1>2, <1>3 DEF SendOtp, Codes
<1>4. ASSUME NEW h \in Handlers, IssueNumberCode(h)
      PROVE  i > issued \/ otp'[i] = otp[i]
  BY <1>2, <1>4 DEF IssueNumberCode, Codes, At, Well, AllWired, Wired
<1>5. ASSUME NEW j \in Ids, Expire(j)
      PROVE  otp'[i] = otp[i] \/ (otp[i] # NoRow /\ otp'[i].mobile = otp[i].mobile)
  <2>1. otp[j] # NoRow /\ otp' = [otp EXCEPT ![j] = [otp[j] EXCEPT !.expired = TRUE]]
    BY <1>5 DEF Expire
  <2>2. otp[j] \in Row
    BY <2>1 DEF Well, TypeOK
  <2>3. [otp[j] EXCEPT !.expired = TRUE].mobile = otp[j].mobile
    BY <2>2 DEF Row
  <2> QED
    BY <2>1, <2>3 DEF Well, TypeOK
<1>6. ASSUME NEW h \in Handlers, LockOut(h) \/ Spend(h)
      PROVE  otp'[i] = NoRow \/ otp'[i] = otp[i]
  <2>1. otp' = Without(call[h].mobile)
    BY <1>6 DEF LockOut, Spend, DeleteRows
  <2>2. Without(call[h].mobile)[i] = IF otp[i].mobile = call[h].mobile THEN NoRow ELSE otp[i]
    BY Deleted DEF Well
  <2> QED
    BY <2>1, <2>2
<1>7. ASSUME NEW h \in Handlers, CountAttempt(h)
      PROVE  otp'[i] = NoRow \/ (otp[i] # NoRow /\ otp'[i].mobile = otp[i].mobile)
  BY <1>7, Counts
<1>8. ASSUME NEW h \in Handlers,
             \/ SignIn(h) \/ LetThrough(h) \/ Refuse(h) \/ EnterClaimCode(h) \/ GiveUp(h)
             \/ SetNumber(h) \/ VerifyNumber(h) \/ MarkVerified(h)
      PROVE  otp' = otp
  BY <1>8 DEF SignIn, LetThrough, Refuse, EnterClaimCode, GiveUp, SetNumber, VerifyNumber,
     MarkVerified, tables
<1>9. ASSUME Crash \/ \E b \in Businesses : RevertNumber(b)
      PROVE  otp' = otp
  BY <1>9 DEF Crash, RevertNumber, tables
<1>10. otp'[i] = otp[i] => otp'[i] = NoRow \/ (otp[i] # NoRow /\ otp'[i].mobile = otp[i].mobile)
  OBVIOUS
<1> QED
  BY <1>1, <1>3, <1>4, <1>5, <1>6, <1>7, <1>8, <1>9, <1>10 DEF Next, Step

\* The calls a step begins or ends.
Others(h) == \A g \in Handlers : g # h => call'[g] = call[g]

LEMMA Begun ==
  ASSUME Well, NEW h \in Handlers,
         SignIn(h) \/ EnterClaimCode(h) \/ SetNumber(h) \/ VerifyNumber(h)
  PROVE  /\ Others(h) /\ call[h].at = "idle" /\ call[h].op = "none"
         /\ call'[h].at \in {"lock out", "find", "issue"}
<1>1. call[h].at = "idle" /\ call[h].op = "none"
  BY DEF SignIn, EnterClaimCode, SetNumber, VerifyNumber, At
<1>2. ASSUME NEW d, call' = [call EXCEPT ![h] = d]
      PROVE  Others(h) /\ call'[h] = d
  BY <1>2 DEF Others, Well, TypeOK
<1>3. CASE SignIn(h)
  <2>1. PICK m \in Mobiles, c \in ShortCodes, i \in MaybeId :
          call' = [call EXCEPT ![h] =
                     [Idle EXCEPT !.op = "sign in", !.mobile = m, !.code = c, !.latest = i,
                                  !.at = IF LockedOut(i) THEN "lock out" ELSE "find"]]
    BY <1>3 DEF SignIn
  <2> DEFINE d == [Idle EXCEPT !.op = "sign in", !.mobile = m, !.code = c, !.latest = i,
                               !.at = IF LockedOut(i) THEN "lock out" ELSE "find"]
  <2>2. d.at \in {"lock out", "find"}
    BY DEF Idle
  <2> HIDE DEF d
  <2>3. call' = [call EXCEPT ![h] = d]
    BY <2>1 DEF d
  <2> QED
    BY <1>1, <1>2, <2>2, <2>3
<1>4. CASE EnterClaimCode(h)
  BY <1>2, <1>4, <1>1 DEF EnterClaimCode, Idle
<1>5. CASE SetNumber(h)
  BY <1>2, <1>5, <1>1 DEF SetNumber, Idle
<1>6. CASE VerifyNumber(h)
  BY <1>2, <1>6, <1>1 DEF VerifyNumber, Idle
<1> QED
  BY <1>3, <1>4, <1>5, <1>6

LEMMA Ended ==
  ASSUME Well, NEW h \in Handlers,
         LockOut(h) \/ CountAttempt(h) \/ GiveUp(h) \/ IssueNumberCode(h) \/ MarkVerified(h)
  PROVE  Others(h) /\ call'[h] = Idle
<1>1. Return(h)
  BY DEF LockOut, CountAttempt, GiveUp, IssueNumberCode, MarkVerified
<1> QED
  BY <1>1, Ends DEF Others

LEMMA LetThroughMoves ==
  ASSUME Well, NEW h \in Handlers, LetThrough(h)
  PROVE  \E i \in Ids :
           /\ Others(h) /\ otp[i] \in Row /\ otp[i].mobile = call[h].mobile /\ ~(i > issued)
           /\ call[h].at = "find" /\ call[h].op \in {"sign in", "claim", "verify number"}
           /\ call'[h].at = "spend" /\ call'[h].record = i
           /\ call'[h].op = call[h].op /\ call'[h].mobile = call[h].mobile
           /\ call'[h].business = call[h].business /\ call'[h].latest = call[h].latest
           /\ raced' = raced \cup
                {j \in {i} : \E g \in Handlers : call[g].at = "spend" /\ call[g].record = j}
           /\ proved' = proved \cup
                {p \in {<<call[h].business, otp[i].mobile>>} : call[h].op = "verify number"}
           /\ UNCHANGED <<tables, guesses, honoured, replaced, crashes>>
<1>1. PICK i \in Ids :
        /\ Accepts(h, i)
        /\ call' = [call EXCEPT ![h].at = "spend", ![h].record = i]
        /\ raced' = raced \cup
             {j \in {i} : \E g \in Handlers : call[g].at = "spend" /\ call[g].record = j}
        /\ proved' = proved \cup
             {p \in {<<call[h].business, otp[i].mobile>>} : call[h].op = "verify number"}
  BY DEF LetThrough
<1>2. /\ At(h, {"sign in", "claim", "verify number"}, "find")
      /\ UNCHANGED <<tables, guesses, honoured, replaced, crashes>>
  BY DEF LetThrough
<1> DEFINE d == [call[h] EXCEPT !.at = "spend", !.record = i]
<1>3. call[h] \in Call
  BY DEF Well, TypeOK
<1>4. /\ d.latest = call[h].latest /\ d.record = i /\ d.at = "spend"
      /\ d.op = call[h].op /\ d.mobile = call[h].mobile /\ d.business = call[h].business
  BY <1>3 DEF Call
<1>5. call' = [call EXCEPT ![h] = d]
  BY <1>1
<1> HIDE DEF d
<1>6. call'[h] = d /\ Others(h)
  BY <1>5 DEF Others, Well, TypeOK
<1>7. call[h].at = "find" /\ call[h].op \in {"sign in", "claim", "verify number"}
  BY <1>2 DEF At
<1>8. otp[i] \in Row /\ otp[i].mobile = call[h].mobile /\ ~(i > issued)
  BY <1>1, <1>2, Accepted
<1> WITNESS i \in Ids
<1> QED
  BY <1>1, <1>2, <1>4, <1>6, <1>7, <1>8

\* Nobody else is let through by a step that lets nobody through.
LEMMA SpendersKept ==
  ASSUME Well, Next, \A h \in Handlers : ~LetThrough(h), NEW g \in Handlers, call'[g].at = "spend"
  PROVE  call'[g] = call[g]
<1>1. ASSUME NEW h \in Handlers,
             SignIn(h) \/ EnterClaimCode(h) \/ SetNumber(h) \/ VerifyNumber(h)
      PROVE  call'[g] = call[g]
  BY <1>1, Begun DEF Others
<1>2. ASSUME NEW h \in Handlers,
             LockOut(h) \/ CountAttempt(h) \/ GiveUp(h) \/ IssueNumberCode(h) \/ MarkVerified(h)
      PROVE  call'[g] = call[g]
  BY <1>2, Ended DEF Others, Idle
<1>3. ASSUME NEW h \in Handlers, Spend(h)
      PROVE  call'[g] = call[g]
  <2>1. Idle.at = "idle"
    BY DEF Idle
  <2>2. call'[h].at # "spend"
    BY <1>3, <2>1, SpendMoves
  <2> QED
    BY <1>3, <2>2, SpendMoves
<1>4. ASSUME NEW h \in Handlers, Refuse(h)
      PROVE  call'[g] = call[g]
  <2>1. Idle.at = "idle"
    BY DEF Idle
  <2>2. call'[h].at # "spend"
    BY <1>4, <2>1, RefuseMoves
  <2> QED
    BY <1>4, <2>2, RefuseMoves
<1>5. ASSUME Crash PROVE call'[g] = call[g]
  BY <1>5 DEF Crash, Idle
<1>6. ASSUME \/ \E m \in Mobiles : SendOtp(m)
             \/ \E i \in Ids : Expire(i)
             \/ \E b \in Businesses : RevertNumber(b)
      PROVE  call'[g] = call[g]
  BY <1>6 DEF SendOtp, Expire, RevertNumber
<1> QED
  BY <1>1, <1>2, <1>3, <1>4, <1>5, <1>6 DEF Next, Step

LEMMA OnceKept == ASSUME Well, Once, Next PROVE Once'
<1>1. ASSUME NEW h \in Handlers, LetThrough(h) PROVE Once'
  <2>1. PICK i \in Ids :
          /\ Others(h) /\ otp[i] \in Row /\ otp[i].mobile = call[h].mobile
          /\ call'[h].at = "spend" /\ call'[h].record = i /\ call'[h].mobile = call[h].mobile
          /\ raced' = raced \cup
               {j \in {i} : \E g \in Handlers : call[g].at = "spend" /\ call[g].record = j}
          /\ UNCHANGED <<tables, honoured>>
    BY <1>1, LetThroughMoves
  <2>2. otp' = otp /\ honoured' = honoured /\ raced \subseteq raced'
    BY <2>1 DEF tables
  <2>3. otp[i] # NoRow
    BY <2>1, Constants
  <2>4. HeldRows'
    BY <2>1, <2>2 DEF Once, HeldRows, Spending, Others
  <2>5. SpentRows'
    BY <2>2 DEF Once, SpentRows
  <2>6. \A g \in Handlers : g # h /\ Spending(g, i) => i \in raced'
    BY <2>1 DEF Spending
  <2>7. Pairs'
    BY <2>1, <2>2, <2>6 DEF Once, Pairs, Spending, Others
  <2>8. honoured[i] = 0
    BY <2>3 DEF Once, SpentRows
  <2>9. Alone'
    BY <2>1, <2>2, <2>8 DEF Once, Alone, Spending, Others
  <2> QED
    BY <2>4, <2>5, <2>7, <2>9 DEF Once
<1>2. ASSUME \A h \in Handlers : ~LetThrough(h) PROVE Once'
  <2>1. \A g \in Handlers : call'[g].at = "spend" => call'[g] = call[g]
    BY <1>2, SpendersKept
  <2>2. HeldRows'
    <3> SUFFICES ASSUME NEW g \in Handlers, NEW i \in Ids, Spending(g, i)'
                 PROVE  otp'[i] = NoRow \/ otp'[i].mobile = call'[g].mobile
      BY DEF HeldRows
    <3>1. call'[g] = call[g] /\ Spending(g, i)
      BY <2>1 DEF Spending
    <3>2. ~(i > issued)
      BY <3>1 DEF Well, NoneAhead, Unsent, Spending
    <3>3. otp[i] = NoRow \/ otp[i].mobile = call[g].mobile
      BY <3>1 DEF Once, HeldRows
    <3> QED
      BY <3>1, <3>2, <3>3, RowsKept
  <2>3. CASE UNCHANGED <<honoured, raced>>
    <3>1. SpentRows'
      BY <2>3, RowsKept DEF Once, SpentRows, Well, NoneAhead, Unsent
    <3>2. Pairs'
      BY <2>1, <2>3 DEF Once, Pairs, Spending
    <3>3. Alone'
      BY <2>1, <2>3 DEF Once, Alone, Spending
    <3> QED
      BY <2>2, <3>1, <3>2, <3>3 DEF Once
  <2>4. ASSUME NEW h \in Handlers, Spend(h) PROVE Once'
    <3> DEFINE r == call[h].record
    <3>1. /\ otp' = Without(call[h].mobile) /\ honoured' = [honoured EXCEPT ![r] = @ + 1]
          /\ raced' = raced /\ call[h].at = "spend" /\ r \in Ids
      BY <2>4 DEF Spend, DeleteRows, At, Well, AllWired, Wired
    <3>2. Spending(h, r)
      BY <3>1 DEF Spending
    <3>3. \A i \in Ids : honoured'[i] = IF i = r THEN honoured[r] + 1 ELSE honoured[i]
      BY <3>1 DEF Well, TypeOK
    <3>4. otp'[r] = NoRow
      BY <3>1, <3>2, Deleted DEF Once, HeldRows, Well
    <3>5. SpentRows'
      BY <3>3, <3>4, <2>4, RowsKept DEF Once, SpentRows, Well, NoneAhead, Unsent
    <3>6. Pairs'
      BY <2>1, <3>1 DEF Once, Pairs, Spending
    <3>7. call'[h].at # "spend"
      <4>1. Idle.at = "idle"
        BY DEF Idle
      <4> QED
        BY <2>4, <4>1, SpendMoves
    <3>8. r \notin raced => honoured[r] = 0 /\ \A g \in Handlers : g # h => ~Spending(g, r)
      <4>1. r \notin raced /\ honoured[r] # 0 => ~Spending(h, r)
        BY <3>1 DEF Once, Alone
      <4>2. \A g \in Handlers : g # h /\ Spending(g, r) => r \in raced
        BY <3>1, <3>2 DEF Once, Pairs
      <4> QED
        BY <3>2, <4>1, <4>2
    <3>9. Alone'
      <4> SUFFICES ASSUME NEW i \in Ids, i \notin raced, honoured'[i] # 0
                   PROVE  honoured'[i] = 1 /\ \A g \in Handlers : ~Spending(g, i)'
        BY <3>1 DEF Alone
      <4>1. CASE i = r
        <5>1. honoured'[i] = 1
          BY <3>3, <3>8, <4>1
        <5>2. \A g \in Handlers : ~Spending(g, i)'
          BY <2>1, <3>7, <3>8, <4>1 DEF Spending
        <5> QED
          BY <5>1, <5>2
      <4>2. CASE i # r
        <5>1. honoured'[i] = honoured[i]
          BY <3>3, <4>2
        <5>2. honoured[i] = 1 /\ \A g \in Handlers : ~Spending(g, i)
          BY <5>1 DEF Once, Alone
        <5>3. \A g \in Handlers : ~Spending(g, i)'
          BY <2>1, <5>2 DEF Spending
        <5> QED
          BY <5>1, <5>2, <5>3
      <4> QED
        BY <4>1, <4>2
    <3> QED
      BY <2>2, <3>5, <3>6, <3>9 DEF Once
  <2>5. ASSUME \A h \in Handlers : ~Spend(h) PROVE UNCHANGED <<honoured, raced>>
    BY <1>2, <2>5 DEF Next, Step, SendOtp, Expire, RevertNumber, Replace, Crash, SignIn, LockOut,
       Refuse, CountAttempt, EnterClaimCode, GiveUp, SetNumber, IssueNumberCode, VerifyNumber,
       MarkVerified, history
  <2> QED
    BY <2>3, <2>4, <2>5
<1> QED
  BY <1>1, <1>2

\* CodeSpentOnce: a code entered twice, wherever it is entered, lets two
\* calls through only when both had found its row before either cleared it.
THEOREM CodeIsSpentOnce == Spec => []CodeSpentOnce
<1>1. Init => Once
  BY Constants DEF Init, Once, HeldRows, SpentRows, Pairs, Alone, Spending, Idle
<1>2. Well /\ Once /\ [Next]_vars => Once'
  <2>1. ASSUME Once, UNCHANGED vars PROVE Once'
    BY <2>1 DEF vars, tables, history, Once, HeldRows, SpentRows, Pairs, Alone, Spending
  <2> QED
    BY <2>1, OnceKept
<1>3. Well /\ Once => CodeSpentOnce
  <2> SUFFICES ASSUME Well, Once, NEW i \in Ids, honoured[i] > 1, i \notin raced PROVE FALSE
    BY DEF CodeSpentOnce
  <2>1. honoured[i] \in Nat
    BY DEF Well, TypeOK
  <2> QED
    BY <2>1 DEF Once, Alone
<1> QED
  BY <1>1, <1>2, <1>3, AlwaysWell, PTL DEF Spec

-----------------------------------------------------------------------------
(* VerifiedWasProved *)

\* A verification under way is about the number its business still has,
\* unless that was replaced; once its code was right, the number is proved.
AboutNumber == \A h \in Handlers : call[h].op = "verify number" =>
                 number[call[h].business] = call[h].mobile \/ call[h].business \in replaced
ProvedFirst == \A h \in Handlers : call[h].op = "verify number" /\ call[h].at \in {"spend", "mark"} =>
                 <<call[h].business, call[h].mobile>> \in proved
Proven == AboutNumber /\ ProvedFirst /\ VerifiedWasProved

\* A call that goes on verifying does so with what it started with.
SameCheck(g) == call'[g].op = "verify number" =>
    /\ call[g].op = "verify number" /\ call'[g].business = call[g].business
    /\ call'[g].mobile = call[g].mobile
    /\ call'[g].at \in {"spend", "mark"} => call[g].at \in {"spend", "mark"}

LEMMA ProvenFrame ==
  ASSUME Well, Proven, UNCHANGED <<number, verified, proved, replaced>>,
         \A g \in Handlers : SameCheck(g)
  PROVE  Proven'
<1>1. AboutNumber' /\ ProvedFirst'
  BY DEF Proven, AboutNumber, ProvedFirst, SameCheck
<1>2. VerifiedWasProved'
  BY DEF Proven, VerifiedWasProved
<1> QED
  BY <1>1, <1>2 DEF Proven

LEMMA EndedFrame ==
  ASSUME NEW h \in Handlers, Others(h), call'[h] = Idle
  PROVE  \A g \in Handlers : SameCheck(g)
<1>1. Idle.op # "verify number"
  BY DEF Idle
<1> QED
  BY <1>1 DEF Others, SameCheck

\* Another number takes the mark away and is remembered by those checking.
LEMMA ReplacedProven ==
  ASSUME Well, Proven, NEW b \in Businesses, NEW n \in Mobiles \cup {None}, Replace(b, n),
         \A g \in Handlers : SameCheck(g)
  PROVE  Proven'
<1>1. /\ number' = [number EXCEPT ![b] = n] /\ verified' = [verified EXCEPT ![b] = FALSE]
      /\ replaced' = replaced \cup
           {c \in {b} : \E h \in Handlers : call[h].op = "verify number" /\ call[h].business = b}
      /\ proved' = proved
  BY DEF Replace
<1>2. \A c \in Businesses : c # b => number'[c] = number[c] /\ verified'[c] = verified[c]
  BY <1>1 DEF Well, TypeOK
<1>3. verified'[b] = FALSE
  BY <1>1 DEF Well, TypeOK
<1>4. AboutNumber'
  <2> SUFFICES ASSUME NEW h \in Handlers, call'[h].op = "verify number"
               PROVE  number'[call'[h].business] = call'[h].mobile \/ call'[h].business \in replaced'
    BY DEF AboutNumber
  <2>1. /\ call[h].op = "verify number" /\ call'[h].business = call[h].business
        /\ call'[h].mobile = call[h].mobile
    BY DEF SameCheck
  <2>2. call[h].business \in Businesses
    BY <2>1 DEF Well, AllWired, Wired
  <2>3. CASE call[h].business = b
    BY <1>1, <2>1, <2>3
  <2>4. CASE call[h].business # b
    BY <1>1, <1>2, <2>1, <2>2, <2>4 DEF Proven, AboutNumber
  <2> QED
    BY <2>3, <2>4
<1>5. ProvedFirst'
  BY <1>1 DEF Proven, ProvedFirst, SameCheck
<1>6. VerifiedWasProved'
  <2> SUFFICES ASSUME NEW c \in Businesses, verified'[c], number'[c] # None
               PROVE  <<c, number'[c]>> \in proved \/ c \in replaced'
    BY <1>1 DEF VerifiedWasProved
  <2>1. c # b
    BY <1>3
  <2>2. verified[c] /\ number'[c] = number[c]
    BY <1>2, <2>1
  <2>3. <<c, number[c]>> \in proved \/ c \in replaced
    BY <2>2 DEF Proven, VerifiedWasProved
  <2>4. replaced \subseteq replaced'
    BY <1>1
  <2> QED
    BY <2>2, <2>3, <2>4
<1> QED
  BY <1>4, <1>5, <1>6 DEF Proven

LEMMA ProvenKept == ASSUME Well, Proven, Next PROVE Proven'
<1>1. ASSUME \E m \in Mobiles : SendOtp(m) PROVE Proven'
  BY <1>1, ProvenFrame DEF SendOtp, history, SameCheck
<1>2. ASSUME \E i \in Ids : Expire(i) PROVE Proven'
  BY <1>2, ProvenFrame DEF Expire, history, SameCheck
<1>3. ASSUME NEW b \in Businesses, RevertNumber(b) PROVE Proven'
  BY <1>3, ReplacedProven DEF RevertNumber, SameCheck
<1>4. ASSUME Crash PROVE Proven'
  BY <1>4, ProvenFrame DEF Crash, tables, SameCheck, Idle
<1>5. ASSUME NEW h \in Handlers, SetNumber(h) PROVE Proven'
  <2>1. PICK b \in Businesses, n \in Mobiles :
          /\ Replace(b, n)
          /\ call' = [call EXCEPT ![h] = [Idle EXCEPT !.op = "set number", !.at = "issue",
                                                     !.mobile = n, !.business = b]]
    BY <1>5 DEF SetNumber
  <2>2. call'[h].op = "set number" /\ Others(h)
    BY <2>1 DEF Others, Well, TypeOK, Idle
  <2>3. \A g \in Handlers : SameCheck(g)
    BY <2>2 DEF Others, SameCheck
  <2> QED
    BY <2>1, <2>3, ReplacedProven
<1>6. ASSUME NEW h \in Handlers, VerifyNumber(h) PROVE Proven'
  <2>1. PICK b \in Businesses, c \in LongCodes :
          call' = [call EXCEPT ![h] = [Idle EXCEPT !.op = "verify number", !.at = "find",
                                                  !.mobile = number[b], !.code = c,
                                                  !.business = b]]
    BY <1>6 DEF VerifyNumber
  <2>2. /\ call'[h].op = "verify number" /\ call'[h].at = "find" /\ call'[h].mobile = number[b]
        /\ call'[h].business = b /\ Others(h)
    BY <2>1 DEF Others, Well, TypeOK, Idle
  <2>3. UNCHANGED <<number, verified, proved, replaced>>
    BY <1>6 DEF VerifyNumber, tables, history
  <2>4. AboutNumber' /\ ProvedFirst'
    BY <2>2, <2>3 DEF Proven, AboutNumber, ProvedFirst, Others
  <2> QED
    BY <2>3, <2>4 DEF Proven, VerifiedWasProved
<1>7. ASSUME NEW h \in Handlers, MarkVerified(h) PROVE Proven'
  <2> DEFINE b == call[h].business
  <2>1. call[h].op = "verify number" /\ call[h].at = "mark" /\ b \in Businesses
    BY <1>7 DEF MarkVerified, At, Well, AllWired, Wired
  <2>2. verified' = [verified EXCEPT ![b] = TRUE] /\ UNCHANGED <<number, proved, replaced>>
    BY <1>7 DEF MarkVerified, history
  <2>3. <<b, call[h].mobile>> \in proved /\ (number[b] = call[h].mobile \/ b \in replaced)
    BY <2>1 DEF Proven, AboutNumber, ProvedFirst
  <2>4. \A c \in Businesses : c # b => verified'[c] = verified[c]
    BY <2>2 DEF Well, TypeOK
  <2>5. VerifiedWasProved'
    BY <2>2, <2>3, <2>4 DEF Proven, VerifiedWasProved
  <2>6. \A g \in Handlers : SameCheck(g)
    BY <1>7, Ended, EndedFrame
  <2>7. AboutNumber' /\ ProvedFirst'
    BY <2>2, <2>6 DEF Proven, AboutNumber, ProvedFirst, SameCheck
  <2> QED
    BY <2>5, <2>7 DEF Proven
<1>8. ASSUME NEW h \in Handlers, LetThrough(h) PROVE Proven'
  <2>1. PICK i \in Ids :
          /\ Others(h) /\ otp[i].mobile = call[h].mobile
          /\ call'[h].op = call[h].op /\ call'[h].mobile = call[h].mobile
          /\ call'[h].business = call[h].business
          /\ proved' = proved \cup
               {p \in {<<call[h].business, otp[i].mobile>>} : call[h].op = "verify number"}
          /\ UNCHANGED <<tables, replaced>>
    BY <1>8, LetThroughMoves
  <2>2. UNCHANGED <<number, verified, replaced>> /\ proved \subseteq proved'
    BY <2>1 DEF tables
  <2>3. call[h].op = "verify number" => <<call[h].business, call[h].mobile>> \in proved'
    BY <2>1
  <2>4. AboutNumber' /\ ProvedFirst'
    BY <2>1, <2>2, <2>3 DEF Proven, AboutNumber, ProvedFirst, Others
  <2>5. VerifiedWasProved'
    BY <2>2 DEF Proven, VerifiedWasProved
  <2> QED
    BY <2>4, <2>5 DEF Proven
<1>9. ASSUME NEW h \in Handlers, Spend(h) PROVE Proven'
  <2>1. Idle.op = "none"
    BY DEF Idle
  <2>2. call[h].at = "spend"
    BY <1>9 DEF Spend, At
  <2>3. \A g \in Handlers : SameCheck(g)
    BY <1>9, <2>1, <2>2, SpendMoves DEF SameCheck
  <2> QED
    BY <1>9, <2>3, ProvenFrame DEF Spend
<1>10. ASSUME NEW h \in Handlers, Refuse(h) PROVE Proven'
  <2>1. Idle.op = "none"
    BY DEF Idle
  <2>2. \A g \in Handlers : SameCheck(g)
    BY <1>10, <2>1, RefuseMoves DEF SameCheck
  <2> QED
    BY <1>10, <2>2, ProvenFrame DEF Refuse, tables
<1>11. ASSUME NEW h \in Handlers, SignIn(h) \/ EnterClaimCode(h) PROVE Proven'
  <2>1. call'[h].op \in {"sign in", "claim"} /\ Others(h)
    <3>1. ASSUME NEW d, call' = [call EXCEPT ![h] = d]
          PROVE  call'[h] = d /\ Others(h)
      BY <3>1 DEF Others, Well, TypeOK
    <3>2. CASE EnterClaimCode(h)
      <4>1. PICK m \in Mobiles, c \in ShortCodes :
              call' = [call EXCEPT ![h] = [Idle EXCEPT !.op = "claim", !.mobile = m, !.code = c,
                                                      !.at = "find"]]
        BY <3>2 DEF EnterClaimCode
      <4> DEFINE d == [Idle EXCEPT !.op = "claim", !.mobile = m, !.code = c, !.at = "find"]
      <4>2. d.op = "claim"
        BY DEF Idle
      <4> HIDE DEF d
      <4>3. call' = [call EXCEPT ![h] = d]
        BY <4>1 DEF d
      <4> QED
        BY <3>1, <4>2, <4>3
    <3>3. CASE SignIn(h)
      <4>1. PICK m \in Mobiles, c \in ShortCodes, i \in MaybeId :
              call' = [call EXCEPT ![h] =
                         [Idle EXCEPT !.op = "sign in", !.mobile = m, !.code = c, !.latest = i,
                                      !.at = IF LockedOut(i) THEN "lock out" ELSE "find"]]
        BY <3>3 DEF SignIn
      <4> DEFINE d == [Idle EXCEPT !.op = "sign in", !.mobile = m, !.code = c, !.latest = i,
                                   !.at = IF LockedOut(i) THEN "lock out" ELSE "find"]
      <4>2. d.op = "sign in"
        BY DEF Idle
      <4> HIDE DEF d
      <4>3. call' = [call EXCEPT ![h] = d]
        BY <4>1 DEF d
      <4> QED
        BY <3>1, <4>2, <4>3
    <3> QED
      BY <1>11, <3>2, <3>3
  <2>2. \A g \in Handlers : SameCheck(g)
    BY <2>1 DEF Others, SameCheck
  <2> QED
    BY <1>11, <2>2, ProvenFrame DEF SignIn, EnterClaimCode, tables, history
<1>12. ASSUME NEW h \in Handlers,
              LockOut(h) \/ CountAttempt(h) \/ GiveUp(h) \/ IssueNumberCode(h)
       PROVE  Proven'
  <2>1. \A g \in Handlers : SameCheck(g)
    BY <1>12, Ended, EndedFrame
  <2>2. UNCHANGED <<number, verified, proved, replaced>>
    BY <1>12 DEF LockOut, CountAttempt, GiveUp, IssueNumberCode, tables, history
  <2> QED
    BY <2>1, <2>2, ProvenFrame
<1> QED
  BY <1>1, <1>2, <1>3, <1>4, <1>5, <1>6, <1>7, <1>8, <1>9, <1>10, <1>11, <1>12 DEF Next, Step

\* VerifiedWasProved: a number carries the mark only when its business
\* entered the code sent to it, unless it was replaced meanwhile.
THEOREM VerifiedIsProved == Spec => []VerifiedWasProved
<1>1. Init => Proven
  <2> SUFFICES ASSUME Init PROVE Proven
    OBVIOUS
  <2>1. \A h \in Handlers : call[h].op = "none"
    BY DEF Init, Idle
  <2>2. \A b \in Businesses : verified[b] = FALSE
    BY DEF Init
  <2>3. VerifiedWasProved
    BY <2>2 DEF VerifiedWasProved
  <2> QED
    BY <2>1, <2>3 DEF Proven, AboutNumber, ProvedFirst
<1>2. Well /\ Proven /\ [Next]_vars => Proven'
  <2>1. ASSUME Proven, UNCHANGED vars PROVE Proven'
    BY <2>1 DEF vars, tables, history, Proven, AboutNumber, ProvedFirst, VerifiedWasProved
  <2> QED
    BY <2>1, ProvenKept
<1>3. Proven => VerifiedWasProved
  BY DEF Proven
<1> QED
  BY <1>1, <1>2, <1>3, AlwaysWell, PTL DEF Spec

-----------------------------------------------------------------------------
(* LockoutHolds *)

\* The calls that have read row i as the latest and may still compare a code,
\* and those whose wrong code is yet to be counted.
Finding(i) == {h \in Handlers :
                 call[h].op = "sign in" /\ call[h].at = "find" /\ call[h].latest = i}
Counting(i) == {h \in Handlers : call[h].at = "count attempt" /\ call[h].latest = i}
Lost == Cardinality(Handlers) * crashes

\* A wrong code is in the row's count, or is about to be, or went in a crash;
\* and those who passed the check can only bring so many more.
Counted(i) == otp[i] # NoRow =>
                guesses[i] <= otp[i].attempts + Cardinality(Counting(i)) + Lost
Bounded(i) == guesses[i] + Cardinality(Finding(i))
                <= MaxOtpAttempts + Cardinality(Handlers) - 1 + Lost
Tallied == \A i \in Ids : Counted(i) /\ Bounded(i)

LEMMA Numbers ==
  ASSUME Well
  PROVE  /\ Cardinality(Handlers) \in Nat /\ Cardinality(Handlers) > 0
         /\ Lost \in Nat /\ crashes \in Nat
         /\ \A S : S \subseteq Handlers =>
              IsFiniteSet(S) /\ Cardinality(S) \in Nat /\ Cardinality(S) <= Cardinality(Handlers)
<1>1. IsFiniteSet(Handlers) /\ Handlers # {}
  BY CodesAssumption DEF CodesAssumption
<1>2. Cardinality(Handlers) \in Nat /\ Cardinality(Handlers) > 0
  BY <1>1, FS_CardinalityType, FS_EmptySet
<1>3. crashes \in Nat
  BY Constants DEF Well, TypeOK
<1>4. Lost \in Nat
  BY <1>2, <1>3 DEF Lost
<1>5. ASSUME NEW S, S \subseteq Handlers
      PROVE  IsFiniteSet(S) /\ Cardinality(S) \in Nat /\ Cardinality(S) <= Cardinality(Handlers)
  BY <1>1, <1>5, FS_Subset, FS_CardinalityType
<1> QED
  BY <1>2, <1>3, <1>4, <1>5

LEMMA AddOne ==
  ASSUME Well, NEW S, NEW T, NEW h \in Handlers, S \subseteq Handlers, h \notin S, T = S \cup {h}
  PROVE  Cardinality(T) = Cardinality(S) + 1
BY Numbers, FS_AddElement

LEMMA RemoveOne ==
  ASSUME Well, NEW S, NEW T, NEW h \in Handlers, S \subseteq Handlers, h \in S, T = S \ {h}
  PROVE  Cardinality(T) = Cardinality(S) - 1
BY Numbers, FS_RemoveElement

LEMMA Smaller ==
  ASSUME Well, NEW S, NEW T, S \subseteq T, T \subseteq Handlers
  PROVE  Cardinality(S) <= Cardinality(T)
BY Numbers, FS_Subset

\* A step at one row, by what it does to the two sets, the count and the row.
LEMMA TalliedFrame ==
  ASSUME Well, NEW i \in Ids, Counted(i), Bounded(i), Well',
         guesses'[i] = guesses[i], UNCHANGED crashes,
         Counting(i)' = Counting(i), Finding(i)' \subseteq Finding(i),
         \/ otp'[i] = NoRow
         \/ otp[i] # NoRow /\ otp'[i].attempts = otp[i].attempts
         \/ i > issued
  PROVE  Counted(i)' /\ Bounded(i)'
<1>1. Lost' = Lost
  BY DEF Lost
<1>2. Finding(i) \subseteq Handlers /\ Finding(i)' \subseteq Handlers
  BY DEF Finding
<1>3. Cardinality(Finding(i)') <= Cardinality(Finding(i))
  BY <1>2, Smaller
<1>4. /\ Cardinality(Finding(i)) \in Nat /\ Cardinality(Finding(i)') \in Nat
      /\ Cardinality(Counting(i)) \in Nat /\ Cardinality(Handlers) \in Nat /\ Lost \in Nat
  BY <1>2, Numbers DEF Counting
<1>5. guesses[i] \in Nat /\ MaxOtpAttempts \in Nat
  BY Constants DEF Well, TypeOK
<1>6. Bounded(i)'
  BY <1>1, <1>3, <1>4, <1>5 DEF Bounded
<1>7. Counted(i)'
  <2> SUFFICES ASSUME otp'[i] # NoRow
               PROVE  guesses'[i] <= otp'[i].attempts + Cardinality(Counting(i)') + Lost'
    BY DEF Counted
  <2>1. otp'[i].attempts \in Nat
    BY DEF Well, TypeOK, Row
  <2>2. CASE i > issued
    <3>1. guesses[i] = 0
      BY <2>2 DEF Well, NoneAhead, Unsent
    <3> QED
      BY <1>1, <1>4, <2>1, <3>1
  <2>3. CASE otp[i] # NoRow /\ otp'[i].attempts = otp[i].attempts
    BY <1>1, <2>3 DEF Counted
  <2> QED
    BY <2>2, <2>3
<1> QED
  BY <1>6, <1>7

LEMMA AttemptsKept ==
  ASSUME Well, Next, \A h \in Handlers : ~CountAttempt(h), NEW i \in Ids
  PROVE  \/ otp'[i] = NoRow
         \/ otp[i] # NoRow /\ otp'[i].attempts = otp[i].attempts
         \/ i > issued
<1>1. ASSUME NEW m \in Mobiles, NEW c \in Codes, Issue(m, c)
      PROVE  i > issued \/ otp'[i] = otp[i]
  BY <1>1, Issued, Constants DEF Well, TypeOK
<1>2. ASSUME NEW m \in Mobiles, SendOtp(m)
      PROVE  i > issued \/ otp'[i] = otp[i]
  BY <1>1, <1>2 DEF SendOtp, Codes
<1>3. ASSUME NEW h \in Handlers, IssueNumberCode(h)
      PROVE  i > issued \/ otp'[i] = otp[i]
  BY <1>1, <1>3 DEF IssueNumberCode, Codes, At, Well, AllWired, Wired
<1>4. ASSUME NEW j \in Ids, Expire(j)
      PROVE  otp'[i] = otp[i] \/ (otp[i] # NoRow /\ otp'[i].attempts = otp[i].attempts)
  <2>1. otp[j] # NoRow /\ otp' = [otp EXCEPT ![j] = [otp[j] EXCEPT !.expired = TRUE]]
    BY <1>4 DEF Expire
  <2>2. otp[j] \in Row
    BY <2>1 DEF Well, TypeOK
  <2>3. [otp[j] EXCEPT !.expired = TRUE].attempts = otp[j].attempts
    BY <2>2 DEF Row
  <2> QED
    BY <2>1, <2>3 DEF Well, TypeOK
<1>5. ASSUME NEW h \in Handlers, LockOut(h) \/ Spend(h)
      PROVE  otp'[i] = NoRow \/ otp'[i] = otp[i]
  <2>1. otp' = Without(call[h].mobile)
    BY <1>5 DEF LockOut, Spend, DeleteRows
  <2>2. Without(call[h].mobile)[i] = IF otp[i].mobile = call[h].mobile THEN NoRow ELSE otp[i]
    BY Deleted DEF Well
  <2> QED
    BY <2>1, <2>2
<1>6. ASSUME NEW h \in Handlers,
             \/ SignIn(h) \/ LetThrough(h) \/ Refuse(h) \/ EnterClaimCode(h) \/ GiveUp(h)
             \/ SetNumber(h) \/ VerifyNumber(h) \/ MarkVerified(h)
      PROVE  otp' = otp
  BY <1>6 DEF SignIn, LetThrough, Refuse, EnterClaimCode, GiveUp, SetNumber, VerifyNumber,
     MarkVerified, tables
<1>7. ASSUME Crash \/ \E b \in Businesses : RevertNumber(b)
      PROVE  otp' = otp
  BY <1>7 DEF Crash, RevertNumber, tables
<1>8. otp'[i] = otp[i] => otp'[i] = NoRow \/ (otp[i] # NoRow /\ otp'[i].attempts = otp[i].attempts)
  OBVIOUS
<1> QED
  BY <1>2, <1>3, <1>4, <1>5, <1>6, <1>7, <1>8 DEF Next, Step

LEMMA NoSignIn ==
  ASSUME Well, NEW h \in Handlers, EnterClaimCode(h) \/ SetNumber(h) \/ VerifyNumber(h)
  PROVE  call'[h].op # "sign in"
<1>1. CASE EnterClaimCode(h)
  <2>1. PICK m \in Mobiles, c \in ShortCodes :
          call' = [call EXCEPT ![h] = [Idle EXCEPT !.op = "claim", !.mobile = m, !.code = c,
                                                  !.at = "find"]]
    BY <1>1 DEF EnterClaimCode
  <2> QED
    BY <2>1 DEF Idle, Well, TypeOK
<1>2. CASE SetNumber(h)
  <2>1. PICK b \in Businesses, n \in Mobiles :
          call' = [call EXCEPT ![h] = [Idle EXCEPT !.op = "set number", !.at = "issue",
                                                  !.mobile = n, !.business = b]]
    BY <1>2 DEF SetNumber
  <2> QED
    BY <2>1 DEF Idle, Well, TypeOK
<1>3. CASE VerifyNumber(h)
  <2>1. PICK b \in Businesses, c \in LongCodes :
          call' = [call EXCEPT ![h] = [Idle EXCEPT !.op = "verify number", !.at = "find",
                                                  !.mobile = number[b], !.code = c,
                                                  !.business = b]]
    BY <1>3 DEF VerifyNumber
  <2> QED
    BY <2>1 DEF Idle, Well, TypeOK
<1> QED
  BY <1>1, <1>2, <1>3

\* A call that passes the check finds fewer than the limit on its row.
LEMMA SignInTallied ==
  ASSUME Well, Well', Tallied, NEW h \in Handlers, SignIn(h), NEW i \in Ids
  PROVE  Counted(i)' /\ Bounded(i)'
<1>1. PICK m \in Mobiles, c \in ShortCodes, l \in MaybeId :
        /\ IsLatest(l, RowsOf(m))
        /\ call' = [call EXCEPT ![h] =
                      [Idle EXCEPT !.op = "sign in", !.mobile = m, !.code = c, !.latest = l,
                                   !.at = IF LockedOut(l) THEN "lock out" ELSE "find"]]
  BY DEF SignIn
<1> DEFINE d == [Idle EXCEPT !.op = "sign in", !.mobile = m, !.code = c, !.latest = l,
                             !.at = IF LockedOut(l) THEN "lock out" ELSE "find"]
<1>2. d.latest = l /\ d.at = IF LockedOut(l) THEN "lock out" ELSE "find"
  BY DEF Idle
<1> HIDE DEF d
<1>3. call' = [call EXCEPT ![h] = d]
  BY <1>1 DEF d
<1>4. call'[h] = d /\ \A g \in Handlers : g # h => call'[g] = call[g]
  BY <1>3 DEF Well, TypeOK
<1>5. call[h].at = "idle"
  BY DEF SignIn, At
<1>6. UNCHANGED <<otp, issued, guesses, crashes>> /\ Lost' = Lost
  BY DEF SignIn, tables, history, Lost
<1>7. Counting(i)' = Counting(i)
  BY <1>2, <1>4, <1>5 DEF Counting
<1>8. Counted(i)'
  BY <1>6, <1>7 DEF Tallied, Counted
<1>9. Bounded(i)'
  <2>1. CASE l = i /\ ~LockedOut(l)
    <3>1. i \in RowsOf(m)
      BY <1>1, <2>1, Constants DEF IsLatest
    <3>2. otp[i].mobile # None /\ NoRow.mobile = None
      BY <3>1, Constants DEF RowsOf, NoRow
    <3>3. otp[i] \in Row
      BY <3>2 DEF Well, TypeOK
    <3>4. otp[i] # NoRow /\ otp[i].attempts \in Nat
      BY <3>2, <3>3 DEF Row
    <3>5. otp[i].attempts <= MaxOtpAttempts - 1
      BY <2>1, <3>4, Constants DEF LockedOut
    <3>6. guesses[i] <= MaxOtpAttempts - 1 + Cardinality(Counting(i)) + Lost
      <4>1. guesses[i] <= otp[i].attempts + Cardinality(Counting(i)) + Lost
        BY <3>4 DEF Tallied, Counted
      <4>2. Cardinality(Counting(i)) \in Nat /\ Lost \in Nat /\ guesses[i] \in Nat
        BY Numbers DEF Counting, Well, TypeOK
      <4> QED
        BY <3>4, <3>5, <4>1, <4>2, Constants
    <3>7. Cardinality(Counting(i)) + Cardinality(Finding(i)') <= Cardinality(Handlers)
      <4> DEFINE F == Finding(i)'
                 C == Counting(i)
      <4>1. F \subseteq Handlers /\ C \subseteq Handlers
        BY DEF Finding, Counting
      <4>2. C \cap F = {}
        BY <1>7 DEF Finding, Counting
      <4>3. IsFiniteSet(C) /\ IsFiniteSet(F) /\ C \cup F \subseteq Handlers
        BY <4>1, Numbers
      <4>4. Cardinality(C \cup F) = Cardinality(C) + Cardinality(F) - Cardinality(C \cap F)
        BY <4>3, FS_Union
      <4>5. Cardinality(C \cap F) = 0
        BY <4>2, FS_EmptySet
      <4>6. Cardinality(C) \in Nat /\ Cardinality(F) \in Nat /\ Cardinality(Handlers) \in Nat
            /\ Cardinality(C \cup F) <= Cardinality(Handlers)
        BY <4>1, <4>3, Numbers
      <4> QED
        BY <4>4, <4>5, <4>6
    <3>8. /\ Cardinality(Counting(i)) \in Nat /\ Cardinality(Finding(i)') \in Nat
          /\ Cardinality(Handlers) \in Nat /\ Lost \in Nat /\ guesses[i] \in Nat
      BY Numbers DEF Counting, Finding, Well, TypeOK
    <3> QED
      BY <1>6, <3>6, <3>7, <3>8, Constants DEF Bounded
  <2>2. CASE l # i \/ LockedOut(l)
    <3>1. Finding(i)' = Finding(i)
      BY <1>2, <1>4, <1>5, <2>2 DEF Finding
    <3> QED
      BY <1>6, <3>1 DEF Tallied, Bounded
  <2> QED
    BY <2>1, <2>2
<1> QED
  BY <1>8, <1>9

\* A wrong code leaves those comparing and joins those being counted.
LEMMA RefuseTallied ==
  ASSUME Well, Well', Tallied, NEW h \in Handlers, Refuse(h), NEW i \in Ids
  PROVE  Counted(i)' /\ Bounded(i)'
<1>1. /\ guesses' = [j \in Ids |-> guesses[j] + (IF j = call[h].latest THEN 1 ELSE 0)]
      /\ UNCHANGED <<otp, issued, crashes>> /\ Lost' = Lost
  BY DEF Refuse, tables, Lost
<1>2. h \notin Counting(i) /\ \A g \in Handlers : g # h => call'[g] = call[g]
  BY RefuseMoves DEF Counting
<1>3. guesses[i] \in Nat /\ otp = otp'
  BY <1>1 DEF Well, TypeOK
<1>4. Idle.at = "idle"
  BY DEF Idle
<1>5. /\ Cardinality(Counting(i)) \in Nat /\ Cardinality(Finding(i)) \in Nat
      /\ Cardinality(Handlers) \in Nat /\ Lost \in Nat
  BY Numbers DEF Counting, Finding
<1>6. otp[i] # NoRow => otp[i].attempts \in Nat
  BY DEF Well, TypeOK, Row
<1>7. CASE call[h].latest = i
  <2>1. i # 0
    BY Constants
  <2>2. call'[h].at = "count attempt" /\ call'[h].latest = i /\ h \in Finding(i)
    BY <1>7, <2>1, RefuseMoves DEF Finding
  <2>3. Counting(i)' = Counting(i) \cup {h} /\ Finding(i)' = Finding(i) \ {h}
    BY <1>2, <2>2 DEF Counting, Finding
  <2>4. Cardinality(Counting(i)') = Cardinality(Counting(i)) + 1
    BY <1>2, <2>3, AddOne DEF Counting
  <2>5. Cardinality(Finding(i)') = Cardinality(Finding(i)) - 1
    BY <2>2, <2>3, RemoveOne DEF Finding
  <2>6. guesses'[i] = guesses[i] + 1
    BY <1>1, <1>7
  <2> QED
    BY <1>1, <1>3, <1>5, <1>6, <2>4, <2>5, <2>6, Constants DEF Tallied, Counted, Bounded
<1>8. CASE call[h].latest # i
  <2>1. Counting(i)' = Counting(i) /\ Finding(i)' = Finding(i)
    <3>1. call[h].at = "find" /\ call'[h].at \in {"idle", "count attempt"}
      BY <1>4, RefuseMoves
    <3>2. call'[h].at = "count attempt" => call'[h].latest # i
      BY <1>4, <1>8, RefuseMoves
    <3>3. \A g \in Handlers : g \in Counting(i)' <=> g \in Counting(i)
      BY <1>2, <3>1, <3>2 DEF Counting
    <3>4. \A g \in Handlers : g \in Finding(i)' <=> g \in Finding(i)
      BY <1>2, <1>8, <3>1 DEF Finding
    <3>5. Counting(i) \subseteq Handlers /\ Finding(i) \subseteq Handlers
          /\ Counting(i)' \subseteq Handlers /\ Finding(i)' \subseteq Handlers
      BY DEF Counting, Finding
    <3> QED
      BY <3>3, <3>4, <3>5
  <2>2. guesses'[i] = guesses[i]
    BY <1>1, <1>3, <1>8
  <2> QED
    BY <1>1, <2>1, <2>2 DEF Tallied, Counted, Bounded
<1> QED
  BY <1>7, <1>8

LEMMA CountAttemptTallied ==
  ASSUME Well, Well', Tallied, NEW h \in Handlers, CountAttempt(h), NEW i \in Ids
  PROVE  Counted(i)' /\ Bounded(i)'
<1>1. UNCHANGED <<guesses, crashes>> /\ Lost' = Lost /\ call[h].at = "count attempt"
  BY DEF CountAttempt, history, Lost, At
<1>2. \A g \in Handlers : g # h => call'[g] = call[g]
  BY Ended DEF Others
<1>3. call'[h].at = "idle"
  BY Ended DEF Idle
<1>4. Finding(i)' = Finding(i)
  BY <1>1, <1>2, <1>3 DEF Finding
<1>5. Bounded(i)'
  BY <1>1, <1>4 DEF Tallied, Bounded
<1>6. Counted(i)'
  <2> SUFFICES ASSUME otp'[i] # NoRow
               PROVE  guesses'[i] <= otp'[i].attempts + Cardinality(Counting(i)') + Lost'
    BY DEF Counted
  <2>1. /\ otp[i] # NoRow
        /\ otp'[i].attempts = otp[i].attempts + (IF i = call[h].latest THEN 1 ELSE 0)
    BY Counts
  <2>2. /\ Cardinality(Counting(i)) \in Nat /\ Lost \in Nat /\ guesses[i] \in Nat
        /\ otp[i].attempts \in Nat
    BY <2>1, Numbers DEF Counting, Well, TypeOK, Row
  <2>3. guesses[i] <= otp[i].attempts + Cardinality(Counting(i)) + Lost
    BY <2>1 DEF Tallied, Counted
  <2>4. CASE call[h].latest = i
    <3>1. h \in Counting(i) /\ Counting(i)' = Counting(i) \ {h}
      BY <1>1, <1>2, <1>3, <2>4 DEF Counting
    <3>2. Cardinality(Counting(i)') = Cardinality(Counting(i)) - 1
      BY <3>1, RemoveOne DEF Counting
    <3>3. otp'[i].attempts = otp[i].attempts + 1
      BY <2>1, <2>4
    <3>4. guesses'[i] = guesses[i]
      BY <1>1
    <3>5. guesses[i] <= (otp[i].attempts + 1) + (Cardinality(Counting(i)) - 1) + Lost
      BY <2>2, <2>3
    <3> QED
      BY <1>1, <3>2, <3>3, <3>4, <3>5
  <2>5. CASE call[h].latest # i
    <3>1. Counting(i)' = Counting(i)
      BY <1>1, <1>2, <1>3, <2>5 DEF Counting
    <3>2. otp'[i].attempts = otp[i].attempts
      BY <2>1, <2>2, <2>5
    <3>3. guesses'[i] = guesses[i]
      BY <1>1
    <3> QED
      BY <1>1, <2>3, <3>1, <3>2, <3>3
  <2> QED
    BY <2>4, <2>5
<1> QED
  BY <1>5, <1>6

\* A crash may take as many counts with it as there are calls.
LEMMA CrashTallied ==
  ASSUME Well, Well', Tallied, Crash, NEW i \in Ids
  PROVE  Counted(i)' /\ Bounded(i)'
<1>1. /\ UNCHANGED <<otp, guesses>> /\ crashes' = crashes + 1
      /\ \A h \in Handlers : call'[h].at = "idle"
  BY DEF Crash, tables, Idle
<1>2. Counting(i)' = {} /\ Finding(i)' = {}
  BY <1>1 DEF Counting, Finding
<1>3. Cardinality(Counting(i)') = 0 /\ Cardinality(Finding(i)') = 0
  BY <1>2, FS_EmptySet
<1>4. /\ Cardinality(Counting(i)) \in Nat /\ Cardinality(Finding(i)) \in Nat
      /\ Cardinality(Counting(i)) <= Cardinality(Handlers)
      /\ Cardinality(Handlers) \in Nat /\ Lost \in Nat /\ guesses[i] \in Nat /\ crashes \in Nat
  BY Numbers DEF Counting, Finding, Well, TypeOK
<1>5. Lost' = Lost + Cardinality(Handlers)
  BY <1>1, <1>4 DEF Lost
<1>6. otp[i] # NoRow => otp[i].attempts \in Nat
  BY DEF Well, TypeOK, Row
<1>7. guesses'[i] = guesses[i] /\ otp'[i] = otp[i] /\ MaxOtpAttempts \in Nat
  BY <1>1, Constants
<1>8. Counted(i) /\ Bounded(i)
  BY DEF Tallied
<1>9. Counted(i)'
  <2> SUFFICES ASSUME otp[i] # NoRow
               PROVE  guesses[i] <= otp[i].attempts + 0 + (Lost + Cardinality(Handlers))
    BY <1>3, <1>5, <1>7 DEF Counted
  <2>1. guesses[i] <= otp[i].attempts + Cardinality(Counting(i)) + Lost
    BY <1>8 DEF Counted
  <2> QED
    BY <1>4, <1>6, <2>1
<1>10. Bounded(i)'
  <2>1. guesses[i] + Cardinality(Finding(i)) <= MaxOtpAttempts + Cardinality(Handlers) - 1 + Lost
    BY <1>8 DEF Bounded
  <2>2. guesses[i] + 0 <= MaxOtpAttempts + Cardinality(Handlers) - 1 + (Lost + Cardinality(Handlers))
    BY <1>4, <1>7, <2>1
  <2> QED
    BY <1>3, <1>5, <1>7, <2>2 DEF Bounded
<1> QED
  BY <1>9, <1>10

LEMMA TalliedKept == ASSUME Well, Well', Tallied, [Next]_vars PROVE Tallied'
<1> SUFFICES ASSUME NEW i \in Ids PROVE Counted(i)' /\ Bounded(i)'
  BY DEF Tallied
<1>0. Counted(i) /\ Bounded(i)
  BY DEF Tallied
<1>1. CASE UNCHANGED vars
  BY <1>0, <1>1 DEF vars, tables, history, Counted, Bounded, Counting, Finding, Lost
<1>2. ASSUME Next, \A h \in Handlers : ~CountAttempt(h), UNCHANGED <<guesses, crashes>>,
             Counting(i)' = Counting(i), Finding(i)' \subseteq Finding(i)
      PROVE  Counted(i)' /\ Bounded(i)'
  BY <1>0, <1>2, AttemptsKept, TalliedFrame
<1>3. ASSUME NEW h \in Handlers, Others(h), call[h].at # "count attempt",
             call'[h].at # "count attempt", call'[h].op # "sign in" \/ call'[h].at # "find"
      PROVE  Counting(i)' = Counting(i) /\ Finding(i)' \subseteq Finding(i)
  BY <1>3 DEF Others, Counting, Finding
<1>4. CASE \E h \in Handlers : CountAttempt(h)
  BY <1>4, CountAttemptTallied
<1>5. ASSUME Next, \A h \in Handlers : ~CountAttempt(h) PROVE Counted(i)' /\ Bounded(i)'
  <2>1. CASE \/ \E m \in Mobiles : SendOtp(m)
             \/ \E j \in Ids : Expire(j)
             \/ \E b \in Businesses : RevertNumber(b)
    <3>1. UNCHANGED <<guesses, crashes, call>>
      BY <2>1 DEF SendOtp, Expire, RevertNumber, Replace, history
    <3> QED
      BY <1>2, <1>5, <3>1 DEF Counting, Finding
  <2>2. CASE Crash
    BY <2>2, CrashTallied
  <2>3. ASSUME NEW h \in Handlers, EnterClaimCode(h) \/ SetNumber(h) \/ VerifyNumber(h)
        PROVE  Counted(i)' /\ Bounded(i)'
    <3>1. UNCHANGED <<guesses, crashes>>
      BY <2>3 DEF EnterClaimCode, SetNumber, VerifyNumber, Replace, history
    <3> QED
      BY <1>2, <1>3, <1>5, <2>3, <3>1, Begun, NoSignIn
  <2>4. ASSUME NEW h \in Handlers, LockOut(h) \/ GiveUp(h) \/ IssueNumberCode(h) \/ MarkVerified(h)
        PROVE  Counted(i)' /\ Bounded(i)'
    <3>1. UNCHANGED <<guesses, crashes>> /\ call[h].at # "count attempt"
      BY <2>4 DEF LockOut, GiveUp, IssueNumberCode, MarkVerified, At, history
    <3>2. Others(h) /\ call'[h].at = "idle"
      BY <2>4, Ended DEF Idle
    <3> QED
      BY <1>2, <1>3, <1>5, <3>1, <3>2
  <2>5. ASSUME NEW h \in Handlers, LetThrough(h) PROVE Counted(i)' /\ Bounded(i)'
    <3>1. UNCHANGED <<guesses, crashes>> /\ Others(h) /\ call[h].at = "find" /\ call'[h].at = "spend"
      BY <2>5, LetThroughMoves
    <3> QED
      BY <1>2, <1>3, <1>5, <3>1
  <2>6. ASSUME NEW h \in Handlers, Spend(h) PROVE Counted(i)' /\ Bounded(i)'
    <3>1. UNCHANGED <<guesses, crashes>> /\ call[h].at = "spend"
      BY <2>6 DEF Spend, At
    <3>2. Idle.at = "idle"
      BY DEF Idle
    <3>3. Others(h) /\ call'[h].at \in {"idle", "mark"}
      BY <2>6, <3>2, SpendMoves DEF Others
    <3>4. Counting(i)' = Counting(i) /\ Finding(i)' \subseteq Finding(i)
      BY <1>3, <3>1, <3>3
    <3> QED
      BY <1>2, <1>5, <3>1, <3>4
  <2>7. ASSUME NEW h \in Handlers, SignIn(h) \/ Refuse(h) PROVE Counted(i)' /\ Bounded(i)'
    BY <2>7, SignInTallied, RefuseTallied
  <2> QED
    BY <1>5, <2>1, <2>2, <2>3, <2>4, <2>5, <2>6, <2>7 DEF Next, Step
<1> QED
  BY <1>1, <1>4, <1>5

\* LockoutHolds: the wrong codes compared while a row is its mobile's latest
\* stay within the limit, the calls that read it together and the counts lost
\* in crashes, for any limit and any number of calls under way.
THEOREM LockoutAlwaysHolds == Spec => []LockoutHolds
<1>1. Init => Tallied
  <2> SUFFICES ASSUME Init, NEW i \in Ids PROVE Counted(i) /\ Bounded(i)
    BY DEF Tallied
  <2>1. Well
    BY InitWell
  <2>2. otp[i] = NoRow /\ guesses[i] = 0 /\ \A h \in Handlers : call[h].at = "idle"
    BY DEF Init, Idle
  <2>3. Finding(i) = {}
    BY <2>2 DEF Finding
  <2>4. Cardinality(Finding(i)) = 0
    BY <2>3, FS_EmptySet
  <2> QED
    BY <2>1, <2>2, <2>4, Numbers, Constants DEF Counted, Bounded
<1>2. Well /\ Well' /\ Tallied /\ [Next]_vars => Tallied'
  BY TalliedKept
<1>3. Well /\ Tallied => LockoutHolds
  <2> SUFFICES ASSUME Well, Tallied, NEW i \in Ids
               PROVE  guesses[i] <= MaxOtpAttempts + Cardinality(Handlers) * (crashes + 1) - 1
    BY DEF LockoutHolds
  <2>1. /\ Cardinality(Finding(i)) \in Nat /\ Cardinality(Handlers) \in Nat /\ Lost \in Nat
        /\ guesses[i] \in Nat /\ crashes \in Nat
    BY Numbers DEF Finding, Well, TypeOK
  <2>2. Cardinality(Handlers) * (crashes + 1) = Lost + Cardinality(Handlers)
    BY <2>1 DEF Lost
  <2> QED
    BY <2>1, <2>2, Constants DEF Tallied, Bounded
<1> QED
  BY <1>1, <1>2, <1>3, AlwaysWell, PTL DEF Spec
=============================================================================
