------------------------- MODULE CoreMachine_proofs -------------------------
(***************************************************************************)
(* Proofs about CoreMachine: for any sessions, any times to live, any      *)
(* ladder of idle stages and any length of the run, the lazy machine shows *)
(* at every instant from its last event on exactly what an observer shows  *)
(* who forgets no session and notices every decay when it happens.         *)
(*                                                                         *)
(* The machine keeps the entries that are live at the last event and two   *)
(* times.  What carries the proof is what those two times stand for        *)
(* (EligibleInv, IdleInv): the first is the end of the last blocking       *)
(* signal among all sessions ever heard, forgotten ones included; the      *)
(* second is at least every fall to Idle that was forgotten, and can only  *)
(* exceed them all while a live session is there to fall later.            *)
(***************************************************************************)
EXTENDS CoreMachine, TLAPS, FiniteSetTheorems, WellFoundedInduction

-----------------------------------------------------------------------------
(* The greatest of a set of times.                                          *)

Greatest(m, S) == m \in S /\ \A x \in S : m >= x

\* A set of times that is bounded has a greatest member, if it has one at all.
LEMMA GreatestExists ==
    ASSUME NEW S, S \subseteq Nat \cup {Never}, S # {}, NEW b \in Nat, \A x \in S : x <= b
    PROVE  \E m \in S : Greatest(m, S)
<1> DEFINE T == {d \in Nat : \E x \in S : b - x = d}
           R == {s \in Nat \X Nat : s[1] < s[2]}
<1>0. \A x \in S : x \in Int /\ x <= b /\ b - x \in Nat
  BY DEF Never
<1>1. T \subseteq Nat /\ T # {}
  <2>1. PICK x \in S : TRUE
    OBVIOUS
  <2>2. b - x \in T
    BY <1>0, <2>1
  <2> QED BY <2>2
<1>2. IsWellFoundedOn(R, Nat)
  BY NatLessThanWellFounded DEF OpToRel
<1>3. \E d \in T : \A e \in T : ~(<<e, d>> \in R)
  <2> HIDE DEF T, R
  <2> QED BY <1>1, <1>2, WFMin
<1>4. PICK d \in T : \A e \in T : ~(e < d)
  BY <1>3
<1>5. PICK m \in S : b - m = d
  BY <1>4
<1>6. ASSUME NEW x \in S PROVE m >= x
  <2>1. b - x \in T
    BY <1>0
  <2>2. ~(b - x < d)
    BY <1>4, <2>1
  <2>3. x \in Int /\ m \in Int /\ b \in Int /\ b - m = d
    BY <1>0, <1>5
  <2> QED
    BY <2>2, <2>3
<1> QED
  BY <1>5, <1>6 DEF Greatest

\* Max finds it.
LEMMA MaxIsGreatest ==
    ASSUME NEW S, S \subseteq Nat \cup {Never}, NEW m, Greatest(m, S)
    PROVE  Max(S) = m
<1>1. \A x \in S : x \in Int
  BY DEF Never
<1>2. m \in S /\ \A x \in S : m >= x
  BY DEF Greatest
<1>3. Max(S) \in S /\ \A x \in S : Max(S) >= x
  <2> DEFINE P(y) == y \in S /\ \A x \in S : y >= x
  <2>1. P(m)
    BY <1>2
  <2>2. Max(S) = CHOOSE y : P(y)
    BY DEF Max
  <2> HIDE DEF P
  <2>3. P(CHOOSE y : P(y))
    BY <2>1
  <2> QED BY <2>2, <2>3 DEF P
<1>4. m >= Max(S) /\ Max(S) >= m /\ m \in Int /\ Max(S) \in Int
  BY <1>1, <1>2, <1>3
<1> QED
  BY <1>4

LEMMA GreatestIsMax ==
    ASSUME NEW S, S \subseteq Nat \cup {Never}, S # {}, NEW b \in Nat, \A x \in S : x <= b
    PROVE  Greatest(Max(S), S)
BY GreatestExists, MaxIsGreatest

\* The latest of a set of times, Never when there is none.
LEMMA LatestIs ==
    ASSUME NEW S, S \subseteq Nat \cup {Never}, NEW b \in Nat, \A x \in S : x <= b
    PROVE  /\ Latest(S) \in S \cup {Never}
           /\ \A x \in S : x <= Latest(S)
           /\ Latest(S) \in Nat \cup {Never}
           /\ Latest(S) <= b
<1> DEFINE R == S \cup {Never}
<1>1. R \subseteq Nat \cup {Never} /\ R # {} /\ \A x \in R : x <= b
  BY DEF Never
<1>2. Greatest(Max(R), R)
  <2> HIDE DEF R
  <2> QED BY <1>1, GreatestIsMax
<1>3. Latest(S) = Max(R)
  BY DEF Latest
<1>4. Latest(S) \in R /\ \A x \in R : Latest(S) >= x
  BY <1>2, <1>3 DEF Greatest
<1>5. Latest(S) \in Nat \cup {Never} /\ Latest(S) <= b
  BY <1>1, <1>4
<1>6. ASSUME NEW x \in S PROVE x <= Latest(S)
  <2>1. Latest(S) >= x /\ x \in Int /\ Latest(S) \in Int
    BY <1>1, <1>4, <1>5 DEF Never
  <2> QED BY <2>1
<1> QED
  BY <1>4, <1>5, <1>6

-----------------------------------------------------------------------------
(* Entries, and what time makes of them.                                    *)

\* An entry as apply_at inserts it.
Sound(e) ==
    /\ e \in Entry
    /\ e.asince = e.dsince
    /\ e.display = "Idle" => Eligible(e)

\* The first instant at which e has decayed.
EndOf(e) == e.dsince + TTL[e.display] + 1

LiveAt(e, now) == e.display # "Idle" /\ ~Expired(e, now)

Blocks(e, now) == ~Eligible(e) /\ ~Expired(e, now)

LEMMA EffectiveIs ==
    ASSUME NEW e, Sound(e), NEW now \in Int
    PROVE  /\ ~Expired(e, now) => Effective(e, now) = e
           /\ Expired(e, now) =>
                /\ Effective(e, now) \in Entry
                /\ Effective(e, now).display = "Idle"
                /\ Eligible(Effective(e, now))
                /\ Effective(e, now).dsince = EndOf(e)
                /\ ~Eligible(e) => Effective(e, now).asince = EndOf(e)
                /\ EndOf(e) \in Nat /\ EndOf(e) <= now
           /\ LiveAt(e, now) => EndOf(e) \in Nat /\ EndOf(e) > now
<1>1. /\ e.display \in Display /\ e.activity \in Activity
      /\ e.dsince \in Nat /\ e.asince \in Nat
  BY DEF Sound, Entry
<1>2. e.display # "Idle" => TTL[e.display] \in Nat
  BY <1>1, CoreAssumption
<1>3. ASSUME ~Expired(e, now) PROVE Effective(e, now) = e
  BY <1>3 DEF Effective
<1>4. ASSUME LiveAt(e, now) PROVE EndOf(e) \in Nat /\ EndOf(e) > now
  BY <1>1, <1>2, <1>4 DEF LiveAt, Expired, EndOf
<1>5. ASSUME Expired(e, now)
      PROVE  /\ Effective(e, now) \in Entry
             /\ Effective(e, now).display = "Idle"
             /\ Eligible(Effective(e, now))
             /\ Effective(e, now).dsince = EndOf(e)
             /\ ~Eligible(e) => Effective(e, now).asince = EndOf(e)
             /\ EndOf(e) \in Nat /\ EndOf(e) <= now
  <2>1. EndOf(e) \in Nat /\ EndOf(e) <= now
    BY <1>1, <1>2, <1>5 DEF Expired, EndOf
  <2> DEFINE a == IF e.activity = "EligibleIdle" THEN e.asince ELSE EndOf(e)
  <2>2. Effective(e, now) =
          [display |-> "Idle", activity |-> "EligibleIdle", dsince |-> EndOf(e), asince |-> a]
    BY <1>5 DEF Effective, EndOf
  <2>3. a \in Nat
    BY <1>1, <2>1
  <2> HIDE DEF a
  <2>4. Effective(e, now) \in Entry
    BY <2>1, <2>2, <2>3 DEF Entry, Display, Activity
  <2> QED
    BY <2>1, <2>2, <2>4 DEF Eligible, a
<1> QED
  BY <1>3, <1>4, <1>5

\* Once decayed, decayed for good, and since the same instant.
LEMMA DecayIsFinal ==
    ASSUME NEW e, Sound(e), NEW t \in Int, NEW now \in Int, t <= now, Expired(e, t)
    PROVE  Expired(e, now)
<1>1. /\ e.display \in Display /\ e.dsince \in Nat
  BY DEF Sound, Entry
<1>2. e.display # "Idle" => TTL[e.display] \in Nat
  BY <1>1, CoreAssumption
<1> QED
  BY <1>1, <1>2 DEF Expired

\* An entry that blocks shows something.
LEMMA BlockerIsLive ==
    ASSUME NEW e, Sound(e), NEW now, Blocks(e, now)
    PROVE  LiveAt(e, now)
BY DEF Sound, Blocks, LiveAt

\* The ends of the blockers among ss that have decayed by now.
LEMMA NewlyEligibleIs ==
    ASSUME NEW ss, \A s \in DOMAIN ss : Sound(ss[s]), NEW now \in Int
    PROVE  /\ \A x : x \in NewlyEligible(ss, now) <=>
                        \E s \in DOMAIN ss :
                            ~Eligible(ss[s]) /\ Expired(ss[s], now) /\ x = EndOf(ss[s])
           /\ NewlyEligible(ss, now) \subseteq Nat
           /\ \A x \in NewlyEligible(ss, now) : x <= now
<1>1. ASSUME NEW s \in DOMAIN ss
      PROVE  /\ ~Eligible(ss[s]) => (Eligible(Effective(ss[s], now)) <=> Expired(ss[s], now))
             /\ ~Eligible(ss[s]) /\ Expired(ss[s], now) =>
                    /\ Effective(ss[s], now).asince = EndOf(ss[s])
                    /\ EndOf(ss[s]) \in Nat /\ EndOf(ss[s]) <= now
  BY EffectiveIs
<1>2. ASSUME NEW x
      PROVE  x \in NewlyEligible(ss, now) <=>
                \E s \in DOMAIN ss :
                    ~Eligible(ss[s]) /\ Expired(ss[s], now) /\ x = EndOf(ss[s])
  BY <1>1 DEF NewlyEligible
<1> QED
  BY <1>1, <1>2

-----------------------------------------------------------------------------
(* The inductive invariant.                                                 *)

Time == Nat \cup {Never}

\* What the observer has written down lies behind the machine's clock.
HeardInv ==
    /\ last_timeline_at \in Time /\ first \in Time /\ ended \in Time
    /\ first <= last_timeline_at /\ ended <= last_timeline_at
    /\ DOMAIN last \subseteq Session
    /\ \A s \in DOMAIN last : Sound(last[s]) /\ last[s].dsince <= last_timeline_at
    /\ first = Never <=> DOMAIN last = {}

\* The sessions heard of that still show something at now.
Showing(now) == {s \in DOMAIN last : LiveAt(last[s], now)}

\* ss is what remains of all that was heard.
Keeps(ss, now) ==
    /\ DOMAIN ss = Showing(now)
    /\ \A s \in DOMAIN ss : ss[s] = last[s]

Blocked(now) == \E s \in DOMAIN last : Blocks(last[s], now)

\* All that an eligible interval comes after.
Bounds(now) == {first} \cup EndsOfBlocking(now)

\* An interval is open iff nothing blocks, and it began with the last of its bounds.
BeginsWith(since, now) ==
    /\ first = Never \/ Blocked(now) => since = Never
    /\ first # Never /\ ~Blocked(now) => Greatest(since, Bounds(now))

\* No forgotten session fell to Idle after d; and d is the fall of one of them,
\* unless a session is left that will fall later.
IdleSinceOK(d, now) ==
    /\ d \in Time /\ d <= now
    /\ \A s \in DOMAIN last \ Showing(now) : Effective(last[s], now).dsince <= d
    /\ d # Never =>
          \/ Showing(now) # {}
          \/ \E s \in DOMAIN last : Effective(last[s], now).dsince = d

KeptInv == Keeps(sessions, last_timeline_at)

EligibleInv == BeginsWith(eligible_since, last_timeline_at)

IdleInv == IdleSinceOK(idle_display_since, last_timeline_at)

CInv == HeardInv /\ KeptInv /\ EligibleInv /\ IdleInv

-----------------------------------------------------------------------------
(* Looking later, without a new event.                                      *)

\* What decays between two instants decays after the first of them.
LEMMA ShowingLater ==
    ASSUME HeardInv, NEW now \in Nat, last_timeline_at <= now
    PROVE  /\ Showing(now) \subseteq Showing(last_timeline_at)
           /\ \A s \in Showing(last_timeline_at) \ Showing(now) :
                 Expired(last[s], now) /\ EndOf(last[s]) > last_timeline_at
           /\ \A s \in DOMAIN last \ Showing(last_timeline_at) :
                 Effective(last[s], now).dsince = Effective(last[s], last_timeline_at).dsince
           /\ \A s \in DOMAIN last \ Showing(now) : Effective(last[s], now).display = "Idle"
<1> DEFINE t == last_timeline_at
<1>1. t \in Int /\ \A s \in DOMAIN last : Sound(last[s])
  BY DEF HeardInv, Time, Never
<1>3. \A s \in DOMAIN last : Expired(last[s], t) => Expired(last[s], now)
  BY <1>1, DecayIsFinal
<1>4. Showing(now) \subseteq Showing(t)
  BY <1>3 DEF Showing, LiveAt
<1>5. ASSUME NEW s \in Showing(t) \ Showing(now)
      PROVE  Expired(last[s], now) /\ EndOf(last[s]) > t
  BY <1>1, EffectiveIs DEF Showing, LiveAt
<1>6. ASSUME NEW s \in DOMAIN last \ Showing(t)
      PROVE  Effective(last[s], now).dsince = Effective(last[s], t).dsince
  <2>1. CASE Expired(last[s], t)
    BY <1>1, <1>3, <2>1, EffectiveIs
  <2>2. CASE ~Expired(last[s], t)
    <3>1. last[s].display = "Idle"
      BY <2>2 DEF Showing, LiveAt
    <3>2. ~Expired(last[s], now)
      BY <3>1 DEF Expired
    <3> QED BY <1>1, <2>2, <3>2, EffectiveIs
  <2> QED BY <2>1, <2>2
<1>7. ASSUME NEW s \in DOMAIN last \ Showing(now)
      PROVE  Effective(last[s], now).display = "Idle"
  <2>1. CASE Expired(last[s], now)
    BY <1>1, <2>1, EffectiveIs
  <2>2. CASE ~Expired(last[s], now)
    BY <1>1, <2>2, EffectiveIs DEF Showing, LiveAt
  <2> QED BY <2>1, <2>2
<1> QED
  BY <1>4, <1>5, <1>6, <1>7

\* advance keeps what still shows something, as it was.
LEMMA AdvancedKeeps ==
    ASSUME HeardInv, KeptInv, NEW now \in Nat, last_timeline_at <= now
    PROVE  Keeps(Advanced(now), now)
<1> DEFINE ss == [s \in DOMAIN sessions |-> Effective(sessions[s], now)]
<1>1. /\ DOMAIN sessions = Showing(last_timeline_at)
      /\ \A s \in DOMAIN sessions : s \in DOMAIN last /\ sessions[s] = last[s]
  BY DEF KeptInv, Keeps, Showing
<1>2. \A s \in DOMAIN last : Sound(last[s])
  BY DEF HeardInv
<1>3. ASSUME NEW s \in DOMAIN sessions
      PROVE  /\ s \in Showing(now) => ss[s] = last[s] /\ ss[s].display # "Idle"
             /\ s \notin Showing(now) => ss[s].display = "Idle"
  <2>1. ss[s] = Effective(last[s], now)
    BY <1>1
  <2>2. CASE s \in Showing(now)
    BY <1>1, <1>2, <2>1, <2>2, EffectiveIs DEF Showing, LiveAt
  <2>3. CASE s \notin Showing(now)
    BY <1>1, <2>1, <2>3, ShowingLater
  <2> QED BY <2>2, <2>3
<1>4. DOMAIN ss = DOMAIN sessions
  OBVIOUS
<1>5. Advanced(now) = [s \in Live(ss) |-> ss[s]]
  BY DEF Advanced, Pruned
<1> HIDE DEF ss
<1>6. Live(ss) = Showing(now)
  BY <1>1, <1>3, <1>4, ShowingLater DEF Live
<1> QED
  BY <1>1, <1>3, <1>4, <1>5, <1>6 DEF Keeps, Live

\* The ends of blocking up to now: those of the forgotten sessions, and those of the
\* sessions that were kept.
LEMMA EndsLater ==
    ASSUME HeardInv, KeptInv, NEW now \in Nat, last_timeline_at <= now
    PROVE  /\ \A x : x \in Bounds(now) <=>
                        (x \in Bounds(last_timeline_at) \/ x \in NewlyEligible(sessions, now))
           /\ Bounds(now) \subseteq Time
           /\ \A x \in Bounds(now) : x <= now
           /\ \A x \in Bounds(last_timeline_at) : x \in Int /\ x <= last_timeline_at
           /\ \A x \in NewlyEligible(sessions, now) :
                 x \in Nat /\ x > last_timeline_at /\ x <= now
<1> DEFINE t == last_timeline_at
<1>1. /\ t \in Int /\ t <= now
      /\ first \in Time /\ first <= t /\ ended \in Time /\ ended <= t
      /\ \A s \in DOMAIN last : Sound(last[s])
  BY DEF HeardInv, Time, Never
<1>2. /\ DOMAIN sessions = Showing(t)
      /\ \A s \in DOMAIN sessions : s \in DOMAIN last /\ sessions[s] = last[s]
  BY DEF KeptInv, Keeps, Showing
<1> DEFINE Ended(x, ss, at) ==
        \E s \in DOMAIN ss : ~Eligible(ss[s]) /\ Expired(ss[s], at) /\ x = EndOf(ss[s])
<1>3. /\ \A x : x \in NewlyEligible(last, t) <=> Ended(x, last, t)
      /\ \A x : x \in NewlyEligible(last, now) <=> Ended(x, last, now)
      /\ NewlyEligible(last, t) \subseteq Nat /\ \A x \in NewlyEligible(last, t) : x <= t
      /\ NewlyEligible(last, now) \subseteq Nat /\ \A x \in NewlyEligible(last, now) : x <= now
  BY <1>1, NewlyEligibleIs
<1>4. /\ \A x : x \in NewlyEligible(sessions, now) <=> Ended(x, sessions, now)
      /\ NewlyEligible(sessions, now) \subseteq Nat
      /\ \A x \in NewlyEligible(sessions, now) : x <= now
  BY <1>1, <1>2, NewlyEligibleIs
<1>5. ASSUME NEW x, Ended(x, last, now)
      PROVE  Ended(x, last, t) \/ Ended(x, sessions, now)
  <2>1. PICK s \in DOMAIN last :
            ~Eligible(last[s]) /\ Expired(last[s], now) /\ x = EndOf(last[s])
    BY <1>5
  <2>2. CASE Expired(last[s], t)
    BY <2>1, <2>2
  <2>3. CASE ~Expired(last[s], t)
    <3>1. s \in Showing(t)
      BY <1>1, <2>1, <2>3, BlockerIsLive DEF Showing, Blocks
    <3> QED BY <1>2, <2>1, <3>1
  <2> QED BY <2>2, <2>3
<1>6. ASSUME NEW x, Ended(x, last, t) PROVE Ended(x, last, now)
  BY <1>1, <1>6, DecayIsFinal
<1>7. ASSUME NEW x, Ended(x, sessions, now) PROVE Ended(x, last, now) /\ x > t
  <2>1. PICK s \in DOMAIN sessions :
            ~Eligible(sessions[s]) /\ Expired(sessions[s], now) /\ x = EndOf(sessions[s])
    BY <1>7
  <2>2. s \in DOMAIN last /\ sessions[s] = last[s] /\ LiveAt(last[s], t)
    BY <1>2 DEF Showing
  <2>3. EndOf(last[s]) > t
    BY <1>1, <2>2, EffectiveIs
  <2> QED BY <2>1, <2>2, <2>3
<1>8. \A x : /\ x \in Bounds(now) <=> (x \in {first, ended} \/ Ended(x, last, now))
             /\ x \in Bounds(t) <=> (x \in {first, ended} \/ Ended(x, last, t))
  BY <1>3 DEF Bounds, EndsOfBlocking
<1>9. \A x : x \in Bounds(now) <=> (x \in Bounds(t) \/ x \in NewlyEligible(sessions, now))
  <2> HIDE DEF Ended
  <2> QED BY <1>4, <1>5, <1>6, <1>7, <1>8
<1>10. Bounds(now) \subseteq Time /\ \A x \in Bounds(now) : x <= now
  BY <1>1, <1>3 DEF Bounds, EndsOfBlocking, Time, Never
<1>11. \A x \in Bounds(t) : x \in Int /\ x <= t
  BY <1>1, <1>3 DEF Bounds, EndsOfBlocking, Time, Never
<1>12. \A x \in NewlyEligible(sessions, now) : x \in Nat /\ x > t /\ x <= now
  <2> HIDE DEF Ended
  <2> QED BY <1>4, <1>7
<1> QED
  BY <1>9, <1>10, <1>11, <1>12

\* The start of the interval as the next event, or the snapshot, would find it.
Since(now) ==
    IF eligible_since # Never THEN eligible_since ELSE Latest(NewlyEligible(sessions, now))

\* It is the last of the ends of blocking, of forgotten sessions too: while something
\* blocks no interval is open, so what ends now ends after all that is forgotten.
LEMMA SinceIsLast ==
    ASSUME HeardInv, KeptInv, EligibleInv, NEW now \in Nat, last_timeline_at <= now
    PROVE  /\ first = Never => Since(now) = Never
           /\ first # Never /\ ~Blocked(now) => Greatest(Since(now), Bounds(now))
<1> DEFINE t == last_timeline_at
           newly == NewlyEligible(sessions, now)
<1>1. /\ t \in Int /\ first \in Time
      /\ \A s \in DOMAIN last : Sound(last[s])
      /\ first = Never => DOMAIN last = {}
  BY DEF HeardInv, Time, Never
<1>2. /\ DOMAIN sessions = Showing(t)
      /\ \A s \in DOMAIN sessions : s \in DOMAIN last /\ sessions[s] = last[s]
  BY DEF KeptInv, Keeps, Showing
<1>3. \A x : x \in newly <=>
        \E s \in DOMAIN sessions :
            ~Eligible(sessions[s]) /\ Expired(sessions[s], now) /\ x = EndOf(sessions[s])
  BY <1>1, <1>2, NewlyEligibleIs
<1>4. /\ \A x \in newly : x \in Nat /\ x > t /\ x <= now
      /\ \A x \in Bounds(t) : x \in Int /\ x <= t
      /\ \A x : x \in Bounds(now) <=> (x \in Bounds(t) \/ x \in newly)
  BY EndsLater
<1> HIDE DEF newly
<1>5. /\ Latest(newly) \in newly \cup {Never}
      /\ \A x \in newly : x <= Latest(newly)
  BY <1>4, LatestIs
<1>6. newly # {} => Blocked(t)
  <2> SUFFICES ASSUME newly # {} PROVE Blocked(t)
    OBVIOUS
  <2>1. PICK s \in DOMAIN sessions : ~Eligible(sessions[s])
    BY <1>3
  <2> QED BY <1>2, <2>1 DEF Showing, LiveAt, Blocked, Blocks
<1>7. CASE first = Never
  <2>1. newly = {} /\ eligible_since = Never
    BY <1>1, <1>2, <1>3, <1>7 DEF EligibleInv, BeginsWith
  <2> QED BY <1>5, <1>7, <2>1 DEF Since, newly
<1>8. CASE first # Never /\ ~Blocked(now)
  <2>1. CASE eligible_since # Never
    <3>1. ~Blocked(t) /\ Greatest(eligible_since, Bounds(t))
      BY <1>8, <2>1 DEF EligibleInv, BeginsWith
    <3>2. newly = {}
      BY <1>6, <3>1
    <3> QED BY <1>4, <1>8, <2>1, <3>1, <3>2 DEF Since, Greatest
  <2>2. CASE eligible_since = Never
    <3>1. first \in Bounds(t) /\ first \in Nat
      BY <1>1, <1>8 DEF Bounds, Time
    <3>2. Blocked(t)
      <4>1. ~Greatest(eligible_since, Bounds(t))
        BY <2>2, <3>1 DEF Greatest, Never
      <4> QED BY <1>8, <4>1 DEF EligibleInv, BeginsWith
    <3>3. PICK s \in DOMAIN last : Blocks(last[s], t)
      BY <3>2 DEF Blocked
    <3>4. s \in DOMAIN sessions /\ sessions[s] = last[s]
      BY <1>1, <1>2, <3>3, BlockerIsLive DEF Showing
    <3>5. Expired(last[s], now) /\ ~Eligible(last[s])
      BY <1>8, <3>3 DEF Blocked, Blocks
    <3>6. EndOf(last[s]) \in newly
      BY <1>3, <3>4, <3>5
    <3>7. Latest(newly) \in newly
      BY <1>4, <1>5, <3>6 DEF Never
    <3>8. \A x \in Bounds(now) : Latest(newly) >= x
      BY <1>1, <1>4, <1>5, <3>7
    <3> QED BY <1>4, <1>8, <2>2, <3>7, <3>8 DEF Since, Greatest, newly
  <2> QED BY <2>1, <2>2
<1> QED
  BY <1>7, <1>8

\* advance leaves the interval as the invariant wants it.
LEMMA AdvancedBegins ==
    ASSUME HeardInv, KeptInv, EligibleInv, NEW now \in Nat, last_timeline_at <= now
    PROVE  BeginsWith(AdvancedEligible(now), now)
<1> DEFINE ss == [s \in DOMAIN sessions |-> Effective(sessions[s], now)]
           t == last_timeline_at
<1>1. /\ t \in Int /\ \A s \in DOMAIN last : Sound(last[s])
      /\ first = Never => DOMAIN last = {}
  BY DEF HeardInv, Time, Never
<1>2. /\ DOMAIN sessions = Showing(t)
      /\ \A s \in DOMAIN sessions : s \in DOMAIN last /\ sessions[s] = last[s]
  BY DEF KeptInv, Keeps, Showing
<1>3. DOMAIN ss = DOMAIN sessions
  OBVIOUS
<1>4. ASSUME NEW s \in DOMAIN sessions
      PROVE  ~Eligible(ss[s]) <=> Blocks(last[s], now)
  <2>1. ss[s] = Effective(last[s], now)
    BY <1>2
  <2>2. CASE Expired(last[s], now)
    BY <1>1, <1>2, <2>1, <2>2, EffectiveIs DEF Blocks
  <2>3. CASE ~Expired(last[s], now)
    BY <1>1, <1>2, <2>1, <2>3, EffectiveIs DEF Blocks
  <2> QED BY <2>2, <2>3
<1>5. AdvancedEligible(now) =
        IF ~AllEligible(ss) THEN Never
        ELSE IF eligible_since = Never /\ ss # <<>> THEN Latest(NewlyEligible(sessions, now))
        ELSE eligible_since
  BY DEF AdvancedEligible
<1>6. ss = <<>> => DOMAIN sessions = {}
  <2>1. ss = <<>> => DOMAIN ss = {}
    OBVIOUS
  <2> QED BY <1>3, <2>1
<1> HIDE DEF ss
<1>7. AllEligible(ss) <=> ~Blocked(now)
  <2>1. ASSUME NEW s \in DOMAIN last, Blocks(last[s], now) PROVE s \in DOMAIN sessions
    BY <1>1, <1>2, <2>1, BlockerIsLive, ShowingLater DEF Showing
  <2> QED BY <1>2, <1>3, <1>4, <2>1 DEF AllEligible, Blocked
<1>8. DOMAIN sessions = {} => Latest(NewlyEligible(sessions, now)) = Never
  <2> SUFFICES ASSUME DOMAIN sessions = {}
               PROVE  Latest(NewlyEligible(sessions, now)) = Never
    OBVIOUS
  <2>1. NewlyEligible(sessions, now) = {}
    BY NewlyEligibleIs
  <2> QED BY <2>1, LatestIs
<1>9. ~Blocked(now) => AdvancedEligible(now) = Since(now)
  BY <1>5, <1>6, <1>7, <1>8 DEF Since
<1>10. Blocked(now) => AdvancedEligible(now) = Never
  BY <1>5, <1>7
<1>11. first = Never => ~Blocked(now)
  BY <1>1 DEF Blocked
<1> QED
  BY <1>9, <1>10, <1>11, SinceIsLast DEF BeginsWith

\* advance leaves the time of the last fall to Idle as the invariant wants it.
LEMMA AdvancedFalls ==
    ASSUME HeardInv, KeptInv, IdleInv, NEW now \in Nat, last_timeline_at <= now
    PROVE  IdleSinceOK(AdvancedIdle(now), now)
<1> DEFINE t == last_timeline_at
           d == idle_display_since
           ss == [s \in DOMAIN sessions |-> Effective(sessions[s], now)]
           falls == {d} \cup {ss[s].dsince : s \in DOMAIN ss \ Live(ss)}
           D == AdvancedIdle(now)
<1>1. /\ t \in Int /\ \A s \in DOMAIN last : Sound(last[s])
      /\ d \in Time /\ d <= t
      /\ \A s \in DOMAIN last \ Showing(t) : Effective(last[s], t).dsince <= d
      /\ d # Never => \/ Showing(t) # {}
                      \/ \E s \in DOMAIN last : Effective(last[s], t).dsince = d
  BY DEF HeardInv, IdleInv, IdleSinceOK, Time, Never
<1>2. /\ DOMAIN sessions = Showing(t)
      /\ \A s \in DOMAIN sessions : s \in DOMAIN last /\ sessions[s] = last[s]
  BY DEF KeptInv, Keeps, Showing
<1>3. ASSUME NEW s \in Showing(t)
      PROVE  /\ ss[s] = Effective(last[s], now)
             /\ s \notin Showing(now) =>
                   /\ Effective(last[s], now).display = "Idle"
                   /\ Effective(last[s], now).dsince = EndOf(last[s])
                   /\ EndOf(last[s]) \in Nat /\ EndOf(last[s]) <= now /\ EndOf(last[s]) > t
             /\ s \in Showing(now) => Effective(last[s], now).display # "Idle"
  <2>1. s \in DOMAIN last /\ ss[s] = Effective(last[s], now) /\ Sound(last[s])
    BY <1>1, <1>2 DEF Showing
  <2>2. CASE s \in Showing(now)
    BY <2>1, <2>2, EffectiveIs DEF Showing, LiveAt
  <2>3. CASE s \notin Showing(now)
    <3>1. Expired(last[s], now) /\ EndOf(last[s]) > t
      BY <2>3, ShowingLater
    <3> QED BY <2>1, <2>3, <3>1, EffectiveIs
  <2> QED BY <2>1, <2>2, <2>3
<1>4. DOMAIN ss = Showing(t)
  BY <1>2
<1>5. DOMAIN ss \ Live(ss) = Showing(t) \ Showing(now)
  <2> HIDE DEF ss
  <2> QED BY <1>3, <1>4 DEF Live
<1>6. \A x : x \in falls <=>
         (x = d \/ \E s \in Showing(t) \ Showing(now) : x = EndOf(last[s]))
  BY <1>3, <1>5
<1>7. D = Latest(falls)
  BY DEF AdvancedIdle, IdleSince
<1> HIDE DEF ss, falls, D
<1>8. falls \subseteq Time /\ \A x \in falls : x <= now
  BY <1>1, <1>3, <1>6 DEF Time, Never
<1>9. D \in falls \cup {Never} /\ D \in Time /\ D <= now /\ \A x \in falls : x <= D
  BY <1>7, <1>8, LatestIs DEF Time
<1>10. ASSUME NEW s \in DOMAIN last \ Showing(now)
       PROVE  Effective(last[s], now).dsince <= D
  <2>1. CASE s \in Showing(t)
    BY <1>3, <1>6, <1>9, <2>1
  <2>2. CASE s \notin Showing(t)
    <3>1. Effective(last[s], now).dsince <= d
      BY <1>1, <2>2, ShowingLater
    <3>2. d <= D
      BY <1>6, <1>9
    <3>3. Effective(last[s], now).dsince \in Nat
      <4>1. CASE Expired(last[s], now)
        BY <1>1, <4>1, EffectiveIs
      <4>2. CASE ~Expired(last[s], now)
        BY <1>1, <4>2, EffectiveIs DEF Sound, Entry
      <4> QED BY <4>1, <4>2
    <3> QED BY <1>1, <1>9, <3>1, <3>2, <3>3 DEF Time, Never
  <2> QED BY <2>1, <2>2
<1>11. ASSUME D # Never, Showing(now) = {}
       PROVE  \E s \in DOMAIN last : Effective(last[s], now).dsince = D
  <2>1. CASE \E s \in Showing(t) : D = EndOf(last[s])
    BY <1>3, <1>11, <2>1 DEF Showing
  <2>2. CASE ~\E s \in Showing(t) : D = EndOf(last[s])
    <3>1. D = d
      BY <1>6, <1>9, <1>11, <2>2
    <3>2. Showing(t) = {}
      <4>1. SUFFICES ASSUME NEW s \in Showing(t) PROVE FALSE
        OBVIOUS
      <4>2. EndOf(last[s]) \in falls /\ EndOf(last[s]) > t /\ EndOf(last[s]) \in Nat
        BY <1>3, <1>6, <1>11, <4>1
      <4> QED BY <1>1, <1>9, <3>1, <4>2 DEF Time, Never
    <3>3. PICK s \in DOMAIN last : Effective(last[s], t).dsince = d
      BY <1>1, <1>11, <3>1, <3>2
    <3> QED BY <3>1, <3>2, <3>3, ShowingLater
  <2> QED BY <2>1, <2>2
<1> QED
  BY <1>9, <1>10, <1>11 DEF IdleSinceOK, D

-----------------------------------------------------------------------------
(* One signal more.                                                         *)

LEMMA TimelineIs ==
    ASSUME last_timeline_at \in Time, NEW received_at \in Nat
    PROVE  /\ Timeline(received_at) \in Nat
           /\ last_timeline_at <= Timeline(received_at)
<1> DEFINE S == {last_timeline_at, received_at}
           b == received_at + last_timeline_at + 1
<1>1. S \subseteq Nat \cup {Never} /\ b \in Nat /\ \A x \in S : x <= b
  BY DEF Time, Never
<1>2. Timeline(received_at) = Latest(S)
  BY DEF Timeline
<1> HIDE DEF S, b
<1>3. /\ Latest(S) \in Nat \cup {Never}
      /\ \A x \in S : x <= Latest(S)
  BY <1>1, LatestIs
<1> QED
  BY <1>2, <1>3 DEF S, Never

\* What each hook event inserts.
LEMMA SignalIsSound ==
    ASSUME NEW kind \in HookKind, NEW at \in Nat,
           NEW e, e = [display |-> Meaning[kind][1], activity |-> Meaning[kind][2],
                       dsince |-> at, asince |-> at]
    PROVE  Sound(e) /\ e.dsince = at /\ ~Expired(e, at)
<1>1. /\ Meaning[kind][1] \in Display /\ Meaning[kind][2] \in Activity
      /\ Meaning[kind][1] = "Idle" => Meaning[kind][2] = "EligibleIdle"
  BY DEF HookKind, Meaning, Display, Activity
<1>2. e.display # "Idle" => TTL[e.display] \in Nat
  BY <1>1, CoreAssumption
<1> QED
  BY <1>1, <1>2 DEF Sound, Entry, Eligible, Expired

\* The observer notes the end of the blocking signal that is replaced: its decay if
\* it has decayed, the moment of its replacement otherwise.
LEMMA ObservedEnd ==
    ASSUME HeardInv, NEW s \in Session, NEW e, NEW at \in Nat, last_timeline_at <= at,
           Sound(e), e.dsince = at, Observe(s, e)
    PROVE  /\ ended' \in Time /\ ended <= ended' /\ ended' <= at
           /\ ~(s \in DOMAIN last /\ ~Eligible(last[s])) => ended' = ended
           /\ s \in DOMAIN last /\ ~Eligible(last[s]) /\ Expired(last[s], at) =>
                ended' \in {ended, EndOf(last[s])} /\ EndOf(last[s]) <= ended'
           /\ s \in DOMAIN last /\ Blocks(last[s], at) => ended' = at
<1>1. /\ ended \in Time /\ ended \in Int /\ ended <= at
      /\ \A u \in DOMAIN last : Sound(last[u])
  BY DEF HeardInv, Time, Never
<1>2. CASE ~(s \in DOMAIN last /\ ~Eligible(last[s]))
  <2>1. ended' = ended
    BY <1>2 DEF Observe
  <2> QED BY <1>1, <1>2, <2>1 DEF Blocks
<1>3. CASE s \in DOMAIN last /\ ~Eligible(last[s])
  <2> DEFINE m == IF Expired(last[s], at) THEN EndOf(last[s]) ELSE at
             R == {at, EndOf(last[s])}
  <2>1. LiveAt(last[s], at) <=> ~Expired(last[s], at)
    BY <1>1, <1>3 DEF Sound, LiveAt
  <2>2. /\ EndOf(last[s]) \in Nat
        /\ Expired(last[s], at) => EndOf(last[s]) <= at
        /\ ~Expired(last[s], at) => EndOf(last[s]) > at
    BY <1>1, <1>3, <2>1, EffectiveIs
  <2>3. m \in Nat /\ m <= at
    BY <2>2
  <2>4. Min(R) = m
    <3> DEFINE P(y) == y \in R /\ \A x \in R : y <= x
    <3>1. P(m) /\ \A y : P(y) => y = m
      BY <2>2
    <3>2. Min(R) = CHOOSE y : P(y)
      BY DEF Min
    <3> HIDE DEF P, R
    <3> QED BY <3>1, <3>2
  <2>5. ended' = Latest({ended, m})
    BY <1>3, <2>4 DEF Observe, EndOf
  <2> HIDE DEF m, R
  <2>6. /\ {ended, m} \subseteq Nat \cup {Never} /\ \A x \in {ended, m} : x <= at
    BY <1>1, <2>3 DEF Time
  <2>7. /\ ended' \in {ended, m} \cup {Never} /\ ended' \in Time /\ ended' <= at
        /\ ended <= ended' /\ m <= ended'
    BY <2>5, <2>6, LatestIs DEF Time
  <2>8. ended' \in {ended, m}
    BY <1>1, <2>3, <2>7 DEF Never
  <2>9. CASE Expired(last[s], at)
    BY <1>3, <2>7, <2>8, <2>9 DEF m, Blocks
  <2>10. CASE ~Expired(last[s], at)
    <3>1. m = at
      BY <2>10 DEF m
    <3>2. ended' = at
      BY <2>7, <3>1 DEF Time, Never
    <3> QED BY <1>3, <2>7, <2>10, <3>2 DEF Blocks
  <2> QED BY <2>9, <2>10
<1> QED
  BY <1>2, <1>3

LEMMA ObservedHeard ==
    ASSUME HeardInv, NEW s \in Session, NEW e, NEW at \in Nat, last_timeline_at <= at,
           Sound(e), e.dsince = at, Observe(s, e), last_timeline_at' = at
    PROVE  HeardInv'
<1>1. /\ last_timeline_at \in Int /\ first \in Time /\ first <= at
      /\ DOMAIN last \subseteq Session
      /\ \A u \in DOMAIN last : Sound(last[u]) /\ last[u].dsince <= last_timeline_at
  BY DEF HeardInv, Time, Never
<1>2. last' = [u \in DOMAIN last \cup {s} |-> IF u = s THEN e ELSE last[u]]
  BY DEF Observe
<1>3. first' \in Nat /\ first' <= at
  BY <1>1 DEF Observe, Time
<1>4. ASSUME NEW u \in DOMAIN last' PROVE Sound(last'[u]) /\ last'[u].dsince <= at
  <2>1. CASE u = s
    BY <1>2, <2>1
  <2>2. CASE u # s
    <3>1. last'[u] = last[u] /\ u \in DOMAIN last
      BY <1>2, <2>2
    <3>2. last[u].dsince \in Nat
      BY <1>1, <3>1 DEF Sound, Entry
    <3> QED BY <1>1, <3>1, <3>2
  <2> QED BY <2>1, <2>2
<1>5. DOMAIN last' \subseteq Session /\ DOMAIN last' # {}
  BY <1>1, <1>2
<1>6. ended' \in Time /\ ended' <= at
  BY ObservedEnd
<1>7. at \in Time /\ first' \in Time /\ first' # Never
  BY <1>3 DEF Time, Never
<1>8. \A u \in DOMAIN last' : Sound(last[u])' /\ last'[u].dsince <= at
  BY <1>4 DEF Sound, Entry, Eligible
<1> QED
  BY <1>3, <1>5, <1>6, <1>7, <1>8 DEF HeardInv, Time

\* What a signal changes of what is showing, and of what blocks.
LEMMA ObservedShowing ==
    ASSUME HeardInv, NEW s \in Session, NEW e, NEW at \in Nat,
           Sound(e), ~Expired(e, at), Observe(s, e)
    PROVE  /\ DOMAIN last' = DOMAIN last \cup {s} /\ last'[s] = e
           /\ \A u \in DOMAIN last \ {s} : last'[u] = last[u]
           /\ Showing(at)' = (Showing(at) \ {s}) \cup (IF e.display = "Idle" THEN {} ELSE {s})
           /\ Blocked(at)' <=>
                \/ ~Eligible(e)
                \/ \E u \in DOMAIN last \ {s} : Blocks(last[u], at)
<1>1. last' = [u \in DOMAIN last \cup {s} |-> IF u = s THEN e ELSE last[u]]
  BY DEF Observe
<1>2. /\ DOMAIN last' = DOMAIN last \cup {s} /\ last'[s] = e
      /\ \A u \in DOMAIN last \ {s} : last'[u] = last[u]
  BY <1>1
<1>3. Showing(at)' = {u \in DOMAIN last' : LiveAt(last'[u], at)}
  BY DEF Showing, LiveAt, Expired
<1>4. LiveAt(e, at) <=> e.display # "Idle"
  BY DEF LiveAt
<1>5. Showing(at)' = (Showing(at) \ {s}) \cup (IF e.display = "Idle" THEN {} ELSE {s})
  BY <1>2, <1>3, <1>4 DEF Showing
<1>6. Blocked(at)' <=> \E u \in DOMAIN last' : Blocks(last'[u], at)
  BY DEF Blocked, Blocks, Eligible, Expired
<1>7. Blocks(e, at) <=> ~Eligible(e)
  BY DEF Blocks
<1> QED
  BY <1>2, <1>5, <1>6, <1>7

\* The sessions once e has been inserted.
Inserted(s, e, at) ==
    [u \in DOMAIN Advanced(at) \cup {s} |-> IF u = s THEN e ELSE Advanced(at)[u]]

LEMMA InsertedIs ==
    ASSUME HeardInv, KeptInv, NEW s \in Session, NEW e, NEW at \in Nat, last_timeline_at <= at
    PROVE  /\ Inserted(s, e, at)[s] = e
           /\ \A u \in Showing(at) \ {s} : Inserted(s, e, at)[u] = last[u]
           /\ \A u : u \in Live(Inserted(s, e, at)) <=>
                        (IF u = s THEN e.display # "Idle" ELSE u \in Showing(at))
           /\ \A u : u \in DOMAIN Inserted(s, e, at) \ Live(Inserted(s, e, at)) <=>
                        (u = s /\ e.display = "Idle")
           /\ AllEligible(Inserted(s, e, at)) <=>
                /\ Eligible(e)
                /\ ~\E u \in DOMAIN last \ {s} : Blocks(last[u], at)
<1> DEFINE ss == Inserted(s, e, at)
<1>1. DOMAIN Advanced(at) = Showing(at) /\ \A u \in Showing(at) : Advanced(at)[u] = last[u]
  BY AdvancedKeeps DEF Keeps
<1>2. /\ DOMAIN ss = Showing(at) \cup {s} /\ ss[s] = e
      /\ \A u \in Showing(at) \ {s} : ss[u] = last[u]
  BY <1>1 DEF Inserted
<1> HIDE DEF ss
<1>3. \A u \in Showing(at) : u \in DOMAIN last /\ last[u].display # "Idle"
  BY DEF Showing, LiveAt
<1>4. /\ \A u : u \in Live(ss) <=>
                (IF u = s THEN e.display # "Idle" ELSE u \in Showing(at))
      /\ \A u : u \in DOMAIN ss \ Live(ss) <=> (u = s /\ e.display = "Idle")
  BY <1>2, <1>3 DEF Live
<1>5. \A u \in DOMAIN last : Blocks(last[u], at) <=> u \in Showing(at) /\ ~Eligible(last[u])
  BY BlockerIsLive DEF HeardInv, Showing, LiveAt, Blocks
<1>6. AllEligible(ss) <=> Eligible(e) /\ \A u \in Showing(at) \ {s} : Eligible(last[u])
  BY <1>2 DEF AllEligible
<1>7. AllEligible(ss) <=> /\ Eligible(e)
                          /\ ~\E u \in DOMAIN last \ {s} : Blocks(last[u], at)
  BY <1>3, <1>5, <1>6
<1> QED
  BY <1>2, <1>4, <1>7 DEF ss

\* A signal that does not block leaves an open interval where it began.
LEMMA BoundsKept ==
    ASSUME HeardInv, NEW s \in Session, NEW e, NEW at \in Nat, last_timeline_at <= at,
           Sound(e), e.dsince = at, ~Expired(e, at), Eligible(e), Observe(s, e),
           first # Never, ~Blocked(at), NEW x, Greatest(x, Bounds(at))
    PROVE  Greatest(x, Bounds(at)')
<1> DEFINE Ended(y, ss) ==
        \E u \in DOMAIN ss : ~Eligible(ss[u]) /\ Expired(ss[u], at) /\ y = EndOf(ss[u])
<1>1. \A u \in DOMAIN last : Sound(last[u])
  BY DEF HeardInv
<1>2. /\ DOMAIN last' = DOMAIN last \cup {s} /\ last'[s] = e
      /\ \A u \in DOMAIN last \ {s} : last'[u] = last[u]
  BY ObservedShowing
<1>3. \A u \in DOMAIN last' : Sound(last'[u])
  BY <1>1, <1>2
<1>4. /\ \A y : y \in NewlyEligible(last, at) <=> Ended(y, last)
      /\ \A y \in NewlyEligible(last, at) : y \in Nat /\ y <= at
  BY <1>1, NewlyEligibleIs
<1>5. \A y : y \in NewlyEligible(last', at) <=> Ended(y, last')
  BY <1>3, NewlyEligibleIs
<1>6. \A y : Ended(y, last') <=>
        \E u \in DOMAIN last \ {s} :
            ~Eligible(last[u]) /\ Expired(last[u], at) /\ y = EndOf(last[u])
  BY <1>2
<1>7. first' = first
  BY DEF Observe
<1>8. Bounds(at) = {first} \cup ({ended} \cup NewlyEligible(last, at))
  BY DEF Bounds, EndsOfBlocking
<1>9. Bounds(at)' = {first'} \cup ({ended'} \cup NewlyEligible(last', at))
  BY DEF Bounds, EndsOfBlocking, NewlyEligible, Effective, Eligible, Expired
<1>10. /\ ended' \in {ended} \cup NewlyEligible(last, at)
       /\ ended' \in Time /\ ended \in Time /\ ended <= ended'
       /\ s \in DOMAIN last /\ ~Eligible(last[s]) /\ Expired(last[s], at) =>
            EndOf(last[s]) <= ended'
  <2>1. ended \in Time
    BY DEF HeardInv
  <2>2. s \in DOMAIN last /\ ~Eligible(last[s]) => Expired(last[s], at)
    BY DEF Blocked, Blocks
  <2>3. s \in DOMAIN last /\ ~Eligible(last[s]) => EndOf(last[s]) \in NewlyEligible(last, at)
    BY <1>4, <2>2
  <2> QED
    BY <2>1, <2>2, <2>3, ObservedEnd
<1>11. \A y : Ended(y, last') => Ended(y, last)
  BY <1>6
<1> HIDE DEF Ended
<1>12. x \in Bounds(at) /\ \A y \in Bounds(at) : x >= y
  BY DEF Greatest
<1>13. \A y \in Bounds(at)' : y \in Bounds(at)
  BY <1>4, <1>5, <1>7, <1>8, <1>9, <1>10, <1>11
<1>14. ended' \in Bounds(at) /\ x >= ended'
  BY <1>8, <1>10, <1>12
<1>15. x \in Bounds(at)'
  <2>1. CASE x = first
    BY <1>7, <1>9, <2>1
  <2>2. CASE x = ended
    BY <1>9, <1>10, <1>14, <2>2 DEF Time, Never
  <2>3. CASE x \in NewlyEligible(last, at)
    <3>1. PICK u \in DOMAIN last :
              ~Eligible(last[u]) /\ Expired(last[u], at) /\ x = EndOf(last[u])
      BY <1>4, <2>3 DEF Ended
    <3>2. CASE u = s
      <4>1. x <= ended' /\ x \in Nat
        BY <1>4, <1>10, <2>3, <3>1, <3>2
      <4>2. x = ended'
        BY <1>10, <1>14, <4>1 DEF Time, Never
      <4> QED BY <1>9, <4>2
    <3>3. CASE u # s
      BY <1>5, <1>6, <1>9, <3>1, <3>3
    <3> QED BY <3>2, <3>3
  <2> QED BY <1>8, <1>12, <2>1, <2>2, <2>3
<1> QED
  BY <1>12, <1>13, <1>15 DEF Greatest

\* A signal leaves the interval as the invariant wants it.
LEMMA SignalBegins ==
    ASSUME HeardInv, KeptInv, EligibleInv,
           NEW s \in Session, NEW e, NEW at \in Nat, last_timeline_at <= at,
           Sound(e), e.dsince = at, ~Expired(e, at), Observe(s, e), last_timeline_at' = at,
           eligible_since' =
               EligibleAfter(Inserted(s, e, at), AdvancedEligible(at), e.activity, at)
    PROVE  EligibleInv'
<1> DEFINE since == AdvancedEligible(at)
           ss == Inserted(s, e, at)
<1>0. HeardInv'
  BY ObservedHeard
<1>1. /\ first' \in Nat /\ first' # Never
      /\ first # Never => first' = first
      /\ first = Never => first' = at /\ DOMAIN last = {}
  BY DEF HeardInv, Observe, Time, Never
<1>2. /\ first = Never \/ Blocked(at) => since = Never
      /\ first # Never /\ ~Blocked(at) => Greatest(since, Bounds(at))
  BY AdvancedBegins DEF BeginsWith
<1>3. /\ AllEligible(ss) <=> Eligible(e) /\ ~\E u \in DOMAIN last \ {s} : Blocks(last[u], at)
      /\ Blocked(at)' <=>
            ~Eligible(e) \/ \E u \in DOMAIN last \ {s} : Blocks(last[u], at)
  <2>1. AllEligible(ss) <=>
            Eligible(e) /\ ~\E u \in DOMAIN last \ {s} : Blocks(last[u], at)
    BY InsertedIs
  <2>2. Blocked(at)' <=>
            ~Eligible(e) \/ \E u \in DOMAIN last \ {s} : Blocks(last[u], at)
    BY ObservedShowing
  <2> QED BY <2>1, <2>2
<1>4. Eligible(e) <=> e.activity = "EligibleIdle"
  BY DEF Eligible
<1> HIDE DEF since, ss
<1>5. eligible_since' = IF ~Eligible(e) THEN Never
                        ELSE IF since = Never /\ AllEligible(ss) THEN at ELSE since
  BY <1>4 DEF EligibleAfter, since, ss
<1>6. SUFFICES BeginsWith(eligible_since, at)'
  BY DEF EligibleInv, BeginsWith, Blocked, Bounds, EndsOfBlocking
<1>7. CASE Blocked(at)'
  <2>1. eligible_since' = Never
    <3>1. CASE Eligible(e)
      <4>1. Blocked(at)
        BY <1>3, <1>7, <3>1 DEF Blocked
      <4> QED BY <1>2, <1>3, <1>5, <1>7, <4>1
    <3> QED BY <1>5, <3>1
  <2> QED BY <1>7, <2>1 DEF BeginsWith
<1>8. CASE ~Blocked(at)'
  <2>1. Eligible(e) /\ AllEligible(ss)
    BY <1>3, <1>8
  <2>2. CASE first # Never /\ ~Blocked(at)
    <3>1. Greatest(since, Bounds(at))
      BY <1>2, <2>2
    <3>2. since # Never
      <4>1. first \in Nat /\ first \in Bounds(at)
        BY <1>1, <2>2 DEF Bounds
      <4>2. since >= first
        BY <3>1, <4>1 DEF Greatest
      <4> QED BY <4>1, <4>2 DEF Never
    <3>3. Greatest(since, Bounds(at)')
      BY <2>1, <2>2, <3>1, BoundsKept
    <3>4. eligible_since' = since
      BY <1>5, <2>1, <3>2
    <3>5. Greatest(eligible_since', Bounds(at)')
      BY <3>3, <3>4
    <3>6. Greatest(eligible_since, Bounds(at))'
      BY <3>5 DEF Greatest
    <3> QED BY <1>1, <1>8, <3>6 DEF BeginsWith
  <2>3. CASE first = Never \/ Blocked(at)
    <3>1. eligible_since' = at
      BY <1>2, <1>5, <2>1, <2>3
    <3>2. at \in {first', ended'}
      <4>1. CASE first = Never
        BY <1>1, <4>1
      <4>2. CASE Blocked(at)
        <5>1. s \in DOMAIN last /\ Blocks(last[s], at)
          BY <1>3, <1>8, <4>2 DEF Blocked
        <5> QED BY <5>1, ObservedEnd
      <4> QED BY <2>3, <4>1, <4>2
    <3>3. /\ first' <= at /\ ended' <= at
          /\ \A x \in NewlyEligible(last', at) : x \in Nat /\ x <= at
      <4>1. \A u \in DOMAIN last' : Sound(last'[u])
        BY <1>0 DEF HeardInv, Sound, Entry, Eligible
      <4>2. first' <= at /\ ended' <= at
        BY <1>0 DEF HeardInv
      <4> QED BY <4>1, <4>2, NewlyEligibleIs
    <3>4. Bounds(at)' = {first'} \cup ({ended'} \cup NewlyEligible(last', at))
      BY DEF Bounds, EndsOfBlocking, NewlyEligible, Effective, Eligible, Expired
    <3>5. ended' \in Int /\ first' \in Int
      BY <1>0 DEF HeardInv, Time, Never
    <3>6. Greatest(at, Bounds(at)')
      BY <3>2, <3>3, <3>4, <3>5 DEF Greatest
    <3>7. Greatest(eligible_since, Bounds(at))'
      BY <3>1, <3>6 DEF Greatest
    <3> QED BY <1>1, <1>8, <3>7 DEF BeginsWith
  <2> QED BY <2>2, <2>3
<1> QED
  BY <1>7, <1>8

\* A signal leaves the time of the last fall to Idle as the invariant wants it.
LEMMA SignalFalls ==
    ASSUME HeardInv, KeptInv, IdleInv,
           NEW s \in Session, NEW e, NEW at \in Nat, last_timeline_at <= at,
           Sound(e), e.dsince = at, ~Expired(e, at), Observe(s, e), last_timeline_at' = at,
           idle_display_since' = IdleSince(Inserted(s, e, at), AdvancedIdle(at))
    PROVE  IdleInv'
<1> DEFINE d == AdvancedIdle(at)
           ss == Inserted(s, e, at)
           falls == {d} \cup {ss[u].dsince : u \in DOMAIN ss \ Live(ss)}
           D == idle_display_since'
<1>1. /\ d \in Time /\ d <= at
      /\ \A u \in DOMAIN last \ Showing(at) : Effective(last[u], at).dsince <= d
      /\ d # Never => \/ Showing(at) # {}
                      \/ \E u \in DOMAIN last : Effective(last[u], at).dsince = d
  BY AdvancedFalls DEF IdleSinceOK
<1>2. /\ DOMAIN last' = DOMAIN last \cup {s} /\ last'[s] = e
      /\ \A u \in DOMAIN last \ {s} : last'[u] = last[u]
      /\ Showing(at)' = (Showing(at) \ {s}) \cup (IF e.display = "Idle" THEN {} ELSE {s})
  BY ObservedShowing
<1>3. /\ ss[s] = e
      /\ \A u : u \in DOMAIN ss \ Live(ss) <=> (u = s /\ e.display = "Idle")
  BY InsertedIs
<1>4. D = Latest(falls)
  BY DEF IdleSince
<1>5. Effective(e, at) = e
  BY EffectiveIs
<1> HIDE DEF d, ss, D
<1>6. /\ e.display = "Idle" => falls = {d, at}
      /\ e.display # "Idle" => falls = {d}
  BY <1>3
<1> HIDE DEF falls
<1>7. falls \subseteq Nat \cup {Never} /\ \A x \in falls : x <= at
  BY <1>1, <1>6 DEF Time, Never
<1>8. D \in falls \cup {Never} /\ D \in Time /\ D <= at /\ \A x \in falls : x <= D
  BY <1>4, <1>7, LatestIs DEF Time
<1>9. /\ e.display = "Idle" => D = at
      /\ e.display # "Idle" => D = d
  BY <1>1, <1>6, <1>8 DEF Time, Never
<1>10. /\ e.display = "Idle" => Showing(at)' = Showing(at) \ {s}
       /\ e.display # "Idle" => Showing(at)' = (Showing(at) \ {s}) \cup {s}
  BY <1>2
<1>11. ASSUME NEW u \in DOMAIN last' \ Showing(at)'
       PROVE  Effective(last'[u], at).dsince <= D
  <2>1. CASE u = s
    BY <1>2, <1>5, <1>9, <1>10, <1>11, <2>1
  <2>2. CASE u # s
    <3>1. u \in DOMAIN last \ Showing(at) /\ last'[u] = last[u]
      BY <1>2, <1>10, <2>2
    <3>2. Effective(last[u], at).dsince <= d /\ d <= at
      BY <1>1, <3>1
    <3>3. Effective(last[u], at).dsince \in Int
      <4>1. Sound(last[u])
        BY <3>1 DEF HeardInv
      <4>2. CASE Expired(last[u], at)
        BY <4>1, <4>2, EffectiveIs
      <4>3. CASE ~Expired(last[u], at)
        BY <4>1, <4>3, EffectiveIs DEF Sound, Entry
      <4> QED BY <4>2, <4>3
    <3>4. D = d \/ D = at
      BY <1>9
    <3>5. Effective(last'[u], at) = Effective(last[u], at)
      BY <3>1
    <3>6. d \in Int
      BY <1>1 DEF Time, Never
    <3> QED BY <3>2, <3>3, <3>4, <3>5, <3>6
  <2> QED BY <2>1, <2>2
<1>12. Showing(at)' # {} \/ \E u \in DOMAIN last' : Effective(last'[u], at).dsince = D
  <2>1. CASE e.display = "Idle"
    BY <1>2, <1>5, <1>9, <2>1
  <2>2. CASE e.display # "Idle"
    BY <1>10, <2>2
  <2> QED BY <2>1, <2>2
<1>13. IdleSinceOK(idle_display_since, at)'
  BY <1>8, <1>11, <1>12 DEF IdleSinceOK, D, Time, Effective, Expired
<1> QED
  BY <1>13 DEF IdleInv, IdleSinceOK, Showing

-----------------------------------------------------------------------------
(* The invariant is inductive.                                              *)

LEMMA InitIsSound == Init => CInv
<1> SUFFICES ASSUME Init PROVE CInv
  OBVIOUS
<1>1. /\ DOMAIN sessions = {} /\ DOMAIN last = {}
      /\ eligible_since = Never /\ idle_display_since = Never /\ last_timeline_at = Never
      /\ first = Never /\ ended = Never
  BY DEF Init
<1>2. HeardInv
  BY <1>1 DEF HeardInv, Time, Never
<1>3. KeptInv
  BY <1>1 DEF KeptInv, Keeps, Showing
<1>4. EligibleInv
  BY <1>1 DEF EligibleInv, BeginsWith, Blocked
<1>5. IdleInv
  BY <1>1 DEF IdleInv, IdleSinceOK, Time, Never
<1> QED
  BY <1>2, <1>3, <1>4, <1>5 DEF CInv

LEMMA InformIsSound ==
    ASSUME CInv, NEW received_at \in Nat, Inform(received_at)
    PROVE  CInv'
<1>1. PICK at \in Nat : at = Timeline(received_at) /\ last_timeline_at <= at
  BY TimelineIs DEF CInv, HeardInv
<1>2. /\ last_timeline_at' = at /\ last' = last /\ first' = first /\ ended' = ended
      /\ eligible_since' = AdvancedEligible(at)
      /\ sessions' = Advanced(at)
      /\ idle_display_since' = AdvancedIdle(at)
  BY <1>1 DEF Inform, observer
<1>3. HeardInv'
  <2>1. ASSUME NEW s \in DOMAIN last PROVE last[s].dsince \in Nat /\ last[s].dsince <= at
    BY <1>1 DEF CInv, HeardInv, Sound, Entry, Time, Never
  <2>2. first <= at /\ ended <= at
    BY <1>1 DEF CInv, HeardInv, Time, Never
  <2>3. \A s \in DOMAIN last' : Sound(last'[s])
    BY <1>2 DEF CInv, HeardInv
  <2> QED
    BY <1>2, <2>1, <2>2, <2>3 DEF CInv, HeardInv, Time, Sound, Entry, Eligible
<1>4. KeptInv'
  <2>1. Keeps(Advanced(at), at)
    BY <1>1, AdvancedKeeps DEF CInv
  <2> QED
    BY <1>2, <2>1 DEF KeptInv, Keeps, Showing, LiveAt, Expired
<1>5. EligibleInv'
  <2>1. BeginsWith(AdvancedEligible(at), at)
    BY <1>1, AdvancedBegins DEF CInv
  <2>2. (Blocked(at) <=> Blocked(last_timeline_at)') /\ Bounds(last_timeline_at)' = Bounds(at)
    BY <1>2 DEF Blocked, Blocks, Eligible, Expired, Bounds, EndsOfBlocking, NewlyEligible,
                Effective
  <2> QED
    BY <1>2, <2>1, <2>2 DEF EligibleInv, BeginsWith, Greatest
<1>6. IdleInv'
  <2>1. IdleSinceOK(AdvancedIdle(at), at)
    BY <1>1, AdvancedFalls DEF CInv
  <2> QED
    BY <1>2, <2>1 DEF IdleInv, IdleSinceOK, Showing, LiveAt, Expired, Effective
<1> QED
  BY <1>3, <1>4, <1>5, <1>6 DEF CInv

\* A signal, as its parts.
LEMMA SignalIs ==
    ASSUME last_timeline_at \in Time, NEW s \in Session, NEW kind \in HookKind,
           NEW received_at \in Nat, Signal(s, kind, received_at)
    PROVE  \E at \in Nat : \E e \in Entry :
             /\ last_timeline_at <= at /\ last_timeline_at' = at
             /\ Sound(e) /\ e.dsince = at /\ ~Expired(e, at) /\ Observe(s, e)
             /\ sessions' = Pruned(Inserted(s, e, at))
             /\ eligible_since' =
                  EligibleAfter(Inserted(s, e, at), AdvancedEligible(at), e.activity, at)
             /\ idle_display_since' = IdleSince(Inserted(s, e, at), AdvancedIdle(at))
<1> DEFINE at == Timeline(received_at)
           e == [display |-> Meaning[kind][1], activity |-> Meaning[kind][2],
                 dsince |-> at, asince |-> at]
<1>1. at \in Nat /\ last_timeline_at <= at
  BY TimelineIs
<1>2. /\ last_timeline_at' = at /\ Observe(s, e)
      /\ sessions' = Pruned(Inserted(s, e, at))
      /\ eligible_since' =
            EligibleAfter(Inserted(s, e, at), AdvancedEligible(at), Meaning[kind][2], at)
      /\ idle_display_since' = IdleSince(Inserted(s, e, at), AdvancedIdle(at))
  BY DEF Signal, Inserted
<1>3. e.activity = Meaning[kind][2]
  OBVIOUS
<1> HIDE DEF at
<1>4. Sound(e) /\ e.dsince = at /\ ~Expired(e, at)
  BY <1>1, SignalIsSound
<1>5. e \in Entry
  BY <1>4 DEF Sound
<1> HIDE DEF e
<1> QED
  BY <1>1, <1>2, <1>3, <1>4, <1>5

LEMMA SignalIsKept ==
    ASSUME CInv, NEW s \in Session, NEW kind \in HookKind, NEW received_at \in Nat,
           Signal(s, kind, received_at)
    PROVE  CInv'
<1>1. HeardInv /\ KeptInv /\ EligibleInv /\ IdleInv /\ last_timeline_at \in Time
  BY DEF CInv, HeardInv
<1>2. PICK at \in Nat, e \in Entry :
             /\ last_timeline_at <= at /\ last_timeline_at' = at
             /\ Sound(e) /\ e.dsince = at /\ ~Expired(e, at) /\ Observe(s, e)
             /\ sessions' = Pruned(Inserted(s, e, at))
             /\ eligible_since' =
                  EligibleAfter(Inserted(s, e, at), AdvancedEligible(at), e.activity, at)
             /\ idle_display_since' = IdleSince(Inserted(s, e, at), AdvancedIdle(at))
  BY <1>1, SignalIs
<1>3. HeardInv'
  BY <1>1, <1>2, ObservedHeard
<1>4. KeptInv'
  <2> DEFINE ss == Inserted(s, e, at)
  <2>1. /\ DOMAIN last' = DOMAIN last \cup {s} /\ last'[s] = e
        /\ \A u \in DOMAIN last \ {s} : last'[u] = last[u]
    BY <1>1, <1>2, ObservedShowing
  <2>2. Showing(at)' = (Showing(at) \ {s}) \cup (IF e.display = "Idle" THEN {} ELSE {s})
    BY <1>1, <1>2, ObservedShowing
  <2>3. /\ ss[s] = e
        /\ \A u \in Showing(at) \ {s} : ss[u] = last[u]
        /\ \A u : u \in Live(ss) <=>
                    (IF u = s THEN e.display # "Idle" ELSE u \in Showing(at))
    BY <1>1, <1>2, InsertedIs
  <2> HIDE DEF ss
  <2>4. sessions' = [u \in Live(ss) |-> ss[u]]
    BY <1>2 DEF Pruned, ss
  <2>5. DOMAIN sessions' = Showing(at)'
    BY <2>2, <2>3, <2>4
  <2>6. \A u \in DOMAIN sessions' : sessions'[u] = last'[u]
    BY <2>1, <2>3, <2>4 DEF Showing
  <2>7. Showing(last_timeline_at)' = Showing(at)'
    BY <1>2 DEF Showing, LiveAt, Expired
  <2> QED
    BY <2>5, <2>6, <2>7 DEF KeptInv, Keeps
<1>5. EligibleInv'
  BY <1>1, <1>2, SignalBegins
<1>6. IdleInv'
  BY <1>1, <1>2, SignalFalls
<1> QED
  BY <1>3, <1>4, <1>5, <1>6 DEF CInv

LEMMA StutterIsSound == CInv /\ UNCHANGED vars => CInv'
<1> SUFFICES ASSUME CInv, UNCHANGED vars PROVE CInv'
  OBVIOUS
<1>1. /\ sessions' = sessions /\ eligible_since' = eligible_since
      /\ idle_display_since' = idle_display_since /\ last_timeline_at' = last_timeline_at
      /\ last' = last /\ first' = first /\ ended' = ended
  BY DEF vars, machine, observer
<1>2. HeardInv'
  BY <1>1 DEF CInv, HeardInv, Sound, Entry, Eligible
<1>3. KeptInv'
  BY <1>1 DEF CInv, KeptInv, Keeps, Showing, LiveAt, Expired
<1>4. EligibleInv'
  BY <1>1 DEF CInv, EligibleInv, BeginsWith, Greatest, Blocked, Blocks, Eligible, Expired,
              Bounds, EndsOfBlocking, NewlyEligible, Effective
<1>5. IdleInv'
  BY <1>1 DEF CInv, IdleInv, IdleSinceOK, Showing, LiveAt, Expired, Effective
<1> QED
  BY <1>2, <1>3, <1>4, <1>5 DEF CInv

LEMMA StepIsSound == CInv /\ [Next]_vars => CInv'
<1> SUFFICES ASSUME CInv, [Next]_vars PROVE CInv'
  OBVIOUS
<1>1. \A received_at \in 0 .. MaxTime : received_at \in Nat
  BY CoreAssumption
<1>2. CASE UNCHANGED vars
  BY <1>2, StutterIsSound
<1>3. ASSUME NEW received_at \in 0 .. MaxTime, Inform(received_at) PROVE CInv'
  BY <1>1, <1>3, InformIsSound
<1>4. ASSUME NEW received_at \in 0 .. MaxTime, NEW s \in Session, NEW kind \in HookKind,
             Signal(s, kind, received_at)
      PROVE  CInv'
  BY <1>1, <1>4, SignalIsKept
<1> QED
  BY <1>2, <1>3, <1>4 DEF Next

\* However its events come, the machine and the observer agree on what it keeps: the
\* live entries, the start of the interval, and the last fall to Idle (apply_at,
\* advance and prune_idle together).
THEOREM MachineAgrees == CoreSpec => []CInv
<1> QED
  BY InitIsSound, StepIsSound, PTL DEF CoreSpec

-----------------------------------------------------------------------------
(* The activity of the snapshot.                                            *)

Blockers(now) == {e \in Shown(now) : ~Eligible(e)}

LEMMA BlockersAre ==
    ASSUME HeardInv, NEW now \in Int
    PROVE  /\ \A e : e \in Blockers(now) <=>
                        \E s \in DOMAIN last : e = last[s] /\ Blocks(last[s], now)
           /\ Blockers(now) = {} <=> ~Blocked(now)
<1>1. \A s \in DOMAIN last : Sound(last[s])
  BY DEF HeardInv
<1>2. ASSUME NEW s \in DOMAIN last
      PROVE  /\ Expired(last[s], now) => Eligible(Effective(last[s], now))
             /\ ~Expired(last[s], now) => Effective(last[s], now) = last[s]
  BY <1>1, EffectiveIs
<1>3. ASSUME NEW e
      PROVE  e \in Blockers(now) <=>
                \E s \in DOMAIN last : e = last[s] /\ Blocks(last[s], now)
  BY <1>2 DEF Blockers, Shown, Blocks
<1> QED
  BY <1>3 DEF Blocked

\* No blocker was forgotten.
LEMMA BlockersAreKept ==
    ASSUME HeardInv, KeptInv, NEW now \in Nat, last_timeline_at <= now
    PROVE  {e \in Current(now) : ~Eligible(e)} = Blockers(now)
<1>1. \A s \in DOMAIN last : Sound(last[s])
  BY DEF HeardInv
<1>2. /\ DOMAIN sessions = Showing(last_timeline_at)
      /\ \A s \in DOMAIN sessions : s \in DOMAIN last /\ sessions[s] = last[s]
  BY DEF KeptInv, Keeps, Showing
<1>3. ASSUME NEW e \in Current(now), ~Eligible(e) PROVE e \in Blockers(now)
  BY <1>2, <1>3 DEF Current, Blockers, Shown
<1>4. ASSUME NEW e \in Blockers(now) PROVE e \in Current(now) /\ ~Eligible(e)
  <2>1. PICK s \in DOMAIN last : e = last[s] /\ Blocks(last[s], now)
    BY BlockersAre
  <2>2. s \in DOMAIN sessions
    BY <1>1, <1>2, <2>1, BlockerIsLive, ShowingLater DEF Showing
  <2>3. e = Effective(sessions[s], now)
    BY <1>1, <1>2, <2>1, <2>2, EffectiveIs DEF Blocks
  <2> QED BY <2>1, <2>2, <2>3 DEF Current, Blocks
<1> QED
  BY <1>3, <1>4

LEMMA Priorities ==
    /\ ActivityPriority["Failed"] = 3 /\ ActivityPriority["Waiting"] = 2
    /\ ActivityPriority["Active"] = 1
    /\ \A d \in Display : DisplayPriority[d] \in Nat
    /\ DisplayPriority["Idle"] = 1
    /\ \A d \in Display : d # "Idle" => DisplayPriority[d] > 1
<1>1. /\ ActivityPriority["Failed"] = 3 /\ ActivityPriority["Waiting"] = 2
      /\ ActivityPriority["Active"] = 1
  BY DEF ActivityPriority, Activity
<1>2. /\ DisplayPriority["Failed"] = 5 /\ DisplayPriority["Waiting"] = 4
      /\ DisplayPriority["Working"] = 3 /\ DisplayPriority["Idle"] = 1
      /\ DisplayPriority["Thinking"] = 2 /\ DisplayPriority["Review"] = 2
      /\ DisplayPriority["Done"] = 2
  BY DEF DisplayPriority, Display
<1> QED
  BY <1>1, <1>2 DEF Display

\* The gravest activity of a set of blockers.
Gravest(B) ==
    CHOOSE a \in {e.activity : e \in B} :
        \A e \in B : ActivityPriority[a] >= ActivityPriority[e.activity]

\* What max_by picks among blockers: the gravest, and of these the latest.
LEMMA TopBlockerIs ==
    ASSUME NEW B, B # {}, NEW b \in Nat,
           \A e \in B : e \in Entry /\ ~Eligible(e) /\ e.asince <= b
    PROVE  /\ TopBlocker(B).activity = Gravest(B)
           /\ TopBlocker(B).asince = Max({e.asince : e \in {f \in B : f.activity = Gravest(B)}})
           /\ Gravest(B) # "EligibleIdle"
<1> DEFINE a == Gravest(B)
           times == {e.asince : e \in {f \in B : f.activity = a}}
           Grave(x) == \A e \in B : ActivityPriority[x] >= ActivityPriority[e.activity]
           Top(e) == \A f \in B :
                \/ ActivityPriority[e.activity] > ActivityPriority[f.activity]
                \/ e.activity = f.activity /\ e.asince >= f.asince
<1>1. \A e \in B : e.activity \in {"Active", "Waiting", "Failed"} /\ e.asince \in Nat
  BY DEF Entry, Eligible, Activity
<1>2. a \in {e.activity : e \in B} /\ Grave(a)
  <2>1. \E x \in {e.activity : e \in B} : Grave(x)
    <3>1. CASE \E e \in B : e.activity = "Failed"
      <4>1. Grave("Failed")
        BY <1>1, Priorities
      <4> HIDE DEF Grave
      <4> QED BY <3>1, <4>1
    <3>2. CASE ~(\E e \in B : e.activity = "Failed") /\ \E e \in B : e.activity = "Waiting"
      <4>1. Grave("Waiting")
        BY <1>1, <3>2, Priorities
      <4> HIDE DEF Grave
      <4> QED BY <3>2, <4>1
    <3>3. CASE ~\E e \in B : e.activity \in {"Failed", "Waiting"}
      <4>1. Grave("Active")
        BY <1>1, <3>3, Priorities
      <4>2. \E e \in B : e.activity = "Active"
        BY <1>1, <3>3
      <4> HIDE DEF Grave
      <4> QED BY <4>1, <4>2
    <3> QED BY <3>1, <3>2, <3>3
  <2>2. a = CHOOSE x \in {e.activity : e \in B} : Grave(x)
    BY DEF Gravest
  <2> HIDE DEF a, Grave
  <2> QED BY <2>1, <2>2
<1> HIDE DEF a
<1>3. a \in {"Active", "Waiting", "Failed"}
  BY <1>1, <1>2
<1>4. times \subseteq Nat \cup {Never} /\ times # {} /\ \A x \in times : x <= b
  BY <1>1, <1>2
<1>5. Max(times) \in times /\ \A x \in times : Max(times) >= x
  <2> HIDE DEF times
  <2> QED BY <1>4, GreatestIsMax DEF Greatest
<1>6. PICK g \in B : g.activity = a /\ g.asince = Max(times)
  BY <1>5
<1>7. Top(g)
  <2> SUFFICES ASSUME NEW f \in B
               PROVE  \/ ActivityPriority[a] > ActivityPriority[f.activity]
                      \/ a = f.activity /\ Max(times) >= f.asince
    BY <1>6
  <2>1. a = f.activity => f.asince \in times
    OBVIOUS
  <2>2. a # f.activity => ActivityPriority[a] > ActivityPriority[f.activity]
    BY <1>1, <1>2, <1>3, Priorities
  <2> HIDE DEF times
  <2> QED BY <1>5, <2>1, <2>2
<1>8. TopBlocker(B) = CHOOSE e \in B : Top(e)
  BY DEF TopBlocker
<1>9. TopBlocker(B) \in B /\ Top(TopBlocker(B))
  <2> HIDE DEF Top
  <2> QED BY <1>7, <1>8
<1> DEFINE t == TopBlocker(B)
<1> HIDE DEF t
<1>10. /\ t \in B
       /\ \/ ActivityPriority[t.activity] > ActivityPriority[a]
          \/ t.activity = a /\ t.asince >= Max(times)
       /\ ActivityPriority[a] >= ActivityPriority[t.activity]
  BY <1>2, <1>6, <1>9 DEF t
<1>11. t.activity = a /\ t.asince >= Max(times)
  BY <1>1, <1>3, <1>10, Priorities
<1>12. t.asince \in times
  BY <1>10, <1>11
<1>13. t.asince = Max(times)
  <2>1. Max(times) >= t.asince
    BY <1>5, <1>12
  <2>2. Max(times) \in Nat /\ t.asince \in Nat
    BY <1>1, <1>6, <1>10
  <2> HIDE DEF times
  <2> QED BY <1>11, <2>1, <2>2
<1> QED
  BY <1>3, <1>11, <1>13 DEF t, a

LEMMA ActivityAgrees ==
    ASSUME CInv, NEW now \in Nat, last_timeline_at <= now
    PROVE  SnapshotActivity(now) = ObservedActivity(now)
<1> DEFINE B == Blockers(now)
<1>1. HeardInv /\ KeptInv /\ EligibleInv
  BY DEF CInv
<1>2. SnapshotActivity(now) =
        IF B # {} THEN <<TopBlocker(B).activity, TopBlocker(B).asince>>
        ELSE IF Since(now) # Never THEN <<"EligibleIdle", Since(now)>>
        ELSE <<"Unknown", Never>>
  BY <1>1, BlockersAreKept DEF SnapshotActivity, Since
<1>3. ObservedActivity(now) =
        IF first = Never THEN <<"Unknown", Never>>
        ELSE IF B = {} THEN <<"EligibleIdle", Max(Bounds(now))>>
        ELSE <<Gravest(B), Max({e.asince : e \in {f \in B : f.activity = Gravest(B)}})>>
  BY DEF ObservedActivity, Blockers, Bounds, Gravest
<1>4. \A e : e \in B <=> \E s \in DOMAIN last : e = last[s] /\ Blocks(last[s], now)
  BY <1>1, BlockersAre
<1>5. B = {} <=> ~Blocked(now)
  BY <1>1, BlockersAre
<1> HIDE DEF B
<1>6. CASE first = Never
  <2>1. B = {}
    BY <1>1, <1>4, <1>6 DEF HeardInv
  <2>2. Since(now) = Never
    BY <1>1, <1>6, SinceIsLast
  <2> QED BY <1>2, <1>3, <1>6, <2>1, <2>2
<1>7. CASE first # Never /\ B = {}
  <2>1. Greatest(Since(now), Bounds(now))
    BY <1>1, <1>5, <1>7, SinceIsLast
  <2>2. Bounds(now) \subseteq Nat \cup {Never}
    BY <1>1, EndsLater DEF Time
  <2>3. Max(Bounds(now)) = Since(now)
    BY <2>1, <2>2, MaxIsGreatest
  <2>4. Since(now) # Never
    <3>1. first \in Nat /\ first \in Bounds(now)
      BY <1>1, <1>7 DEF HeardInv, Time, Bounds
    <3>2. Since(now) >= first
      BY <2>1, <3>1 DEF Greatest
    <3> QED BY <3>1, <3>2 DEF Never
  <2> QED BY <1>2, <1>3, <1>7, <2>3, <2>4
<1>8. CASE first # Never /\ B # {}
  <2>1. \A e \in B : e \in Entry /\ ~Eligible(e) /\ e.asince <= now
    BY <1>1, <1>4 DEF HeardInv, Sound, Entry, Blocks, Time, Never
  <2> QED BY <1>2, <1>3, <1>8, <2>1, TopBlockerIs
<1> QED
  BY <1>6, <1>7, <1>8

-----------------------------------------------------------------------------
(* The display of the snapshot.                                             *)

\* p is shown rather than q.
Beats(p, q) ==
    \/ DisplayPriority[p[1]] > DisplayPriority[q[1]]
    \/ DisplayPriority[p[1]] = DisplayPriority[q[1]] /\ p[2] > q[2]

LEMMA TopDisplayIs ==
    ASSUME NEW P, P \subseteq Display \X Int
    PROVE  \A p : p \in TopDisplay(P) <=> p \in P /\ \A q \in P : ~Beats(q, p)
<1> DEFINE rank(p) == DisplayPriority[p[1]]
           top == {p \in P : \A q \in P : rank(p) >= rank(q)}
<1>1. TopDisplay(P) = {p \in top : \A q \in top : rank(p) = rank(q) => p[2] >= q[2]}
  BY DEF TopDisplay
<1>2. \A p \in P : rank(p) \in Nat /\ p[2] \in Int
  BY Priorities
<1>3. \A p, q : Beats(p, q) <=> (rank(p) > rank(q) \/ (rank(p) = rank(q) /\ p[2] > q[2]))
  BY DEF Beats
<1>4. \A p : p \in top <=> p \in P /\ \A q \in P : rank(p) >= rank(q)
  OBVIOUS
<1> HIDE DEF rank, top
<1>5. ASSUME NEW p \in TopDisplay(P) PROVE p \in P /\ \A q \in P : ~Beats(q, p)
  <2>1. p \in top /\ p \in P
    BY <1>1, <1>4
  <2>2. ASSUME NEW q \in P, Beats(q, p) PROVE FALSE
    <3>1. rank(p) >= rank(q)
      BY <1>4, <2>1
    <3>2. rank(q) = rank(p) /\ q[2] > p[2]
      BY <1>2, <1>3, <2>1, <2>2, <3>1
    <3>3. q \in top
      BY <1>4, <2>1, <3>2
    <3>4. p[2] >= q[2]
      BY <1>1, <3>2, <3>3
    <3> QED BY <1>2, <2>1, <3>2, <3>4
  <2> QED BY <2>1, <2>2
<1>6. ASSUME NEW p \in P, \A q \in P : ~Beats(q, p) PROVE p \in TopDisplay(P)
  <2>1. p \in top
    BY <1>2, <1>3, <1>4, <1>6
  <2>2. \A q \in top : rank(p) = rank(q) => p[2] >= q[2]
    BY <1>2, <1>3, <1>4, <1>6
  <2> QED BY <1>1, <2>1, <2>2
<1> QED
  BY <1>5, <1>6

\* Sets of pairs that differ only in pairs that are beaten show the same.
LEMMA TopDisplayAgrees ==
    ASSUME NEW P, P \subseteq Display \X Int, NEW Q, Q \subseteq Display \X Int,
           \A p \in P \ Q : \E q \in P \cap Q : Beats(q, p),
           \A q \in Q \ P : \E p \in P \cap Q : Beats(p, q)
    PROVE  TopDisplay(P) = TopDisplay(Q)
<1>1. \A p \in P \cup Q : DisplayPriority[p[1]] \in Nat /\ p[2] \in Int
  BY Priorities
<1>2. \A p, q, r \in P \cup Q : Beats(p, q) /\ Beats(q, r) => Beats(p, r)
  <2> TAKE p, q, r \in P \cup Q
  <2>1. /\ DisplayPriority[p[1]] \in Nat /\ p[2] \in Int
        /\ DisplayPriority[q[1]] \in Nat /\ q[2] \in Int
        /\ DisplayPriority[r[1]] \in Nat /\ r[2] \in Int
    BY <1>1
  <2> QED BY <2>1 DEF Beats
<1>3. /\ \A p : p \in TopDisplay(P) <=> p \in P /\ \A q \in P : ~Beats(q, p)
      /\ \A p : p \in TopDisplay(Q) <=> p \in Q /\ \A q \in Q : ~Beats(q, p)
  BY TopDisplayIs
<1>4. ASSUME NEW p \in TopDisplay(P) PROVE p \in TopDisplay(Q)
  <2>1. p \in P /\ p \in Q
    BY <1>3
  <2>2. ASSUME NEW q \in Q, Beats(q, p) PROVE FALSE
    <3>1. q \notin P
      BY <1>3, <2>2
    <3>2. PICK r \in P \cap Q : Beats(r, q)
      BY <3>1
    <3>3. Beats(r, p)
      BY <1>2, <2>1, <2>2, <3>2
    <3> QED BY <1>3, <3>2, <3>3
  <2> QED BY <1>3, <2>1, <2>2
<1>5. ASSUME NEW p \in TopDisplay(Q) PROVE p \in TopDisplay(P)
  <2>1. p \in P /\ p \in Q
    BY <1>3
  <2>2. ASSUME NEW q \in P, Beats(q, p) PROVE FALSE
    <3>1. q \notin Q
      BY <1>3, <2>2
    <3>2. PICK r \in P \cap Q : Beats(r, q)
      BY <3>1
    <3>3. Beats(r, p)
      BY <1>2, <2>1, <2>2, <3>2
    <3> QED BY <1>3, <3>2, <3>3
  <2> QED BY <1>3, <2>1, <2>2
<1> QED
  BY <1>4, <1>5

\* The one pair that the machine keeps for all forgotten sessions is shown exactly
\* when the latest of theirs would be.
LEMMA DisplayAgrees ==
    ASSUME CInv, NEW now \in Nat, last_timeline_at <= now
    PROVE  SnapshotDisplay(now) = TopDisplay({<<e.display, e.dsince>> : e \in Shown(now)})
<1> DEFINE t == last_timeline_at
           d == idle_display_since
           Pair(s) == <<Effective(last[s], now).display, Effective(last[s], now).dsince>>
           P == {<<e.display, e.dsince>> : e \in Current(now)}
                    \cup (IF d = Never THEN {} ELSE {<<"Idle", d>>})
           Q == {<<e.display, e.dsince>> : e \in Shown(now)}
<1>1. /\ HeardInv /\ KeptInv /\ t \in Int
      /\ \A s \in DOMAIN last : Sound(last[s])
      /\ d \in Time /\ d <= t
      /\ \A s \in DOMAIN last \ Showing(t) : Effective(last[s], t).dsince <= d
      /\ d # Never => \/ Showing(t) # {}
                      \/ \E s \in DOMAIN last : Effective(last[s], t).dsince = d
  BY DEF CInv, HeardInv, IdleInv, IdleSinceOK, Time, Never
<1>2. /\ DOMAIN sessions = Showing(t)
      /\ \A s \in DOMAIN sessions : s \in DOMAIN last /\ sessions[s] = last[s]
  BY <1>1 DEF KeptInv, Keeps, Showing
<1>3. SnapshotDisplay(now) = TopDisplay(P)
  BY DEF SnapshotDisplay
<1>4. \A p : p \in P <=> \/ \E s \in Showing(t) : p = Pair(s)
                         \/ d # Never /\ p = <<"Idle", d>>
  <2>1. \A p : p \in {<<e.display, e.dsince>> : e \in Current(now)} <=>
                    \E s \in Showing(t) : p = Pair(s)
    BY <1>2 DEF Current
  <2> QED BY <2>1
<1>5. \A p : p \in Q <=> \E s \in DOMAIN last : p = Pair(s)
  BY DEF Shown
<1>6. ASSUME NEW s \in DOMAIN last
      PROVE  Pair(s) \in Display \X Int /\ Pair(s)[2] \in Nat
  <2>1. Effective(last[s], now) \in Entry
    <3>1. CASE Expired(last[s], now)
      BY <1>1, <3>1, EffectiveIs
    <3>2. CASE ~Expired(last[s], now)
      BY <1>1, <3>2, EffectiveIs DEF Sound
    <3> QED BY <3>1, <3>2
  <2> QED BY <2>1 DEF Entry
<1>7. ASSUME NEW s \in Showing(t) PROVE Pair(s)[1] # "Idle" \/ Pair(s)[2] > t
  <2>1. s \in DOMAIN last /\ Sound(last[s])
    BY <1>1 DEF Showing
  <2>2. CASE s \in Showing(now)
    BY <2>1, <2>2, EffectiveIs DEF Showing, LiveAt
  <2>3. CASE s \notin Showing(now)
    BY <1>1, <2>1, <2>3, ShowingLater, EffectiveIs
  <2> QED BY <2>2, <2>3
<1>8. ASSUME NEW s \in DOMAIN last \ Showing(t)
      PROVE  Pair(s)[1] = "Idle" /\ Pair(s)[2] <= d /\ d # Never
  <2>1. Effective(last[s], now).dsince = Effective(last[s], t).dsince
    BY <1>1, ShowingLater
  <2>2. Effective(last[s], now).display = "Idle"
    BY <1>1, ShowingLater
  <2>3. Pair(s)[2] <= d
    BY <1>1, <2>1
  <2> HIDE DEF Pair
  <2>4. d # Never
    BY <1>6, <2>3 DEF Never
  <2> QED BY <2>2, <2>3, <2>4 DEF Pair
<1> HIDE DEF P, Q, Pair, d, t
<1>9. P \subseteq Display \X Int
  <2>1. <<"Idle", d>> \in Display \X Int
    BY <1>1 DEF Display, Time, Never
  <2> QED BY <1>4, <1>6, <2>1 DEF Showing
<1>10. Q \subseteq Display \X Int
  BY <1>5, <1>6
<1>11. Showing(t) \subseteq DOMAIN last
  BY DEF Showing
<1>12. \A s \in Showing(t) : Pair(s) \in P \cap Q
  BY <1>4, <1>5, <1>11
\* What is idle since the last event at most is beaten by any session that was kept.
<1>13. ASSUME NEW p \in Display \X Int, p[1] = "Idle", p[2] <= t, NEW s \in Showing(t)
       PROVE  Beats(Pair(s), p)
  <2>1. Pair(s) \in Display \X Int
    BY <1>6, <1>11
  <2>2. Pair(s)[1] = "Idle" => Pair(s)[2] > t
    BY <1>7
  <2>3. Pair(s)[1] # "Idle" => DisplayPriority[Pair(s)[1]] > DisplayPriority[p[1]]
    BY <1>13, <2>1, Priorities
  <2>4. Pair(s)[1] = "Idle" => Pair(s)[2] > p[2]
    BY <1>1, <1>13, <2>1, <2>2
  <2> QED BY <1>13, <2>3, <2>4 DEF Beats
<1>14. ASSUME NEW p \in P \ Q PROVE \E q \in P \cap Q : Beats(q, p)
  <2>1. p = <<"Idle", d>> /\ d # Never
    BY <1>4, <1>5, <1>11, <1>14
  <2>2. \A s \in DOMAIN last : Effective(last[s], t).dsince = d => s \in Showing(t)
    <3> SUFFICES ASSUME NEW s \in DOMAIN last \ Showing(t), Effective(last[s], t).dsince = d
                 PROVE  FALSE
      OBVIOUS
    <3>1. Effective(last[s], now).dsince = d /\ Effective(last[s], now).display = "Idle"
      BY <1>1, ShowingLater DEF t
    <3>2. Pair(s) = p
      BY <2>1, <3>1 DEF Pair
    <3> QED BY <1>5, <1>14, <3>2
  <2>3. PICK s \in Showing(t) : TRUE
    BY <1>1, <2>1, <2>2
  <2>4. p \in Display \X Int /\ p[1] = "Idle" /\ p[2] <= t
    BY <1>1, <1>9, <1>14, <2>1
  <2> QED BY <1>12, <1>13, <2>3, <2>4
<1>15. ASSUME NEW q \in Q \ P PROVE \E p \in P \cap Q : Beats(p, q)
  <2>1. PICK s \in DOMAIN last : q = Pair(s)
    BY <1>5, <1>15
  <2>2. s \notin Showing(t)
    BY <1>12, <1>15, <2>1
  <2>3. q \in Display \X Int /\ q[1] = "Idle" /\ q[2] \in Int /\ q[2] <= d /\ d # Never
    BY <1>6, <1>8, <2>1, <2>2
  <2>4. d \in Int /\ t \in Int
    BY <1>1 DEF Time, Never
  <2>5. CASE Showing(t) # {}
    <3>1. q[2] <= t
      BY <1>1, <2>3, <2>4
    <3> QED BY <1>12, <1>13, <2>3, <2>5, <3>1
  <2>6. CASE Showing(t) = {}
    <3>1. PICK u \in DOMAIN last : Effective(last[u], t).dsince = d
      BY <1>1, <2>3, <2>6
    <3>2. Effective(last[u], now).dsince = d /\ Effective(last[u], now).display = "Idle"
      BY <1>1, <2>6, <3>1, ShowingLater DEF t
    <3>3. Pair(u) = <<"Idle", d>>
      BY <3>2 DEF Pair
    <3>4. <<"Idle", d>> \in P \cap Q
      BY <1>4, <1>5, <2>3, <3>3
    <3>5. q # <<"Idle", d>>
      BY <1>15, <3>4
    <3>6. q[2] # d
      BY <2>3, <3>5
    <3>7. Beats(<<"Idle", d>>, q)
      BY <2>3, <2>4, <3>6 DEF Beats
    <3> QED BY <3>4, <3>7
  <2> QED BY <2>5, <2>6
<1>16. TopDisplay(P) = TopDisplay(Q)
  BY <1>9, <1>10, <1>14, <1>15, TopDisplayAgrees
<1> QED
  BY <1>3, <1>16 DEF Q

-----------------------------------------------------------------------------
(* The idle stage of the snapshot.                                          *)

\* The rungs reached after a while are the first ones.
LEMMA RungsAreReached ==
    ASSUME NEW while \in Int, NEW i \in 1 .. 4,
           NEW n, n = Cardinality({k \in 1 .. 4 : while >= Ladder[k]})
    PROVE  n \in 0 .. 4 /\ (n >= i => while >= Ladder[i])
<1> DEFINE R == {k \in 1 .. 4 : while >= Ladder[k]}
<1>1. \A k \in 1 .. 4 : Ladder[k] \in Nat
  BY CoreAssumption
<1>2. IsFiniteSet(1 .. 4) /\ Cardinality(1 .. 4) = 4
  <2>1. ASSUME NEW b \in Nat PROVE IsFiniteSet(1 .. b) /\ Cardinality(1 .. b) = b
    BY FS_Interval
  <2> QED BY <2>1
<1>3. R \in SUBSET (1 .. 4)
  OBVIOUS
<1>4. IsFiniteSet(R) /\ n <= 4 /\ n \in Nat
  <2> HIDE DEF R
  <2>1. IsFiniteSet(R) /\ Cardinality(R) <= 4
    BY <1>2, <1>3, FS_Subset
  <2>2. Cardinality(R) \in Nat
    BY <2>1, FS_CardinalityType
  <2> QED BY <2>1, <2>2 DEF R
<1>5. ASSUME ~(while >= Ladder[i]) PROVE n <= i - 1
  <2>1. R \in SUBSET (1 .. (i - 1))
    <3> SUFFICES ASSUME NEW k \in R PROVE k < i
      OBVIOUS
    <3>1. k >= i => Ladder[k] >= Ladder[i]
      BY CoreAssumption
    <3> QED BY <1>1, <1>5, <3>1
  <2>2. IsFiniteSet(1 .. (i - 1)) /\ Cardinality(1 .. (i - 1)) = i - 1
    BY FS_Interval
  <2> HIDE DEF R
  <2>3. Cardinality(R) <= i - 1
    BY <2>1, <2>2, FS_Subset
  <2> QED BY <2>3 DEF R
<1> QED
  BY <1>1, <1>4, <1>5

LEMMA StageAgrees ==
    ASSUME CInv, NEW now \in Nat, last_timeline_at <= now, NEW i \in 1 .. 4,
           SnapshotStage(now) \in {Stage[j] : j \in (i + 1) .. 5}
    PROVE  /\ now - first >= Ladder[i]
           /\ \A end \in EndsOfBlocking(now) : now - end >= Ladder[i]
           /\ \A e \in Shown(now) : Eligible(e)
<1> DEFINE B == Blockers(now)
           since == SnapshotActivity(now)[2]
           n == Cardinality({k \in 1 .. 4 : now - since >= Ladder[k]})
<1>1. HeardInv /\ KeptInv /\ SnapshotActivity(now) = ObservedActivity(now)
  BY ActivityAgrees DEF CInv
<1>2. ObservedActivity(now) =
        IF first = Never THEN <<"Unknown", Never>>
        ELSE IF B = {} THEN <<"EligibleIdle", Max(Bounds(now))>>
        ELSE <<Gravest(B), Max({e.asince : e \in {f \in B : f.activity = Gravest(B)}})>>
  BY DEF ObservedActivity, Blockers, Bounds, Gravest
<1>3. SnapshotStage(now) # "None"
  BY DEF Stage
<1>4. /\ SnapshotActivity(now)[1] = "EligibleIdle"
      /\ SnapshotStage(now) = Stage[1 + n]
  BY <1>3 DEF SnapshotStage
<1>5. \A e \in B : e \in Entry /\ ~Eligible(e) /\ e.asince <= now
  BY <1>1, BlockersAre DEF HeardInv, Sound, Entry, Blocks, Time, Never
<1> HIDE DEF B
<1>6. B # {} => Gravest(B) # "EligibleIdle"
  BY <1>5, TopBlockerIs
<1>7. first # Never /\ B = {} /\ since = Max(Bounds(now))
  BY <1>1, <1>2, <1>4, <1>6
<1>8. Bounds(now) \subseteq Nat \cup {Never} /\ \A x \in Bounds(now) : x <= now
  BY <1>1, EndsLater DEF Time
<1>9. Greatest(since, Bounds(now))
  <2>1. Bounds(now) # {}
    BY DEF Bounds
  <2> QED BY <1>7, <1>8, <2>1, GreatestIsMax
<1>10. since \in Int /\ \A x \in Bounds(now) : x \in Int /\ since >= x
  BY <1>8, <1>9 DEF Greatest, Never
<1> HIDE DEF since
<1>11. n \in 0 .. 4 /\ (n >= i => now - since >= Ladder[i])
  BY <1>10, RungsAreReached
<1>12. n >= i
  <2> HIDE DEF n
  <2>1. PICK j \in (i + 1) .. 5 : Stage[1 + n] = Stage[j]
    BY <1>4
  <2>2. 1 + n \in 1 .. 5 /\ j \in 1 .. 5
    BY <1>11
  <2>3. \A k, l \in 1 .. 5 : Stage[k] = Stage[l] => k = l
    BY DEF Stage
  <2>4. 1 + n = j
    BY <2>1, <2>2, <2>3
  <2> QED BY <1>11, <2>4
<1>13. now - since >= Ladder[i] /\ Ladder[i] \in Nat
  BY <1>11, <1>12, CoreAssumption
<1>14. \A x \in Bounds(now) : now - x >= Ladder[i]
  BY <1>10, <1>13
<1>15. \A e \in Shown(now) : Eligible(e)
  BY <1>7 DEF B, Blockers
<1> QED
  BY <1>14, <1>15 DEF Bounds

-----------------------------------------------------------------------------
(* The properties.                                                          *)

LEMMA InstantsAre ==
    ASSUME HeardInv, NEW now \in Instants
    PROVE  now \in Nat /\ last_timeline_at <= now
BY CoreAssumption DEF HeardInv, Instants, Time, Never

LEMMA AgreementImplies == CInv => MachineInv
<1> SUFFICES ASSUME CInv PROVE MachineInv
  OBVIOUS
<1>1. HeardInv /\ KeptInv /\ EligibleInv /\ IdleInv
  BY DEF CInv
<1>2. CoreTypeOK
  <2>1. \A s \in DOMAIN sessions :
            s \in DOMAIN last /\ sessions[s] = last[s] /\ last[s].display # "Idle"
    BY <1>1 DEF KeptInv, Keeps, Showing, LiveAt
  <2>2. DOMAIN sessions \subseteq Session
    BY <1>1, <2>1 DEF HeardInv
  <2>3. \A s \in DOMAIN sessions : sessions[s] \in Entry /\ sessions[s].display # "Idle"
    BY <1>1, <2>1 DEF HeardInv, Sound
  <2>4. eligible_since \in Nat \cup {Never}
    <3>1. CASE first = Never \/ Blocked(last_timeline_at)
      BY <1>1, <3>1 DEF EligibleInv, BeginsWith
    <3>2. CASE first # Never /\ ~Blocked(last_timeline_at)
      <4>1. eligible_since \in Bounds(last_timeline_at)
        BY <1>1, <3>2 DEF EligibleInv, BeginsWith, Greatest
      <4>2. \A s \in DOMAIN last : Sound(last[s])
        BY <1>1 DEF HeardInv
      <4>3. last_timeline_at \in Int /\ first \in Time /\ ended \in Time
        BY <1>1 DEF HeardInv, Time, Never
      <4>4. NewlyEligible(last, last_timeline_at) \subseteq Nat
        BY <4>2, <4>3, NewlyEligibleIs
      <4> QED BY <4>1, <4>3, <4>4 DEF Bounds, EndsOfBlocking, Time
    <3> QED BY <3>1, <3>2
  <2>5. idle_display_since \in Nat \cup {Never} /\ last_timeline_at \in Nat \cup {Never}
    BY <1>1 DEF HeardInv, IdleInv, IdleSinceOK, Time
  <2> QED
    BY <2>2, <2>3, <2>4, <2>5 DEF CoreTypeOK
<1>3. ActivityIsExact
  BY <1>1, InstantsAre, ActivityAgrees DEF ActivityIsExact
<1>4. DisplayIsExact
  BY <1>1, InstantsAre, DisplayAgrees DEF DisplayIsExact
<1>5. StageIsEarned
  BY <1>1, InstantsAre, StageAgrees DEF StageIsEarned
<1> QED
  BY <1>2, <1>3, <1>4, <1>5 DEF MachineInv

\* Whatever events come, in whatever order and however late, every snapshot from the
\* last event on shows the activity, the display and the stage that an observer shows
\* who forgets no session: the lazy decay and the pruning of apply_at, advance and
\* snapshot cannot be told from the outside.
THEOREM MachineIsExact == CoreSpec => []MachineInv
<1> QED
  BY MachineAgrees, AgreementImplies, PTL

\* What the observer says of an instant does not depend on the machine.
LEMMA ObservedAlike ==
    ASSUME UNCHANGED observer, NEW now \in Nat
    PROVE  ObservedActivity(now)' = ObservedActivity(now)
BY DEF observer, ObservedActivity, Shown, EndsOfBlocking, NewlyEligible, Effective, Expired,
       Eligible

BlockersInv == HeardInv => \A now \in Int : (Blockers(now) = {} <=> ~Blocked(now))

LEMMA BlockersAlways == BlockersInv
BY BlockersAre DEF BlockersInv

\* A signal that does not block does not move what the observer says of that instant.
LEMMA QuietSignal ==
    ASSUME CInv, CInv', NEW s \in Session, NEW kind \in HookKind, NEW received_at \in Nat,
           Signal(s, kind, received_at), NEW now \in Nat, last_timeline_at' = now,
           last_timeline_at <= now, SnapshotActivity(now)[1] = "EligibleIdle"
    PROVE  \/ \E u \in DOMAIN last' : ~Eligible(last'[u]) /\ last'[u].asince = now
           \/ ObservedActivity(now)' = ObservedActivity(now)
<1>1. HeardInv /\ KeptInv /\ last_timeline_at \in Time
  BY DEF CInv, HeardInv
<1>2. PICK at \in Nat, e \in Entry :
             /\ last_timeline_at <= at /\ last_timeline_at' = at
             /\ Sound(e) /\ e.dsince = at /\ ~Expired(e, at) /\ Observe(s, e)
  BY <1>1, SignalIs
<1>3. at = now
  BY <1>2
<1>4. /\ DOMAIN last' = DOMAIN last \cup {s} /\ last'[s] = e
      /\ Blocked(now)' <=>
            ~Eligible(e) \/ \E u \in DOMAIN last \ {s} : Blocks(last[u], now)
  <2>1. DOMAIN last' = DOMAIN last \cup {s} /\ last'[s] = e
    BY <1>1, <1>2, ObservedShowing
  <2>2. Blocked(at)' <=>
            ~Eligible(e) \/ \E u \in DOMAIN last \ {s} : Blocks(last[u], at)
    BY <1>1, <1>2, ObservedShowing
  <2> QED BY <1>3, <2>1, <2>2
<1>5. CASE ~Eligible(e)
  BY <1>2, <1>3, <1>4, <1>5 DEF Sound
<1>6. CASE Eligible(e)
  <2>1. SnapshotActivity(now) = ObservedActivity(now)
    BY ActivityAgrees
  <2>2. ObservedActivity(now) =
          IF first = Never THEN <<"Unknown", Never>>
          ELSE IF Blockers(now) = {} THEN <<"EligibleIdle", Max(Bounds(now))>>
          ELSE <<Gravest(Blockers(now)),
                 Max({e2.asince : e2 \in {f \in Blockers(now) :
                                            f.activity = Gravest(Blockers(now))}})>>
    BY DEF ObservedActivity, Blockers, Bounds, Gravest
  <2>3. \A f \in Blockers(now) : f \in Entry /\ ~Eligible(f) /\ f.asince <= now
    BY <1>1, BlockersAre DEF HeardInv, Sound, Entry, Blocks, Time, Never
  <2>4. Blockers(now) # {} => Gravest(Blockers(now)) # "EligibleIdle"
    BY <2>3, TopBlockerIs
  <2>5. first # Never /\ Blockers(now) = {}
    BY <2>1, <2>2, <2>4
  <2>6. ~Blocked(now)
    BY <1>1, <2>5, BlockersAre
  <2>7. Greatest(Max(Bounds(now)), Bounds(now))
    <3>1. Bounds(now) \subseteq Nat \cup {Never} /\ \A x \in Bounds(now) : x <= now
      BY <1>1, EndsLater DEF Time
    <3>2. Bounds(now) # {}
      BY DEF Bounds
    <3> QED BY <3>1, <3>2, GreatestIsMax
  <2>8. Greatest(Max(Bounds(now)), Bounds(now)')
    BY <1>1, <1>2, <1>3, <1>6, <2>5, <2>6, <2>7, BoundsKept
  <2>9. Bounds(now)' \subseteq Nat \cup {Never}
    <3>1. HeardInv'
      BY DEF CInv
    <3>2. first' \in Time /\ ended' \in Time /\ \A u \in DOMAIN last' : Sound(last'[u])
      BY <3>1 DEF HeardInv, Sound, Entry, Eligible
    <3>3. NewlyEligible(last', now) \subseteq Nat
      BY <3>2, NewlyEligibleIs
    <3>4. Bounds(now)' = {first'} \cup ({ended'} \cup NewlyEligible(last', now))
      BY DEF Bounds, EndsOfBlocking, NewlyEligible, Effective, Eligible, Expired
    <3> QED BY <3>2, <3>3, <3>4 DEF Time
  <2>10. Max(Bounds(now)') = Max(Bounds(now))
    BY <2>8, <2>9, MaxIsGreatest
  <2>11. first' # Never
    BY <2>5 DEF Observe, Signal
  <2>12. Blockers(now)' = {}
    <3>1. ~Blocked(now)'
      BY <1>4, <1>6, <2>6 DEF Blocked
    <3>2. BlockersInv'
      BY BlockersAlways, PTL
    <3> QED BY <3>1, <3>2 DEF BlockersInv, CInv
  <2>13. ObservedActivity(now)' = <<"EligibleIdle", Max(Bounds(now)')>>
    BY <2>11, <2>12 DEF ObservedActivity, Blockers, Bounds
  <2> QED
    BY <2>2, <2>5, <2>10, <2>13
<1> QED
  BY <1>5, <1>6

LEMMA QuietStep ==
    ASSUME CInv, CInv', [Next]_vars, ActivityIsExact',
           NEW now \in Instants, last_timeline_at' = now
    PROVE  \/ SnapshotActivity(now)[1] # "EligibleIdle"
           \/ \E s \in DOMAIN last' : ~Eligible(last'[s]) /\ last'[s].asince = now
           \/ SnapshotActivity(now)' = SnapshotActivity(now)
<1>1. now \in Nat /\ last_timeline_at <= now
  BY InstantsAre DEF CInv
<1>2. SnapshotActivity(now) = ObservedActivity(now)
  BY <1>1, ActivityAgrees
<1>3. SnapshotActivity(now)' = ObservedActivity(now)'
  <2>1. now \in Instants'
    <3>1. now <= MaxTime
      BY CoreAssumption DEF Instants, CInv, HeardInv, Time, Never
    <3> QED BY <1>1, <3>1, CoreAssumption DEF Instants
  <2> QED BY <2>1 DEF ActivityIsExact
<1>4. CASE UNCHANGED observer
  BY <1>1, <1>2, <1>3, <1>4, ObservedAlike
<1>5. ASSUME NEW received_at \in 0 .. MaxTime, NEW s \in Session, NEW kind \in HookKind,
             Signal(s, kind, received_at), SnapshotActivity(now)[1] = "EligibleIdle"
      PROVE  \/ \E u \in DOMAIN last' : ~Eligible(last'[u]) /\ last'[u].asince = now
             \/ ObservedActivity(now)' = ObservedActivity(now)
  <2>1. received_at \in Nat
    BY CoreAssumption
  <2> QED BY <1>1, <1>5, <2>1, QuietSignal
<1> QED
  BY <1>2, <1>3, <1>4, <1>5 DEF Next, Inform, vars

\* Notifications that say nothing, and signals that are idle themselves, leave a
\* running eligible interval where it began.
THEOREM QuietIsKept == CoreSpec => QuietKeepsTheInterval
<1> DEFINE Quiet ==
        \A now \in Instants :
            last_timeline_at' = now =>
                \/ SnapshotActivity(now)[1] # "EligibleIdle"
                \/ \E s \in DOMAIN last' : ~Eligible(last'[s]) /\ last'[s].asince = now
                \/ SnapshotActivity(now)' = SnapshotActivity(now)
<1>1. CInv => ActivityIsExact
  BY AgreementImplies DEF MachineInv
<1>2. ASSUME CInv, CInv', [Next]_vars, ActivityIsExact' PROVE Quiet
  BY <1>2, QuietStep
<1>3. (CInv => ActivityIsExact)'
  BY <1>1, PTL
<1>4. CInv /\ CInv' /\ [Next]_vars => Quiet
  BY <1>2, <1>3
<1> HIDE DEF Quiet
<1>5. CInv /\ CInv' /\ [Next]_vars => [Quiet]_vars
  BY <1>4
<1>6. CoreSpec => [][Quiet]_vars
  BY <1>5, MachineAgrees, PTL DEF CoreSpec
<1> QED
  BY <1>6 DEF QuietKeepsTheInterval, Quiet
=============================================================================
