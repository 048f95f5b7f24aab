--------------------------- MODULE Pairing_proofs ---------------------------
(***************************************************************************)
(* Proofs about Pairing, for any pairing codes and any number of attempts, *)
(* boots, faults and queued commands: the keyring, the connection file,    *)
(* the reporter and the server's rows belong together, and only a pairing  *)
(* replaces the connection.                                                *)
(***************************************************************************)
EXTENDS Pairing, TLAPS

-----------------------------------------------------------------------------
(***************************************************************************)
(* The inductive invariant.                                                *)
(***************************************************************************)

Stage == {"claim", "store", "write", "delete"}

\* The types PairingTypeOK leaves out, and the counters above all that was drawn.
Shapes ==
    /\ PairingTypeOK
    /\ call \in {Idle} \cup [at : Stage, code : Code, seed : Seeds]
    /\ reporter \in Reporter \cup {None}
    /\ outbox \in [Code -> Envelope \cup {None}]
    /\ drawn \in [seeds : Nat, boots : Nat, faults : Nat]

\* Seeds and boots are drawn in order: what is kept was drawn before.
Drawn ==
    /\ \A c \in Code : /\ pendingKey[c] <= drawn.seeds
                       /\ rows[c].key \in Seeds => rows[c].key <= drawn.seeds
                       /\ outbox[c] # None => outbox[c].boot <= drawn.boots
    /\ config # None => config.last <= drawn.boots
    /\ reporter # None => /\ reporter.boot \in Boots
                          /\ reporter.prev < reporter.boot
                          /\ reporter.boot <= drawn.boots

\* What pair() knows where it stands: its seed is kept until the claim is answered, is
\* the enrolled key from then on, and is the device's key once stored.
CallInv ==
    call # Idle =>
        /\ pendingKey[call.code] = call.seed
        /\ call.at # "claim" => rows[call.code].key = call.seed
        /\ call.at \in {"write", "delete"} => deviceKey[call.code] = call.seed

\* Something has been done over the connection of this code, or will be.
Used(c) ==
    \/ heads[c] # 0
    \/ outbox[c] # None
    \/ config # None /\ config.code = c
    \/ reporter # None /\ reporter.code = c

\* A code that is used was won by this desktop, with the key it has stored.
OursInv == \A c \in Code : Used(c) => rows[c].key \in Seeds /\ deviceKey[c] = rows[c].key

\* What is accepted over the connection on disk only grows.
OrderInv ==
    config # None =>
        /\ outbox[config.code] # None => config.last <= outbox[config.code].boot
        /\ reporter # None /\ reporter.code = config.code => config.last <= reporter.boot

\* Without a fault a code that is used is not paired again: its seed has been dropped,
\* but for the moment in which pair() is about to; and the server's current boot is what
\* envelope, connection and reporter say.
CalmInv ==
    drawn.faults = 0 =>
        /\ \A c \in Code :
              /\ Used(c) => \/ pendingKey[c] # rows[c].key
                            \/ call.at = "delete" /\ call.code = c
              /\ outbox[c] # None => heads[c] \in {outbox[c].boot, outbox[c].prev}
        /\ config # None /\ outbox[config.code] = None => heads[config.code] = config.last
        /\ reporter # None => Welcome(reporter)

PInv ==
    /\ Shapes
    /\ Drawn
    /\ EnrolledKeyIsHeld
    /\ CallInv
    /\ OursInv
    /\ OrderInv
    /\ CalmInv

-----------------------------------------------------------------------------
(***************************************************************************)
(* What the operators return.                                              *)
(***************************************************************************)

Row == [status : {"pending", "claimed"}, expired : BOOLEAN, failed : 0..MaxFailed,
        key : {NoKey, OtherKey} \cup Seeds]

LEMMA Bounds ==
    /\ MaxSeeds \in Nat /\ MaxBoots \in Nat /\ MaxFaults \in Nat /\ MaxFailed \in Nat
    /\ NoKey \notin Seeds /\ OtherKey \notin Seeds /\ NoKey # OtherKey
BY PairingAssumption DEF NoKey, OtherKey, Seeds

\* A claim enrols the key of the request in a row that has none, and keeps every other
\* key; its answer is good exactly when the key is the row's.
LEMMA ClaimFacts ==
    ASSUME NEW row \in Row, row.status = "claimed" <=> row.key # NoKey,
           NEW key \in {OtherKey} \cup Seeds
    PROVE  /\ Claimed(row, key) \in Row
           /\ Claimed(row, key).status = "claimed" <=> Claimed(row, key).key # NoKey
           /\ \/ Claimed(row, key).key = row.key
              \/ row.key = NoKey /\ Claimed(row, key).key = key
           /\ Verdict(row, key) \in {"enrolled", "replay"} => Claimed(row, key).key = key
<1>1. Failed(row) \in Row /\ Failed(row).status = row.status /\ Failed(row).key = row.key
  BY Bounds DEF Row, Failed
<1>2. key # NoKey
  BY Bounds
<1>3. CASE Verdict(row, key) = "enrolled"
  <2>1. row.status # "claimed"
    BY <1>3 DEF Verdict
  <2>2. Claimed(row, key) = [row EXCEPT !.status = "claimed", !.key = key]
    BY <1>3 DEF Claimed
  <2> QED
    BY <1>2, <2>1, <2>2, Bounds DEF Row
<1>4. CASE Verdict(row, key) \in {"conflict", "expired"}
  <2>1. Claimed(row, key) = Failed(row)
    BY <1>4 DEF Claimed
  <2> QED
    BY <1>1, <1>4, <2>1
<1>5. CASE Verdict(row, key) \notin {"enrolled", "conflict", "expired"}
  <2>1. Claimed(row, key) = row
    BY <1>5 DEF Claimed
  <2>2. Verdict(row, key) = "replay" => row.key = key
    BY DEF Verdict
  <2> QED
    BY <1>5, <2>1, <2>2
<1> QED
  BY <1>3, <1>4, <1>5

LEMMA Types ==
    ASSUME Shapes
    PROVE  /\ rows \in [Code -> Row]
           /\ \A c \in Code : rows[c].status = "claimed" <=> rows[c].key # NoKey
           /\ heads \in [Code -> Boots \cup {0}]
           /\ pendingKey \in [Code -> Seeds \cup {NoKey}]
           /\ deviceKey \in [Code -> Seeds \cup {NoKey}]
           /\ config \in Connection \cup {None}
           /\ outbox \in [Code -> Envelope \cup {None}]
           /\ drawn \in [seeds : Nat, boots : Nat, faults : Nat]
BY DEF Shapes, PairingTypeOK, Row

\* A step that leaves everything but the commands of the thread as it is.
LEMMA QuietStep ==
    ASSUME PInv, UNCHANGED <<server, keyring, device, call, reporter, drawn>>
    PROVE  PInv'
BY DEF PInv, Shapes, PairingTypeOK, Drawn, EnrolledKeyIsHeld, CallInv, Used, OursInv, OrderInv,
       CalmInv, Welcome, server, keyring, device

-----------------------------------------------------------------------------
(***************************************************************************)
(* The server.                                                             *)
(***************************************************************************)

\* A key that is enrolled is somebody else's, or the one pair() holds.
LEMMA RowsStep ==
    ASSUME PInv, UNCHANGED <<heads, keyring, device, reporter, drawn>>,
           rows' \in [Code -> Row],
           \A c \in Code : rows'[c].status = "claimed" <=> rows'[c].key # NoKey,
           \A c \in Code :
              \/ rows'[c].key = rows[c].key
              \/ rows[c].key = NoKey /\ rows'[c].key = OtherKey
              \/ rows[c].key = NoKey /\ rows'[c].key = pendingKey[c],
           call.at # "delete" \/ call' = call,
           call' \in {Idle} \cup [at : Stage, code : Code, seed : Seeds],
           CallInv'
    PROVE  PInv'
<1> USE Types, Bounds DEF PInv
<1>1. Shapes'
  BY DEF Shapes, PairingTypeOK, Row, Stage, Idle, keyring, device
<1>2. Drawn'
  BY DEF Drawn, keyring, device
<1>3. EnrolledKeyIsHeld'
  BY DEF EnrolledKeyIsHeld, keyring
<1>4. \A c \in Code : Used(c)' <=> Used(c)
  BY DEF Used, device
<1>5. \A c \in Code : Used(c) => rows'[c].key = rows[c].key
  BY DEF OursInv
<1>6. OursInv'
  BY <1>4, <1>5 DEF OursInv, keyring
<1>7. OrderInv'
  BY DEF OrderInv, device
<1>8. CalmInv'
  BY <1>4, <1>5 DEF CalmInv, Welcome, keyring, device
<1> QED
  BY <1>1, <1>2, <1>3, <1>6, <1>7, <1>8

LEMMA OtherClaimsStep ==
    ASSUME PInv, NEW c \in Code, OtherClaims(c)
    PROVE  PInv'
<1> USE Types, Bounds DEF PInv
<1>1. /\ Claimed(rows[c], OtherKey) \in Row
      /\ Claimed(rows[c], OtherKey).status = "claimed"
            <=> Claimed(rows[c], OtherKey).key # NoKey
      /\ \/ Claimed(rows[c], OtherKey).key = rows[c].key
         \/ rows[c].key = NoKey /\ Claimed(rows[c], OtherKey).key = OtherKey
  BY ClaimFacts
<1>2. rows' = [rows EXCEPT ![c] = Claimed(rows[c], OtherKey)]
  BY DEF OtherClaims, Set
<1>3. UNCHANGED <<heads, keyring, device, call, reporter, drawn>>
  BY DEF OtherClaims
<1>4. CallInv'
  BY <1>1, <1>2, <1>3 DEF CallInv, Shapes, keyring, Stage
<1> QED
  BY <1>1, <1>2, <1>3, <1>4, RowsStep DEF Shapes

LEMMA ExpireStep ==
    ASSUME PInv, NEW c \in Code, Expire(c)
    PROVE  PInv'
<1> USE Types, Bounds DEF PInv
<1>1. rows' = [rows EXCEPT ![c].expired = TRUE]
  BY DEF Expire
<1>2. /\ rows' \in [Code -> Row]
      /\ \A d \in Code : rows'[d].key = rows[d].key /\ rows'[d].status = rows[d].status
  <2> DEFINE row == [rows[c] EXCEPT !.expired = TRUE]
  <2>1. row \in Row /\ row.key = rows[c].key /\ row.status = rows[c].status
    BY DEF Row
  <2>2. rows' = [rows EXCEPT ![c] = row]
    BY <1>1
  <2> HIDE DEF row
  <2> QED
    BY <2>1, <2>2
<1>3. UNCHANGED <<heads, keyring, device, call, reporter, drawn>>
  BY DEF Expire
<1>4. CallInv'
  BY <1>2, <1>3 DEF CallInv, Shapes, keyring
<1> QED
  BY <1>2, <1>3, <1>4, RowsStep DEF Shapes

LEMMA ClaimIsAnsweredStep ==
    ASSUME PInv, ClaimIsAnswered
    PROVE  PInv'
<1> USE Types, Bounds DEF PInv
<1> DEFINE c == call.code
           k == call.seed
<1>1. call.at = "claim" /\ call # Idle /\ c \in Code /\ k \in Seeds /\ pendingKey[c] = k
  BY DEF ClaimIsAnswered, Shapes, Idle, CallInv
<1>2. /\ Claimed(rows[c], k) \in Row
      /\ Claimed(rows[c], k).status = "claimed" <=> Claimed(rows[c], k).key # NoKey
      /\ \/ Claimed(rows[c], k).key = rows[c].key
         \/ rows[c].key = NoKey /\ Claimed(rows[c], k).key = k
      /\ Verdict(rows[c], k) \in {"enrolled", "replay"} => Claimed(rows[c], k).key = k
  BY <1>1, ClaimFacts
<1>3. UNCHANGED <<heads, keyring, device, reporter, drawn>>
  BY DEF ClaimIsAnswered
<1>4. CASE rows' = rows /\ call' = Idle
  <2>1. CallInv'
    BY <1>4 DEF CallInv
  <2> QED
    BY <1>1, <1>3, <1>4, <2>1, RowsStep
<1>5. CASE /\ rows' = [rows EXCEPT ![c] = Claimed(rows[c], k)]
           /\ \/ /\ Verdict(rows[c], k) \in {"enrolled", "replay"}
                 /\ call' = [call EXCEPT !.at = "store"]
              \/ call' = Idle
  <2>1. /\ call' \in {Idle} \cup [at : Stage, code : Code, seed : Seeds]
        /\ call' # Idle => call'.at = "store" /\ call'.code = c /\ call'.seed = k
    BY <1>1, <1>5 DEF Shapes, Stage
  <2>2. CallInv'
    BY <1>1, <1>2, <1>3, <1>5, <2>1 DEF CallInv, keyring
  <2>3. /\ rows' \in [Code -> Row]
        /\ \A d \in Code : rows'[d].status = "claimed" <=> rows'[d].key # NoKey
    BY <1>1, <1>2, <1>5
  <2>4. \A d \in Code : \/ rows'[d].key = rows[d].key
                        \/ rows[d].key = NoKey /\ rows'[d].key = pendingKey[d]
    BY <1>1, <1>2, <1>5
  <2> QED
    BY <1>1, <1>3, <2>1, <2>2, <2>3, <2>4, RowsStep
<1> QED
  BY <1>4, <1>5 DEF ClaimIsAnswered, Proceed, Set

-----------------------------------------------------------------------------
(***************************************************************************)
(* pair(): a seed that is drawn is none there was.                         *)
(***************************************************************************)

LEMMA PairBeginsStep ==
    ASSUME PInv, NEW c \in Code, PairBegins(c)
    PROVE  PInv'
<1> USE Types, Bounds DEF PInv
<1> DEFINE fresh == pendingKey[c] = 0
           seed == IF fresh THEN drawn.seeds + 1 ELSE pendingKey[c]
<1>1. /\ call = Idle /\ seed \in Seeds
      /\ drawn' = IF fresh THEN [drawn EXCEPT !.seeds = @ + 1] ELSE drawn
      /\ pendingKey' = [pendingKey EXCEPT ![c] = seed]
      /\ call' = [at |-> "claim", code |-> c, seed |-> seed]
      /\ UNCHANGED <<rows, heads, deviceKey, config, outbox, reporter>>
  BY DEF PairBegins, SeedOfCode, Set, server, device
<1>2. /\ drawn' \in [seeds : Nat, boots : Nat, faults : Nat]
      /\ drawn'.boots = drawn.boots /\ drawn'.faults = drawn.faults
      /\ seed <= drawn'.seeds /\ drawn.seeds <= drawn'.seeds
      /\ fresh => drawn'.seeds = drawn.seeds + 1
  BY <1>1 DEF Drawn, Shapes
<1>3. pendingKey' \in [Code -> Seeds \cup {NoKey}]
  BY <1>1
<1>4. Shapes'
  BY <1>1, <1>2, <1>3 DEF Shapes, PairingTypeOK, Row, Stage, Idle
<1>5. Drawn'
  <2>1. \A d \in Code : pendingKey'[d] <= drawn'.seeds
    BY <1>1, <1>2 DEF Drawn, Seeds, NoKey
  <2>2. \A d \in Code : rows[d].key \in Seeds => rows[d].key <= drawn'.seeds
    BY <1>2 DEF Drawn, Seeds
  <2> QED
    BY <1>1, <1>2, <2>1, <2>2 DEF Drawn
<1>6. \A d \in Code : rows[d].key \in Seeds /\ pendingKey'[d] # pendingKey[d]
                         => rows[d].key = deviceKey[d] /\ rows[d].key # pendingKey'[d]
  <2> SUFFICES rows[c].key \in Seeds /\ fresh
                  => rows[c].key = deviceKey[c] /\ rows[c].key # seed
    BY <1>1
  <2> QED
    BY DEF Drawn, EnrolledKeyIsHeld, Seeds, NoKey
<1>7. EnrolledKeyIsHeld'
  BY <1>1, <1>6 DEF EnrolledKeyIsHeld
<1>8. CallInv'
  BY <1>1 DEF CallInv
<1>9. \A d \in Code : Used(d)' <=> Used(d)
  BY <1>1 DEF Used
<1>10. OursInv'
  BY <1>1, <1>9 DEF OursInv
<1>11. OrderInv'
  BY <1>1 DEF OrderInv
<1>12. CalmInv'
  <2>1. \A d \in Code : drawn.faults = 0 /\ Used(d) => pendingKey'[d] # rows[d].key
    BY <1>1, <1>6 DEF CalmInv, OursInv, Idle
  <2> QED
    BY <1>1, <1>2, <1>9, <2>1 DEF CalmInv, Welcome
<1> QED
  BY <1>4, <1>5, <1>7, <1>8, <1>10, <1>11, <1>12

\* Where pair() stands once its claim has been answered.
LEMMA CallFacts ==
    ASSUME PInv, call.at \in {"store", "write", "delete"}
    PROVE  /\ call # Idle /\ call.code \in Code /\ call.seed \in Seeds
           /\ call \in [at : Stage, code : Code, seed : Seeds]
           /\ pendingKey[call.code] = call.seed /\ rows[call.code].key = call.seed
           /\ call.at # "store" => deviceKey[call.code] = call.seed
BY DEF PInv, Shapes, Idle, CallInv

LEMMA StoreKeyStep ==
    ASSUME PInv, StoreKey
    PROVE  PInv'
<1> USE Types, Bounds DEF PInv
<1> DEFINE c == call.code
           k == call.seed
<1>1. /\ call.at = "store" /\ deviceKey' = [deviceKey EXCEPT ![c] = k]
      /\ call' = [call EXCEPT !.at = "write"]
      /\ UNCHANGED <<rows, heads, pendingKey, config, outbox, reporter, drawn>>
  BY DEF StoreKey, Set, Proceed, server, device
<1>2. /\ call # Idle /\ c \in Code /\ k \in Seeds /\ pendingKey[c] = k /\ rows[c].key = k
      /\ call' \in [at : Stage, code : Code, seed : Seeds]
      /\ call'.at = "write" /\ call'.code = c /\ call'.seed = k
  BY <1>1, CallFacts DEF Stage
<1>3. /\ deviceKey' \in [Code -> Seeds \cup {NoKey}]
      /\ deviceKey'[c] = k
      /\ \A d \in Code : d # c => deviceKey'[d] = deviceKey[d]
  BY <1>1, <1>2
<1>4. Shapes'
  BY <1>1, <1>2, <1>3 DEF Shapes, PairingTypeOK, Row, Stage
<1>5. Drawn'
  BY <1>1 DEF Drawn
<1>6. EnrolledKeyIsHeld' /\ CallInv'
  BY <1>1, <1>2, <1>3 DEF EnrolledKeyIsHeld, CallInv
<1>7. \A d \in Code : Used(d)' <=> Used(d)
  BY <1>1 DEF Used
<1>8. OursInv' /\ OrderInv'
  BY <1>1, <1>2, <1>3, <1>7 DEF OursInv, OrderInv
<1>9. CalmInv'
  BY <1>1, <1>7 DEF CalmInv, Welcome
<1> QED
  BY <1>4, <1>5, <1>6, <1>8, <1>9

LEMMA WriteConfigStep ==
    ASSUME PInv, WriteConfig
    PROVE  PInv'
<1> USE Types, Bounds DEF PInv
<1> DEFINE c == call.code
           k == call.seed
<1>1. /\ call.at = "write" /\ config' = [code |-> c, last |-> 0]
      /\ call' = [call EXCEPT !.at = "delete"]
      /\ UNCHANGED <<rows, heads, pendingKey, deviceKey, outbox, reporter, drawn>>
  BY DEF WriteConfig, Proceed, server, keyring
<1>2. /\ call # Idle /\ c \in Code /\ k \in Seeds /\ pendingKey[c] = k /\ rows[c].key = k
      /\ deviceKey[c] = k
      /\ call' \in [at : Stage, code : Code, seed : Seeds]
      /\ call'.at = "delete" /\ call'.code = c /\ call'.seed = k
  BY <1>1, CallFacts DEF Stage
<1>3. config' \in Connection /\ config'.code = c /\ config'.last = 0
  BY <1>1, <1>2 DEF Connection
<1>4. Shapes'
  BY <1>1, <1>2, <1>3 DEF Shapes, PairingTypeOK, Row, Stage
<1>5. Drawn'
  BY <1>1, <1>3 DEF Drawn
<1>6. EnrolledKeyIsHeld' /\ CallInv'
  BY <1>1, <1>2 DEF EnrolledKeyIsHeld, CallInv
<1>7. \A d \in Code : Used(d)' => Used(d) \/ d = c
  BY <1>1, <1>3 DEF Used
<1>8. OursInv'
  BY <1>1, <1>2, <1>7 DEF OursInv
<1>9. OrderInv'
  <2>1. outbox[c] # None => outbox[c].boot \in Nat
    BY <1>2 DEF Envelope
  <2>2. reporter # None => reporter.boot \in Nat
    BY DEF Shapes, Reporter
  <2> QED
    BY <1>1, <1>3, <2>1, <2>2 DEF OrderInv
<1>10. CalmInv'
  <2>1. drawn.faults = 0 => heads[c] = 0
    BY <1>1, <1>2 DEF CalmInv, Used
  <2> QED
    BY <1>1, <1>2, <1>3, <1>7, <2>1 DEF CalmInv, Welcome
<1> QED
  BY <1>4, <1>5, <1>6, <1>8, <1>9, <1>10

LEMMA DropPendingStep ==
    ASSUME PInv, DropPending
    PROVE  PInv'
<1> USE Types, Bounds DEF PInv
<1> DEFINE c == call.code
           k == call.seed
<1>1. /\ call.at = "delete" /\ call' = Idle
      /\ UNCHANGED <<rows, heads, deviceKey, config, outbox, reporter>>
      /\ \/ pendingKey' = [pendingKey EXCEPT ![c] = 0] /\ drawn' = drawn
         \/ pendingKey' = pendingKey /\ drawn' = [drawn EXCEPT !.faults = @ + 1]
  BY DEF DropPending, Set, Fault, server, device
<1>2. /\ c \in Code /\ k \in Seeds /\ pendingKey[c] = k /\ rows[c].key = k
      /\ deviceKey[c] = k
  BY <1>1, CallFacts
<1>3. /\ pendingKey' \in [Code -> Seeds \cup {NoKey}]
      /\ drawn' \in [seeds : Nat, boots : Nat, faults : Nat]
      /\ drawn'.boots = drawn.boots /\ drawn'.seeds = drawn.seeds
      /\ drawn'.faults = 0 => drawn.faults = 0 /\ pendingKey'[c] = 0
      /\ pendingKey'[c] \in {0, k}
      /\ \A d \in Code : d # c => pendingKey'[d] = pendingKey[d]
  BY <1>1, <1>2 DEF NoKey
<1>4. Shapes'
  BY <1>1, <1>3 DEF Shapes, PairingTypeOK, Row, Idle
<1>5. Drawn'
  BY <1>1, <1>2, <1>3 DEF Drawn
<1>6. EnrolledKeyIsHeld'
  BY <1>1, <1>2, <1>3 DEF EnrolledKeyIsHeld
<1>7. CallInv'
  BY <1>1 DEF CallInv
<1>8. \A d \in Code : Used(d)' <=> Used(d)
  BY <1>1 DEF Used
<1>9. OursInv' /\ OrderInv'
  BY <1>1, <1>8 DEF OursInv, OrderInv
<1>10. CalmInv'
  <2>1. \A d \in Code : drawn'.faults = 0 /\ Used(d) => pendingKey'[d] # rows[d].key
    BY <1>1, <1>2, <1>3 DEF CalmInv, NoKey
  <2> QED
    BY <1>1, <1>3, <1>8, <2>1 DEF CalmInv, Welcome
<1> QED
  BY <1>4, <1>5, <1>6, <1>7, <1>9, <1>10

-----------------------------------------------------------------------------
(***************************************************************************)
(* The reporter thread.                                                    *)
(***************************************************************************)

\* A reporter the thread may publish with: of a code that is ours, not behind what the
\* connection says, and without a fault welcome to the server.
Fit(r) ==
    /\ r \in Reporter
    /\ r.boot \in Boots
    /\ r.prev < r.boot
    /\ rows[r.code].key \in Seeds /\ deviceKey[r.code] = rows[r.code].key
    /\ config # None /\ config.code = r.code => config.last <= r.boot
    /\ drawn.faults = 0 => Welcome(r) /\ pendingKey[r.code] # rows[r.code].key

LEMMA ReporterIsFit ==
    ASSUME PInv, call = Idle, reporter # None
    PROVE  Fit(reporter)
<1>1. reporter \in Reporter /\ reporter.code \in Code /\ Used(reporter.code)
  BY DEF PInv, Shapes, Reporter, Used
<1>2. reporter.boot \in Boots /\ reporter.prev < reporter.boot
  BY DEF PInv, Drawn
<1>3. drawn.faults = 0 => Welcome(reporter) /\ pendingKey[reporter.code] # rows[reporter.code].key
  BY <1>1 DEF PInv, CalmInv, Idle
<1> QED
  BY <1>1, <1>2, <1>3 DEF Fit, PInv, OursInv, OrderInv

LEMMA LoadedIsFit ==
    ASSUME PInv, call = Idle, Loaded # None, Loaded.boot \in Boots
    PROVE  /\ Fit(Loaded)
           /\ Loaded.boot <= drawn.boots + (IF Loaded.pending THEN 0 ELSE 1)
<1> USE Types, Bounds DEF PInv
<1> DEFINE c == config.code
<1>1. config # None /\ config \in Connection /\ c \in Code /\ Used(c)
  BY DEF Loaded, Connection, Used
<1>2. rows[c].key \in Seeds /\ deviceKey[c] = rows[c].key
  BY <1>1 DEF OursInv
<1>3. drawn.faults = 0 => pendingKey[c] # rows[c].key
  BY <1>1 DEF CalmInv, Idle
<1>4. CASE outbox[c] # None
  <2>1. /\ Loaded = [code |-> c, boot |-> outbox[c].boot, prev |-> outbox[c].prev, pending |-> TRUE]
        /\ outbox[c] \in Envelope /\ outbox[c].prev < outbox[c].boot
        /\ outbox[c].boot <= drawn.boots /\ config.last <= outbox[c].boot
    BY <1>1, <1>4 DEF Loaded, Shapes, PairingTypeOK, Drawn, OrderInv
  <2>2. drawn.faults = 0 => Welcome(Loaded)
    BY <1>1, <1>4, <2>1 DEF CalmInv, Welcome
  <2>3. Loaded \in Reporter
    BY <1>1, <2>1 DEF Reporter, Envelope
  <2> QED
    BY <1>1, <1>2, <1>3, <2>1, <2>2, <2>3 DEF Fit, Envelope
<1>5. CASE outbox[c] = None
  <2>1. /\ Loaded = [code |-> c, boot |-> drawn.boots + 1, prev |-> config.last, pending |-> FALSE]
        /\ config.last \in Nat /\ config.last <= drawn.boots /\ drawn.boots \in Nat
    BY <1>1, <1>2, <1>5 DEF Loaded, Drawn, Connection, Boots
  <2>2. drawn.faults = 0 => Welcome(Loaded)
    BY <1>1, <1>5, <2>1 DEF CalmInv, Welcome
  <2>3. Loaded \in Reporter
    BY <1>1, <2>1 DEF Reporter
  <2> QED
    BY <1>1, <1>2, <1>3, <2>1, <2>2, <2>3 DEF Fit
<1> QED
  BY <1>4, <1>5

\* Drawing boots leaves everything else as it was.
LEMMA DrawnBoots ==
    ASSUME PInv, NEW r, r = None \/ r = Loaded, CountBoot(r)
    PROVE  /\ drawn' \in [seeds : Nat, boots : Nat, faults : Nat]
           /\ drawn'.seeds = drawn.seeds /\ drawn'.faults = drawn.faults
           /\ drawn.boots <= drawn'.boots
           /\ r # None /\ ~r.pending => drawn'.boots = drawn.boots + 1
BY Types DEF CountBoot, PInv

LEMMA PublishStep ==
    ASSUME PInv, call = Idle, NEW r, Fit(r), Publish(r),
           UNCHANGED <<rows, keyring, call>>,
           drawn' \in [seeds : Nat, boots : Nat, faults : Nat],
           drawn'.seeds = drawn.seeds, drawn'.faults = drawn.faults,
           drawn.boots <= drawn'.boots, r.boot <= drawn'.boots
    PROVE  PInv'
<1> USE Types, Bounds DEF PInv
<1> DEFINE c == r.code
<1>1. /\ c \in Code /\ r.boot \in Boots /\ r.boot \in Nat /\ r.boot # 0 /\ r.prev \in Nat
      /\ r.prev < r.boot /\ r \in Reporter /\ r # None
  BY AbsenceAssumption DEF Fit, Reporter, Boots
<1>2. UNCHANGED <<rows, pendingKey, deviceKey, call>>
  BY DEF keyring
<1>3. /\ heads' \in [Code -> Boots \cup {0}]
      /\ \A d \in Code : d # c => heads'[d] = heads[d]
      /\ \/ heads'[c] = heads[c]
         \/ Welcome(r) /\ heads'[c] = r.boot
  <2>1. \/ heads' = heads
        \/ Welcome(r) /\ heads' = [heads EXCEPT ![c] = r.boot]
    <3>1. CASE heads' \in {heads} \cup (IF Welcome(r) THEN {Set(heads, r.code, r.boot)} ELSE {})
      <4>1. CASE Welcome(r)
        BY <3>1, <4>1 DEF Set
      <4>2. CASE ~Welcome(r)
        BY <3>1, <4>2
      <4> QED
        BY <4>1, <4>2
    <3>2. CASE Welcome(r) /\ heads' = Set(heads, r.code, r.boot)
      BY <3>2 DEF Set
    <3> QED
      BY <3>1, <3>2 DEF Publish
  <2> QED
    BY <1>1, <2>1
<1>4. /\ outbox' \in [Code -> Envelope \cup {None}]
      /\ \A d \in Code : d # c => outbox'[d] = outbox[d]
      /\ outbox'[c] # None => outbox'[c].boot = r.boot /\ outbox'[c].prev = r.prev
      /\ outbox'[c] = None => heads'[c] = r.boot
  BY <1>1, AbsenceAssumption DEF Publish, Acked, Set, Envelope
<1>5. /\ reporter' \in Reporter
      /\ reporter'.code = c /\ reporter'.boot = r.boot /\ reporter'.prev = r.prev
  BY <1>1 DEF Publish, Acked, Reporter
<1>6. /\ config' \in Connection \cup {None}
      /\ config = None <=> config' = None
      /\ config # None => config'.code = config.code
      /\ config # None /\ config.code # c => config' = config
      /\ config # None /\ config.code = c =>
            \/ config' = config /\ outbox'[c] # None
            \/ config'.last = r.boot /\ outbox'[c] = None
  <2>1. CASE config' = config /\ outbox' = [outbox EXCEPT ![c] = [boot |-> r.boot, prev |-> r.prev]]
    BY <1>1, <2>1, AbsenceAssumption DEF Envelope
  <2>2. CASE /\ config' = IF config # None /\ config.code = c
                         THEN [config EXCEPT !.last = r.boot] ELSE config
             /\ outbox' = [outbox EXCEPT ![c] = None]
    <3>1. CASE config # None /\ config.code = c
      <4>1. config' = [code |-> c, last |-> r.boot]
        BY <2>2, <3>1 DEF Connection
      <4>2. config' \in Connection
        BY <1>1, <4>1 DEF Connection
      <4> QED
        BY <1>1, <2>2, <3>1, <4>1, <4>2, AbsenceAssumption
    <3>2. CASE ~(config # None /\ config.code = c)
      BY <1>1, <2>2, <3>2
    <3> QED
      BY <3>1, <3>2
  <2> QED
    BY <2>1, <2>2 DEF Publish, Acked, Set
<1>7. Shapes'
  BY <1>1, <1>2, <1>3, <1>4, <1>5, <1>6 DEF Shapes, PairingTypeOK, Row
<1>8. Drawn'
  <2>1. \A d \in Code : outbox'[d] # None => outbox'[d].boot <= drawn'.boots
    BY <1>1, <1>4 DEF Drawn, Envelope
  <2>2. config' # None => config'.last <= drawn'.boots
    BY <1>1, <1>6 DEF Drawn, Connection, Boots
  <2> QED
    BY <1>1, <1>2, <1>5, <2>1, <2>2 DEF Drawn
<1>9. EnrolledKeyIsHeld' /\ CallInv'
  BY <1>2 DEF EnrolledKeyIsHeld, CallInv
<1>10. \A d \in Code : Used(d)' => Used(d) \/ d = c
  BY <1>3, <1>4, <1>5, <1>6 DEF Used
<1>11. OursInv'
  BY <1>2, <1>10 DEF OursInv, Fit
<1>12. OrderInv'
  BY <1>1, <1>4, <1>5, <1>6 DEF OrderInv, Fit, Connection
<1>13. CalmInv'
  <2> SUFFICES ASSUME drawn.faults = 0
               PROVE  CalmInv'
    BY DEF CalmInv
  <2>1. Welcome(r) /\ pendingKey[c] # rows[c].key
    BY DEF Fit
  <2>2. heads'[c] \in {r.boot, r.prev}
    BY <1>3, <2>1 DEF Welcome
  <2>3. \A d \in Code : Used(d)' => pendingKey'[d] # rows'[d].key
    BY <1>2, <1>10, <2>1 DEF CalmInv, Idle
  <2>4. \A d \in Code : outbox'[d] # None => heads'[d] \in {outbox'[d].boot, outbox'[d].prev}
    BY <1>3, <1>4, <2>2 DEF CalmInv
  <2>5. config' # None /\ outbox'[config'.code] = None => heads'[config'.code] = config'.last
    BY <1>3, <1>4, <1>6 DEF CalmInv, Connection
  <2>6. Welcome(reporter)'
    BY <1>5, <2>2 DEF Welcome
  <2> QED
    BY <2>3, <2>4, <2>5, <2>6 DEF CalmInv
<1> QED
  BY <1>7, <1>8, <1>9, <1>11, <1>12, <1>13

LEMMA NoReporterStep ==
    ASSUME PInv, PublishOrRest(None), UNCHANGED <<rows, keyring, call, drawn>>
    PROVE  PInv'
BY DEF PublishOrRest, PInv, Shapes, PairingTypeOK, Drawn, EnrolledKeyIsHeld, CallInv, Used,
       OursInv, OrderInv, CalmInv, Welcome, keyring

LEMMA ThreadStep ==
    ASSUME PInv, Thread
    PROVE  PInv'
<1> USE Types DEF PInv
<1> DEFINE rest == reporter' = None /\ UNCHANGED <<heads, config, outbox>>
<1>1. call = Idle /\ UNCHANGED <<rows, keyring, call>>
  BY DEF Thread, Snapshot, Reload, HeartbeatDue
<1>2. ASSUME PublishOrRest(reporter), drawn' = drawn
      PROVE  PInv'
  <2>1. CASE reporter = None
    BY <1>1, <1>2, <2>1, NoReporterStep
  <2>2. CASE reporter # None
    <3>1. Publish(reporter)
      BY <1>2, <2>2 DEF PublishOrRest
    <3>2. reporter.boot <= drawn.boots
      BY <2>2 DEF Drawn
    <3> QED
      BY <1>1, <1>2, <2>2, <3>1, <3>2, ReporterIsFit, PublishStep
  <2> QED
    BY <2>1, <2>2
<1>3. ASSUME CountBoot(Loaded), Loaded # None => Loaded.boot \in Boots, PublishOrRest(Loaded)
      PROVE  PInv'
  <2>1. CASE Loaded = None
    <3>1. drawn' = drawn
      BY <1>3, <2>1 DEF CountBoot
    <3> QED
      BY <1>1, <1>3, <2>1, <3>1, NoReporterStep
  <2>2. CASE Loaded # None
    <3>1. Publish(Loaded)
      BY <1>3, <2>2 DEF PublishOrRest
    <3>2. /\ drawn' \in [seeds : Nat, boots : Nat, faults : Nat]
          /\ drawn'.seeds = drawn.seeds /\ drawn'.faults = drawn.faults
          /\ drawn.boots <= drawn'.boots
          /\ ~Loaded.pending => drawn'.boots = drawn.boots + 1
      BY <1>3, <2>2, DrawnBoots
    <3>3. Fit(Loaded) /\ Loaded.boot <= drawn.boots + (IF Loaded.pending THEN 0 ELSE 1)
      BY <1>1, <1>3, <2>2, LoadedIsFit
    <3>4. Loaded.boot \in Nat
      BY <3>3 DEF Fit, Reporter
    <3>5. Loaded.boot <= drawn'.boots
      <4>1. CASE Loaded.pending
        BY <3>2, <3>3, <3>4, <4>1
      <4>2. CASE ~Loaded.pending
        BY <3>2, <3>3, <3>4, <4>2
      <4> QED
        BY <4>1, <4>2
    <3> QED
      BY <1>1, <3>1, <3>2, <3>3, <3>5, PublishStep
  <2> QED
    BY <2>1, <2>2
<1>4. CASE Snapshot
  BY <1>2, <1>4 DEF Snapshot
<1>5. CASE Reload
  BY <1>3, <1>5 DEF Reload
<1>6. CASE HeartbeatDue
  <2>1. CASE reporter = None
    BY <1>3, <1>6, <2>1 DEF HeartbeatDue
  <2>2. CASE reporter # None
    BY <1>2, <1>6, <2>2 DEF HeartbeatDue
  <2> QED
    BY <2>1, <2>2
<1> QED
  BY <1>4, <1>5, <1>6 DEF Thread

LEMMA CrashStep ==
    ASSUME PInv, Crash
    PROVE  PInv'
<1> USE Types, Bounds DEF PInv
<1>1. /\ call' = Idle /\ reporter' = Loaded
      /\ Loaded # None => Loaded.boot \in Boots
      /\ UNCHANGED <<rows, heads, pendingKey, deviceKey, config, outbox>>
  BY DEF Crash, server, keyring, device
<1>2. /\ drawn' \in [seeds : Nat, boots : Nat, faults : Nat]
      /\ drawn'.seeds = drawn.seeds /\ drawn'.faults # 0
      /\ drawn.boots <= drawn'.boots
      /\ Loaded # None /\ ~Loaded.pending => drawn'.boots = drawn.boots + 1
  <2> DEFINE opens == Loaded # None /\ ~Loaded.pending
  <2>1. drawn' = Fault([drawn EXCEPT !.boots = IF opens THEN @ + 1 ELSE @])
    BY DEF Crash
  <2>2. CASE opens
    <3>1. drawn' = Fault([drawn EXCEPT !.boots = @ + 1])
      BY <2>1, <2>2
    <3>2. drawn' = [seeds |-> drawn.seeds, boots |-> drawn.boots + 1,
                    faults |-> drawn.faults + 1]
      BY <3>1 DEF Fault
    <3>3. drawn.seeds \in Nat /\ drawn.boots \in Nat /\ drawn.faults \in Nat
      OBVIOUS
    <3> HIDE DEF opens
    <3> QED
      BY <3>2, <3>3 DEF opens
  <2>3. CASE ~opens
    <3>1. drawn' = Fault(drawn)
      BY <2>1, <2>3
    <3> QED
      BY <2>3, <3>1 DEF Fault
  <2> QED
    BY <2>2, <2>3
<1>3. Loaded # None =>
         /\ Loaded \in Reporter /\ Loaded.boot \in Boots /\ Loaded.prev < Loaded.boot
         /\ Loaded.boot <= drawn'.boots
         /\ config # None /\ Loaded.code = config.code /\ config.last <= Loaded.boot
  <2> SUFFICES ASSUME Loaded # None
               PROVE  /\ Loaded \in Reporter /\ Loaded.boot \in Boots /\ Loaded.prev < Loaded.boot
                      /\ Loaded.boot <= drawn'.boots
                      /\ config # None /\ Loaded.code = config.code
                      /\ config.last <= Loaded.boot
    OBVIOUS
  <2> DEFINE c == config.code
  <2>1. config # None /\ config \in Connection /\ c \in Code /\ config.last \in Nat
    BY DEF Loaded, Connection, Boots
  <2>2. CASE outbox[c] # None
    <3>1. /\ Loaded = [code |-> c, boot |-> outbox[c].boot, prev |-> outbox[c].prev, pending |-> TRUE]
          /\ outbox[c] \in Envelope /\ outbox[c].prev < outbox[c].boot
          /\ outbox[c].boot <= drawn.boots /\ config.last <= outbox[c].boot
      BY <2>1, <2>2 DEF Loaded, Shapes, PairingTypeOK, Drawn, OrderInv
    <3> QED
      BY <1>1, <1>2, <2>1, <3>1 DEF Reporter, Envelope
  <2>3. CASE outbox[c] = None
    <3>1. /\ Loaded = [code |-> c, boot |-> drawn.boots + 1, prev |-> config.last, pending |-> FALSE]
          /\ config.last <= drawn.boots /\ drawn.boots \in Nat
      BY <2>1, <2>3 DEF Loaded, Drawn
    <3> QED
      BY <1>1, <1>2, <2>1, <3>1 DEF Reporter
  <2> QED
    BY <2>2, <2>3
<1>4. Shapes'
  BY <1>1, <1>2, <1>3 DEF Shapes, PairingTypeOK, Row, Idle
<1>5. Drawn'
  <2>1. \A d \in Code : outbox[d] # None => outbox[d].boot <= drawn'.boots
    BY <1>2 DEF Drawn, Envelope
  <2>2. config # None => config.last <= drawn'.boots
    BY <1>2 DEF Drawn, Connection, Boots
  <2> QED
    BY <1>1, <1>2, <1>3, <2>1, <2>2 DEF Drawn
<1>6. EnrolledKeyIsHeld' /\ CallInv'
  BY <1>1 DEF EnrolledKeyIsHeld, CallInv
<1>7. \A d \in Code : Used(d)' => Used(d)
  BY <1>1, <1>3 DEF Used
<1>8. OursInv'
  BY <1>1, <1>7 DEF OursInv
<1>9. OrderInv' /\ CalmInv'
  BY <1>1, <1>2, <1>3 DEF OrderInv, CalmInv
<1> QED
  BY <1>4, <1>5, <1>6, <1>8, <1>9

-----------------------------------------------------------------------------
(***************************************************************************)
(* The theorems.                                                           *)
(***************************************************************************)

LEMMA PairingStart == Init => PInv
<1> SUFFICES ASSUME Init
             PROVE  PInv
  OBVIOUS
<1> USE Bounds DEF Init
<1>1. Shapes
  <2>1. /\ rows \in [Code -> Row]
        /\ \A c \in Code : rows[c].status = "claimed" <=> rows[c].key # NoKey
    BY DEF Row
  <2>2. /\ heads \in [Code -> Boots \cup {0}] /\ outbox \in [Code -> Envelope \cup {None}]
        /\ pendingKey \in [Code -> Seeds \cup {NoKey}]
        /\ deviceKey \in [Code -> Seeds \cup {NoKey}]
    BY DEF NoKey
  <2>3. \A c \in Code : outbox[c] = None
    OBVIOUS
  <2>4. /\ config = None /\ call = Idle /\ reporter = None
        /\ drawn \in [seeds : Nat, boots : Nat, faults : Nat]
    OBVIOUS
  <2> HIDE DEF Init
  <2> QED
    BY <2>1, <2>2, <2>3, <2>4 DEF Shapes, PairingTypeOK, Idle, Row
<1>2. Drawn
  BY DEF Drawn
<1>3. EnrolledKeyIsHeld /\ CallInv /\ OursInv /\ OrderInv /\ CalmInv
  BY DEF EnrolledKeyIsHeld, CallInv, OursInv, Used, OrderInv, CalmInv
<1> QED
  BY <1>1, <1>2, <1>3 DEF PInv

LEMMA PairingStep == PInv /\ [Next]_vars => PInv'
<1> SUFFICES ASSUME PInv, [Next]_vars
             PROVE  PInv'
  OBVIOUS
<1>1. ASSUME NEW c \in Code, OtherClaims(c) \/ Expire(c) \/ PairBegins(c)
      PROVE  PInv'
  BY <1>1, OtherClaimsStep, ExpireStep, PairBeginsStep
<1>2. CASE PairStep
  BY <1>2, ClaimIsAnsweredStep, StoreKeyStep, WriteConfigStep, DropPendingStep DEF PairStep
<1>3. CASE Thread
  BY <1>3, ThreadStep
<1>4. CASE StatusChanges \/ UNCHANGED vars
  BY <1>4, QuietStep DEF StatusChanges, vars
<1>5. CASE Crash
  BY <1>5, CrashStep
<1> QED
  BY <1>1, <1>2, <1>3, <1>4, <1>5 DEF Next

LEMMA PairingInvariant == PairingSpec => []PInv
BY PairingStart, PairingStep, PTL DEF PairingSpec

\* Whatever is lost and whoever else has the code, the enrolled key stays in the keyring,
\* the connection on disk is one this desktop won, and only a fault of the desktop can
\* leave the reporter with a boot the server will not take.
THEOREM PairingHolds == PairingSpec => []PairingInv
<1>1. PInv => ConnectionIsOurs
  <2> SUFFICES ASSUME PInv, config # None
               PROVE  rows[config.code].key = deviceKey[config.code]
    BY DEF ConnectionIsOurs
  <2>1. config.code \in Code /\ Used(config.code)
    BY DEF PInv, Shapes, PairingTypeOK, Connection, Used
  <2> QED
    BY <2>1 DEF PInv, OursInv
<1>2. PInv => FencedOutOnlyByFaults
  BY DEF PInv, CalmInv, FencedOutOnlyByFaults, NeverFencedOut
<1>3. PInv => PairingInv
  BY <1>1, <1>2 DEF PInv, Shapes, PairingInv
<1> QED
  BY <1>3, PairingInvariant, PTL

\* Nothing but pair() puts another connection in the place of the one on disk, and what
\* that one has seen accepted only grows.
THEOREM PairingAloneSwitches == PairingSpec => OnlyPairingSwitches
<1> DEFINE switch == config # None /\ config' # config =>
                        \/ call.at = "write"
                        \/ config'.code = config.code /\ config'.last > config.last
<1>1. ASSUME PInv, NEW r, Fit(r), Publish(r)
      PROVE  switch
  <2>1. r.boot \in Nat
    BY <1>1 DEF Fit, Reporter
  <2>2. config # None => config \in Connection /\ config.last \in Nat
    BY <1>1, Types, Bounds DEF PInv, Connection, Boots
  <2>3. CASE config # None /\ config' # config
    <3>1. config.code = r.code /\ config' = [config EXCEPT !.last = r.boot]
      BY <1>1, <2>3 DEF Publish, Acked
    <3>2. config'.code = config.code /\ config'.last = r.boot /\ r.boot # config.last
      BY <2>2, <2>3, <3>1 DEF Connection
    <3>3. config.last <= r.boot
      BY <1>1, <2>3, <3>1 DEF Fit
    <3> QED
      BY <2>1, <2>2, <2>3, <3>2, <3>3
  <2> QED
    BY <2>3
<1>2. ASSUME PInv, Thread
      PROVE  switch
  <2>1. call = Idle
    BY <1>2 DEF Thread, Snapshot, Reload, HeartbeatDue
  <2>2. PublishOrRest(reporter) \/ (PublishOrRest(Loaded) /\ (Loaded # None => Loaded.boot \in Boots))
    BY <1>2 DEF Thread, Snapshot, Reload, HeartbeatDue
  <2> QED
    BY <1>1, <1>2, <2>1, <2>2, ReporterIsFit, LoadedIsFit DEF PublishOrRest
<1>3. PInv /\ [Next]_vars => [switch]_vars
  <2> SUFFICES ASSUME PInv, Next
               PROVE  switch
    BY DEF vars, device
  <2>1. CASE Thread \/ WriteConfig
    BY <1>2, <2>1 DEF WriteConfig
  <2>2. CASE ~(Thread \/ WriteConfig)
    BY <2>2 DEF Next, PairStep, OtherClaims, Expire, PairBegins, ClaimIsAnswered, StoreKey,
                DropPending, StatusChanges, Crash, device
  <2> QED
    BY <2>1, <2>2
<1> QED
  BY <1>3, PairingInvariant, PTL DEF PairingSpec, OnlyPairingSwitches
=============================================================================
