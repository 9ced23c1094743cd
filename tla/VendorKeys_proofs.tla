-------------------------- MODULE VendorKeys_proofs --------------------------
(***************************************************************************)
(* Deleted credentials stay deleted, and no scan gets a token that nobody  *)
(* was granted: for any number of requests, scans and rows.                *)
(***************************************************************************)
EXTENDS VendorKeys, TLAPS

-----------------------------------------------------------------------------
(* An UPDATE of a row: the same rows exist, and the others are untouched.  *)
LEMMA UpdateOneRow ==
    ASSUME keys \in Seq(Rows), NEW k \in Rowids, NEW row \in Rows, Update(k, row)
    PROVE  /\ keys' \in Seq(Rows)
           /\ Len(keys') = Len(keys)
           /\ \A j \in Rowids : keys'[j] = IF j = k /\ Here(k) THEN row ELSE keys[j]
  BY DEF Update, Rowids

(* What becomes of the rows in one step: nothing, a new one, an UPDATE of  *)
(* one that leaves it in place, or a deletion.                             *)
RowStep ==
    \/ UNCHANGED keys
    \/ \E row \in Rows : keys' = Append(keys, row)
    \/ \E k \in Rowids : \E row \in Rows : Update(k, row)
    \/ \E k \in Rowids : keys' = [keys EXCEPT ![k].here = FALSE]

LEMMA RowTypes ==
    ASSUME keys \in Seq(Rows), RowStep
    PROVE  /\ keys' \in Seq(Rows)
           /\ Len(keys') \in Nat /\ Len(keys) <= Len(keys')
           /\ \A k \in Rowids : k \in Rowids'
           /\ \A k \in Rowids : ~Here(k) => keys'[k] = keys[k]
  <1>1. CASE UNCHANGED keys
    BY <1>1 DEF Rowids
  <1>2. CASE \E row \in Rows : keys' = Append(keys, row)
    BY <1>2 DEF Rowids
  <1>3. CASE \E k \in Rowids : \E row \in Rows : Update(k, row)
    <2>1. PICK k \in Rowids : \E row \in Rows : Update(k, row)
      BY <1>3
    <2>2. PICK row \in Rows : Update(k, row)
      BY <2>1
    <2>3. /\ keys' \in Seq(Rows)
          /\ Len(keys') = Len(keys)
          /\ \A j \in Rowids : keys'[j] = IF j = k /\ Here(k) THEN row ELSE keys[j]
      BY <2>2, UpdateOneRow
    <2>. QED  BY <2>3 DEF Rowids
  <1>4. CASE \E k \in Rowids : keys' = [keys EXCEPT ![k].here = FALSE]
    <2>1. PICK k \in Rowids : keys' = [keys EXCEPT ![k].here = FALSE]
      BY <1>4
    <2>2. keys[k] \in Rows
      BY DEF Rowids
    <2>3. [keys[k] EXCEPT !.here = FALSE] \in Rows
      BY <2>2 DEF Rows
    <2>4. ~Here(k) => [keys[k] EXCEPT !.here = FALSE] = keys[k]
      BY <2>2 DEF Rows, Here
    <2>5. PICK row \in Rows : row = [keys[k] EXCEPT !.here = FALSE]
      BY <2>3
    <2>6. /\ keys' \in Seq(Rows)
          /\ Len(keys') = Len(keys)
          /\ \A j \in Rowids : keys'[j] = IF j = k THEN row ELSE keys[j]
      BY <2>1, <2>5 DEF Rowids
    <2>7. ~Here(k) => row = keys[k]
      BY <2>4, <2>5
    <2>. QED  BY <2>6, <2>7 DEF Rowids
  <1>. QED  BY <1>1, <1>2, <1>3, <1>4 DEF RowStep

(* What a handler or a scan remembers stays well typed as rows come.       *)
LEMMA RecallTypes ==
    ASSUME keys \in Seq(Rows), RowStep
    PROVE  /\ \A r \in Handlers : r \in Handlers'
           /\ \A r \in Resolutions : r \in Resolutions'
  <1>1. \A k \in Rowids : k \in Rowids'
    BY RowTypes
  <1>. QED  BY <1>1 DEF Handlers, Resolutions

-----------------------------------------------------------------------------
(* What a request in progress remembers.                                   *)
LEMMA Recalled ==
    ASSUME NEW r \in Handlers
    PROVE  /\ r.at \in {"exchange", "write", "flag"} =>
                  r.op \in Ops /\ r.key \in Rowids /\ r.sees \in Rows
           /\ r.at = "reload" => r.op \in Ops /\ r.key \in Rowids
  BY DEF Handlers, Idle, Over

(* What a scan in the middle of a refresh remembers.                       *)
LEMMA Refreshing ==
    ASSUME NEW r \in Resolutions, r.at \in {"refresh", "store", "return"}
    PROVE  r.key \in Rowids /\ r.bundle \in Bundles
  BY DEF Resolutions, Idle

(* Rows as the operations make them.                                       *)
LEMMA MadeRows ==
    /\ \A form \in {"creds", "text"}, from \in Nat : NewRow(form, from) \in Rows
    /\ \A row \in Rows, b \in Bundles : [row EXCEPT !.bundle = b] \in Rows
    /\ \A row \in Rows, value \in BOOLEAN : [row EXCEPT !.enabled = value] \in Rows
    /\ \A row \in Rows, from \in Nat :
         [row EXCEPT !.bundle = Bundle("text", from, "none", FALSE),
                     !.mask = from, !.version = BoxVersion] \in Rows
    /\ \A row \in Rows : [row EXCEPT !.bundle.access = "stale"] \in Rows
  <1>1. \A form \in {"creds", "text"}, from \in Nat :
          Bundle(form, from, "none", FALSE) \in Bundles
    BY DEF Bundle, Bundles
  <1>2. \A form \in {"creds", "text"}, from \in Nat : NewRow(form, from) \in Rows
    <2>1. TAKE form \in {"creds", "text"}, from \in Nat
    <2>. QED  BY DEF NewRow, Rows, BoxVersion, Bundle, Bundles
  <1>3. \A row \in Rows, b \in Bundles : [row EXCEPT !.bundle = b] \in Rows
    BY DEF Rows
  <1>4. \A row \in Rows, value \in BOOLEAN : [row EXCEPT !.enabled = value] \in Rows
    BY DEF Rows
  <1>5. \A row \in Rows, from \in Nat :
          [row EXCEPT !.bundle = Bundle("text", from, "none", FALSE),
                      !.mask = from, !.version = BoxVersion] \in Rows
    <2>1. TAKE row \in Rows, from \in Nat
    <2>2. PICK b \in Bundles :
            b = [form |-> "text", from |-> from, access |-> "none", renewable |-> FALSE]
      BY DEF Bundles
    <2>3. [row EXCEPT !.bundle = b] \in Rows
      BY <1>3
    <2>4. \A r \in Rows : [r EXCEPT !.mask = from] \in Rows
      BY DEF Rows
    <2>5. \A r \in Rows : [r EXCEPT !.version = 1] \in Rows
      BY DEF Rows
    <2>6. [[[row EXCEPT !.bundle = b] EXCEPT !.mask = from] EXCEPT !.version = 1] \in Rows
      BY <2>3, <2>4, <2>5
    <2>7. [row EXCEPT !.bundle = b, !.mask = from, !.version = 1] \in Rows
      BY <2>6
    <2>. QED  BY <2>2, <2>7 DEF Bundle, BoxVersion
  <1>6. \A row \in Rows : [row EXCEPT !.bundle.access = "stale"] \in Rows
    <2>1. TAKE row \in Rows
    <2>2. [row.bundle EXCEPT !.access = "stale"] \in Bundles
      BY DEF Rows, Bundles
    <2>3. [row EXCEPT !.bundle = [row.bundle EXCEPT !.access = "stale"]] \in Rows
      BY <2>2, <1>3
    <2>. QED  BY <2>3
  <1>. QED  BY <1>2, <1>3, <1>4, <1>5, <1>6

(* A step of a handler.                                                    *)
LEMMA HandlerTypes ==
    ASSUME TypeOK, RowStep, NEW q \in Requests, NEW h, h \in Handlers',
           req' = [req EXCEPT ![q] = h], UNCHANGED scan
    PROVE  /\ req' \in [Requests -> Handlers']
           /\ scan' \in [Scans -> Resolutions']
  BY RecallTypes DEF TypeOK

(* A step of a scan.                                                       *)
LEMMA ScanTypes ==
    ASSUME TypeOK, RowStep, NEW s \in Scans, NEW h, h \in Resolutions',
           scan' = [scan EXCEPT ![s] = h], UNCHANGED req
    PROVE  /\ req' \in [Requests -> Handlers']
           /\ scan' \in [Scans -> Resolutions']
  BY RecallTypes DEF TypeOK

-----------------------------------------------------------------------------
(* Steps of handlers.                                                      *)

(* What a handler's step leaves to show once its effect on the rows and    *)
(* the handler's next state are known.                                     *)
LEMMA HandlerStep ==
    ASSUME TypeOK, RowStep, NEW q \in Requests, NEW h, h \in Handlers',
           req' = [req EXCEPT ![q] = h], UNCHANGED scan,
           given' \in Seq(Nat), Len(given') = Len(keys'),
           issued' \in Nat, granted' \subseteq 1..issued'
    PROVE  TypeOK'
  BY HandlerTypes, RowTypes DEF TypeOK

LEMMA InsertStep ==
    ASSUME TypeOK, NEW q \in Requests, NEW op \in {"add", "connect"}, Insert(q, op)
    PROVE  TypeOK' /\ RowStep
  <1>1. PICK form \in {"creds", "text"} : keys' = Append(keys, NewRow(form, issued + 1))
    BY DEF Insert
  <1>2. PICK row \in Rows : keys' = Append(keys, row)
    <2>1. issued + 1 \in Nat
      BY DEF TypeOK
    <2>2. NewRow(form, issued + 1) \in Rows
      BY <2>1, MadeRows
    <2>. QED  BY <1>1, <2>2
  <1>3. RowStep
    BY <1>2 DEF RowStep
  <1>4. Len(keys') = Len(keys) + 1 /\ Len(keys) \in Nat
    BY <1>2 DEF TypeOK
  <1>5. PICK h : /\ req' = [req EXCEPT ![q] = h]
                 /\ h \in {Over, [at |-> "reload", op |-> "connect", key |-> Len(keys) + 1]}
    BY DEF Insert
  <1>6. h \in Handlers'
    BY <1>4, <1>5 DEF Handlers, Ops, Rowids
  <1>7. /\ given' \in Seq(Nat) /\ Len(given') = Len(keys')
        /\ issued' \in Nat /\ granted' \subseteq 1..issued'
    BY <1>4 DEF Insert, TypeOK
  <1>. QED  BY <1>3, <1>5, <1>6, <1>7, HandlerStep DEF Insert

LEMMA LookupStep ==
    ASSUME TypeOK, NEW q \in Requests, NEW k \in Rowids,
           NEW op \in {"enable", "disable", "rotate", "delete", "token"}, Lookup(q, op, k)
    PROVE  TypeOK' /\ RowStep
  <1>1. RowStep
    BY DEF Lookup, RowStep
  <1>2. PICK at \in {"exchange", "write"} :
          req' = [req EXCEPT ![q] = [at |-> at, op |-> op, key |-> k, sees |-> keys[k]]]
    BY DEF Lookup
  <1>3. keys[k] \in Rows /\ Rowids' = Rowids
    BY DEF Lookup, TypeOK, Rowids
  <1>4. [at |-> at, op |-> op, key |-> k, sees |-> keys[k]] \in Handlers'
    BY <1>3 DEF Handlers, Ops
  <1>. QED  BY <1>1, <1>2, <1>4, HandlerStep DEF Lookup, TypeOK

LEMMA ExchangeStep ==
    ASSUME TypeOK, NEW q \in Requests, Exchange(q)
    PROVE  TypeOK' /\ RowStep
  <1>1. RowStep /\ Handlers' = Handlers
    BY DEF Exchange, RowStep, Handlers, Rowids
  <1>2. CASE req' = [req EXCEPT ![q] = Over] /\ UNCHANGED <<issued, granted>>
    <2>1. Over \in Handlers'
      BY <1>1 DEF Handlers
    <2>. QED  BY <1>1, <1>2, <2>1, HandlerStep DEF Exchange, TypeOK
  <1>3. CASE /\ issued' = issued + 1
             /\ granted' = granted \cup {issued + 1}
             /\ \E b \in Bundles :
                  req' = [req EXCEPT ![q] =
                            [at |-> "write", op |-> "token", key |-> req[q].key,
                             sees |-> [req[q].sees EXCEPT !.bundle = b]]]
    <2>1. PICK b \in Bundles :
            req' = [req EXCEPT ![q] =
                      [at |-> "write", op |-> "token", key |-> req[q].key,
                       sees |-> [req[q].sees EXCEPT !.bundle = b]]]
      BY <1>3
    <2>2. req[q].key \in Rowids /\ req[q].sees \in Rows
      BY Recalled DEF Exchange, TypeOK
    <2>3. [req[q].sees EXCEPT !.bundle = b] \in Rows
      BY <2>2, MadeRows
    <2>4. PICK row \in Rows : row = [req[q].sees EXCEPT !.bundle = b]
      BY <2>3
    <2>5. [at |-> "write", op |-> "token", key |-> req[q].key, sees |-> row] \in Handlers'
      BY <1>1, <2>2, <2>4 DEF Handlers, Ops
    <2>6. issued' \in Nat /\ granted' \subseteq 1..issued'
      BY <1>3 DEF TypeOK
    <2>. QED  BY <1>1, <2>1, <2>4, <2>5, <2>6, HandlerStep DEF Exchange, TypeOK
  <1>4. Bundle("creds", issued + 1, "fresh", TRUE) \in Bundles
    <2>1. issued + 1 \in Nat
      BY DEF TypeOK
    <2>. QED  BY <2>1 DEF Bundle, Bundles
  <1>. QED  BY <1>2, <1>3, <1>4 DEF Exchange

LEMMA SetEnabledStep ==
    ASSUME TypeOK, NEW q \in Requests, NEW value \in BOOLEAN,
           req[q].at \in {"write", "flag"}, SetEnabled(q, value)
    PROVE  TypeOK' /\ RowStep
  <1>1. req[q].key \in Rowids
    BY Recalled DEF TypeOK
  <1>2. PICK k \in Rowids : k = req[q].key
    BY <1>1
  <1>3. keys[k] \in Rows
    BY DEF TypeOK, Rowids
  <1>4. PICK row \in Rows : row = [keys[k] EXCEPT !.enabled = value]
    BY <1>3, MadeRows
  <1>5. UNCHANGED keys \/ Update(k, row)
    BY <1>2, <1>4 DEF SetEnabled
  <1>6. RowStep
    BY <1>5 DEF RowStep
  <1>7. Len(keys') = Len(keys)
    BY <1>5, UpdateOneRow DEF TypeOK
  <1>8. Over \in Handlers'
    BY DEF Handlers
  <1>. QED  BY <1>6, <1>7, <1>8, HandlerStep DEF SetEnabled, TypeOK

LEMMA RotateStep ==
    ASSUME TypeOK, NEW q \in Requests, Rotate(q)
    PROVE  TypeOK' /\ RowStep
  <1>1. req[q].key \in Rowids
    BY Recalled DEF Rotate, TypeOK
  <1>2. PICK k \in Rowids : k = req[q].key
    BY <1>1
  <1>3. keys[k] \in Rows /\ issued + 1 \in Nat
    BY DEF TypeOK, Rowids
  <1>4. PICK row \in Rows :
          row = [keys[k] EXCEPT !.bundle = Bundle("text", issued + 1, "none", FALSE),
                                !.mask = issued + 1, !.version = BoxVersion]
    BY <1>3, MadeRows
  <1>5. Update(k, row)
    BY <1>2, <1>4 DEF Rotate
  <1>6. RowStep
    BY <1>5 DEF RowStep
  <1>7. Len(keys') = Len(keys)
    BY <1>5, UpdateOneRow DEF TypeOK
  <1>8. Over \in Handlers'
    BY DEF Handlers
  <1>9. given' \in Seq(Nat) /\ Len(given') = Len(given)
    BY <1>2, <1>3 DEF Rotate, TypeOK, Rowids
  <1>10. /\ issued' = issued + 1
         /\ req' = [req EXCEPT ![q] = Over]
         /\ UNCHANGED granted /\ UNCHANGED scan
    BY DEF Rotate
  <1>11. issued' \in Nat /\ granted' \subseteq 1..issued'
    BY <1>10 DEF TypeOK
  <1>. QED  BY <1>6, <1>7, <1>8, <1>9, <1>10, <1>11, HandlerStep DEF TypeOK

LEMMA DeleteStep ==
    ASSUME TypeOK, NEW q \in Requests, Delete(q)
    PROVE  TypeOK' /\ RowStep
  <1>1. req[q].key \in Rowids
    BY Recalled DEF Delete, TypeOK
  <1>2. RowStep
    BY <1>1 DEF Delete, RowStep
  <1>3. Len(keys') = Len(keys)
    BY <1>1 DEF Delete, TypeOK, Rowids
  <1>4. Over \in Handlers'
    BY DEF Handlers
  <1>5. /\ req' = [req EXCEPT ![q] = Over]
        /\ UNCHANGED <<given, issued, granted, scan>>
    BY DEF Delete
  <1>6. /\ given' \in Seq(Nat) /\ Len(given') = Len(keys')
        /\ issued' \in Nat /\ granted' \subseteq 1..issued'
    BY <1>3, <1>5 DEF TypeOK
  <1>7. UNCHANGED scan
    BY <1>5
  <1>. QED  BY <1>2, <1>4, <1>5, <1>6, <1>7, HandlerStep

LEMMA StoreTokensStep ==
    ASSUME TypeOK, NEW q \in Requests, StoreTokens(q)
    PROVE  TypeOK' /\ RowStep
  <1>1. req[q].key \in Rowids /\ req[q].sees \in Rows
    BY Recalled DEF StoreTokens, TypeOK
  <1>2. PICK k \in Rowids : k = req[q].key
    BY <1>1
  <1>3. keys[k] \in Rows /\ req[q].sees.bundle \in Bundles
    <2>1. keys[k] \in Rows
      BY DEF TypeOK, Rowids
    <2>. QED  BY <1>1, <2>1 DEF Rows
  <1>4. PICK row \in Rows : row = [keys[k] EXCEPT !.bundle = req[q].sees.bundle]
    BY <1>3, MadeRows
  <1>5. Update(k, row)
    BY <1>2, <1>4 DEF StoreTokens
  <1>6. RowStep
    BY <1>5 DEF RowStep
  <1>7. Len(keys') = Len(keys) /\ Rowids' = Rowids
    BY <1>5, UpdateOneRow DEF TypeOK, Rowids
  <1>8. PICK h : /\ req' = [req EXCEPT ![q] = h]
                 /\ h \in {Over, [at |-> "reload", op |-> "token", key |-> k]}
    BY <1>2 DEF StoreTokens
  <1>9. h \in Handlers'
    BY <1>7, <1>8 DEF Handlers, Ops
  <1>10. req[q].sees.bundle.from \in Nat
    BY <1>3 DEF Bundles
  <1>11. given' \in Seq(Nat) /\ Len(given') = Len(given)
    BY <1>2, <1>10 DEF StoreTokens, TypeOK, Rowids
  <1>. QED  BY <1>6, <1>7, <1>8, <1>9, <1>11, HandlerStep DEF StoreTokens, TypeOK

LEMMA ReloadStep ==
    ASSUME TypeOK, NEW q \in Requests, Reload(q)
    PROVE  TypeOK' /\ RowStep
  <1>1. RowStep /\ Handlers' = Handlers
    BY DEF Reload, RowStep, Handlers, Rowids
  <1>2. req[q].key \in Rowids /\ req[q].op \in Ops
    BY Recalled DEF Reload, TypeOK
  <1>3. keys[req[q].key] \in Rows
    BY <1>2 DEF TypeOK, Rowids
  <1>4. PICK h : /\ req' = [req EXCEPT ![q] = h]
                 /\ h \in {Over, [at |-> "flag", op |-> req[q].op, key |-> req[q].key,
                                   sees |-> keys[req[q].key]]}
    BY DEF Reload
  <1>5. h \in Handlers'
    BY <1>1, <1>2, <1>3, <1>4 DEF Handlers
  <1>. QED  BY <1>1, <1>4, <1>5, HandlerStep DEF Reload, TypeOK

LEMMA CrashStep ==
    ASSUME TypeOK, NEW q \in Requests, Crash(q)
    PROVE  TypeOK' /\ RowStep
  <1>1. RowStep /\ Over \in Handlers'
    BY DEF Crash, RowStep, Handlers
  <1>. QED  BY <1>1, HandlerStep DEF Crash, TypeOK

-----------------------------------------------------------------------------
(* Steps of scans, and of time.                                            *)

LEMMA ScanStep ==
    ASSUME TypeOK, RowStep, NEW s \in Scans, NEW h, h \in Resolutions',
           scan' = [scan EXCEPT ![s] = h], UNCHANGED <<given, issued, granted, req>>,
           Len(keys') = Len(keys)
    PROVE  TypeOK'
  BY ScanTypes, RowTypes DEF TypeOK

LEMMA OutcomeTypes ==
    /\ \A from \in Nat : Outcome("schwab", from, FALSE) \in Resolutions'
    /\ OtherVendor \in Resolutions'
    /\ Outcome("other", 0, TRUE) \in Resolutions'
  BY DEF Outcome, OtherVendor, Resolutions

LEMMA SelectStep ==
    ASSUME TypeOK, NEW s \in Scans, Select(s)
    PROVE  TypeOK' /\ RowStep
  <1>1. RowStep /\ Resolutions' = Resolutions /\ Len(keys') = Len(keys)
    BY DEF Select, RowStep, Resolutions, Rowids
  <1>2. CASE scan' = [scan EXCEPT ![s] = OtherVendor]
    BY <1>1, <1>2, ScanStep, OutcomeTypes DEF Select
  <1>3. CASE \E k \in Rowids :
               scan' = [scan EXCEPT ![s] =
                 IF ~Serves(keys[k].bundle) THEN OtherVendor
                 ELSE IF keys[k].bundle.access = "fresh"
                 THEN Outcome("schwab", keys[k].bundle.from, FALSE)
                 ELSE [at |-> "refresh", key |-> k, bundle |-> keys[k].bundle]]
    <2>1. PICK k \in Rowids :
               scan' = [scan EXCEPT ![s] =
                 IF ~Serves(keys[k].bundle) THEN OtherVendor
                 ELSE IF keys[k].bundle.access = "fresh"
                 THEN Outcome("schwab", keys[k].bundle.from, FALSE)
                 ELSE [at |-> "refresh", key |-> k, bundle |-> keys[k].bundle]]
      BY <1>3
    <2>2. keys[k] \in Rows
      BY DEF TypeOK, Rowids
    <2>3. keys[k].bundle \in Bundles
      BY <2>2 DEF Rows
    <2>4. keys[k].bundle.from \in Nat
      BY <2>3 DEF Bundles
    <2>5. Outcome("schwab", keys[k].bundle.from, FALSE) \in Resolutions'
      BY <2>4, OutcomeTypes
    <2>6. [at |-> "refresh", key |-> k, bundle |-> keys[k].bundle] \in Resolutions'
      BY <1>1, <2>3 DEF Resolutions
    <2>7. OtherVendor \in Resolutions'
      BY OutcomeTypes
    <2>8. PICK h : h \in Resolutions' /\ scan' = [scan EXCEPT ![s] = h]
      BY <2>1, <2>5, <2>6, <2>7
    <2>. QED  BY <1>1, <2>8, ScanStep DEF Select
  <1>. QED  BY <1>2, <1>3 DEF Select

LEMMA RefreshStep ==
    ASSUME TypeOK, NEW s \in Scans, Refresh(s)
    PROVE  TypeOK' /\ RowStep
  <1>1. RowStep /\ Resolutions' = Resolutions /\ Len(keys') = Len(keys)
    BY DEF Refresh, RowStep, Resolutions, Rowids
  <1>2. CASE scan' = [scan EXCEPT ![s] = OtherVendor]
    BY <1>1, <1>2, ScanStep, OutcomeTypes DEF Refresh
  <1>3. CASE scan' = [scan EXCEPT ![s] =
               [at |-> "store", key |-> scan[s].key,
                bundle |-> [scan[s].bundle EXCEPT !.access = "fresh"]]]
    <2>1. scan[s].key \in Rowids /\ scan[s].bundle \in Bundles
      BY Refreshing DEF Refresh, TypeOK
    <2>2. [scan[s].bundle EXCEPT !.access = "fresh"] \in Bundles
      BY <2>1 DEF Bundles
    <2>3. [at |-> "store", key |-> scan[s].key,
           bundle |-> [scan[s].bundle EXCEPT !.access = "fresh"]] \in Resolutions'
      BY <1>1, <2>1, <2>2 DEF Resolutions
    <2>. QED  BY <1>1, <1>3, <2>3, ScanStep DEF Refresh
  <1>. QED  BY <1>2, <1>3 DEF Refresh

LEMMA StoreStep ==
    ASSUME TypeOK, NEW s \in Scans, Store(s)
    PROVE  TypeOK' /\ RowStep
  <1>1. scan[s].key \in Rowids /\ scan[s].bundle \in Bundles
    BY Refreshing DEF Store, TypeOK
  <1>2. PICK k \in Rowids : k = scan[s].key
    BY <1>1
  <1>3. keys[k] \in Rows
    BY DEF TypeOK, Rowids
  <1>4. PICK row \in Rows : row = [keys[k] EXCEPT !.bundle = scan[s].bundle]
    BY <1>1, <1>3, MadeRows
  <1>5. Update(k, row)
    BY <1>2, <1>4 DEF Store
  <1>6. RowStep
    BY <1>5 DEF RowStep
  <1>7. Len(keys') = Len(keys) /\ Resolutions' = Resolutions
    BY <1>5, UpdateOneRow DEF TypeOK, Rowids, Resolutions
  <1>8. PICK h : /\ scan' = [scan EXCEPT ![s] = h]
                 /\ h \in {Outcome("other", 0, TRUE),
                           [at |-> "return", key |-> k, bundle |-> scan[s].bundle]}
    BY <1>2 DEF Store
  <1>9. h \in Resolutions'
    BY <1>1, <1>7, <1>8, OutcomeTypes DEF Resolutions
  <1>. QED  BY <1>6, <1>7, <1>8, <1>9, ScanStep DEF Store

LEMMA ReturnStep ==
    ASSUME TypeOK, NEW s \in Scans, Return(s)
    PROVE  TypeOK' /\ RowStep
  <1>1. RowStep /\ Len(keys') = Len(keys)
    BY DEF Return, RowStep
  <1>2. scan[s].bundle \in Bundles
    BY Refreshing DEF Return, TypeOK
  <1>3. scan[s].bundle.from \in Nat
    BY <1>2 DEF Bundles
  <1>4. PICK h : /\ scan' = [scan EXCEPT ![s] = h]
                 /\ h \in {OtherVendor, Outcome("schwab", scan[s].bundle.from, FALSE)}
    BY DEF Return
  <1>5. h \in Resolutions'
    BY <1>3, <1>4, OutcomeTypes
  <1>. QED  BY <1>1, <1>4, <1>5, ScanStep DEF Return

LEMMA ExpireStep ==
    ASSUME TypeOK, NEW k \in Rowids, Expire(k)
    PROVE  TypeOK' /\ RowStep
  <1>1. keys[k] \in Rows
    BY DEF TypeOK, Rowids
  <1>2. PICK row \in Rows : row = [keys[k] EXCEPT !.bundle.access = "stale"]
    BY <1>1, MadeRows
  <1>3. Update(k, row)
    BY <1>2 DEF Expire, Update
  <1>4. RowStep
    BY <1>3 DEF RowStep
  <1>5. Len(keys') = Len(keys)
    BY <1>3, UpdateOneRow DEF TypeOK
  <1>. QED  BY <1>4, <1>5, RecallTypes, RowTypes DEF Expire, TypeOK

-----------------------------------------------------------------------------
LEMMA StepTypes == TypeOK /\ [Next]_vars => TypeOK' /\ RowStep
  <1>. SUFFICES ASSUME TypeOK, [Next]_vars PROVE TypeOK' /\ RowStep
    OBVIOUS
  <1>1. CASE UNCHANGED vars
    BY <1>1 DEF vars, TypeOK, RowStep, Handlers, Resolutions, Rowids
  <1>2. ASSUME NEW q \in Requests, Handle(q) PROVE TypeOK' /\ RowStep
    <2>1. CASE \E op \in {"add", "connect"} : Insert(q, op)
      BY <2>1, InsertStep
    <2>2. CASE \E op \in {"enable", "disable", "rotate", "delete", "token"}, k \in Rowids :
                 Lookup(q, op, k)
      BY <2>2, LookupStep
    <2>3. CASE Toggle(q)
      <3>1. req[q].at \in {"write", "flag"} /\ \E value \in BOOLEAN : SetEnabled(q, value)
        BY <2>3 DEF Toggle
      <3>. QED  BY <3>1, SetEnabledStep
    <2>4. CASE SetFlag(q)
      <3>1. req[q].at \in {"write", "flag"} /\ \E value \in BOOLEAN : SetEnabled(q, value)
        BY <2>4 DEF SetFlag
      <3>. QED  BY <3>1, SetEnabledStep
    <2>5. CASE Exchange(q) \/ Rotate(q) \/ Delete(q) \/ StoreTokens(q) \/ Reload(q) \/ Crash(q)
      BY <2>5, ExchangeStep, RotateStep, DeleteStep, StoreTokensStep, ReloadStep, CrashStep
    <2>. QED  BY <1>2, <2>1, <2>2, <2>3, <2>4, <2>5 DEF Handle
  <1>3. ASSUME NEW s \in Scans, Resolve(s) PROVE TypeOK' /\ RowStep
    BY <1>3, SelectStep, RefreshStep, StoreStep, ReturnStep DEF Resolve
  <1>4. ASSUME NEW k \in Rowids, Expire(k) PROVE TypeOK' /\ RowStep
    BY <1>4, ExpireStep
  <1>. QED  BY <1>1, <1>2, <1>3, <1>4 DEF Next

(* Handlers and scans of VendorKeys remember rows that exist, with fields  *)
(* of their types, at every point of every run.                            *)
THEOREM TypeCorrect == Spec => []TypeOK
  <1>1. Init => TypeOK
    BY DEF Init, TypeOK, Handlers, Resolutions
  <1>2. TypeOK /\ [Next]_vars => TypeOK'
    BY StepTypes
  <1>. QED  BY <1>1, <1>2, PTL DEF Spec

(* A credential row once deleted is never written again, by no refresh, no *)
(* exchange and no handler that still remembers it (GoneIsGone).           *)
THEOREM DeletedForGood == Spec => GoneIsGone
  <1>1. TypeOK /\ [Next]_vars =>
          [\A k \in Rowids : ~Here(k) => keys'[k] = keys[k]]_vars
    BY StepTypes, RowTypes DEF TypeOK
  <1>. QED  BY <1>1, TypeCorrect, PTL DEF Spec, GoneIsGone

-----------------------------------------------------------------------------
(* Tokens come from exchanges only: a bundle that serves stems from one,   *)
(* wherever it is stored or remembered.                                    *)
Honest(b) ==
    b.form = "creds" /\ (b.access # "none" \/ b.renewable = TRUE) => b.from \in granted

RowsHonest     == \A k \in Rowids : Honest(keys[k].bundle)
RequestsHonest == \A q \in Requests : req[q].at \in {"exchange", "write", "flag"} =>
                    Honest(req[q].sees.bundle)
ScansHonest    == \A s \in Scans : scan[s].at \in {"refresh", "store", "return"} =>
                    scan[s].bundle.from \in granted

GrantedInv == TypeOK /\ RowsHonest /\ RequestsHonest /\ ScansHonest /\ TokensAreGranted

LEMMA HonestUpdate ==
    ASSUME keys \in Seq(Rows), RowsHonest, granted \subseteq granted',
           NEW k \in Rowids, NEW row \in Rows, Update(k, row), Honest(row.bundle)'
    PROVE  RowsHonest'
  <1>1. /\ Len(keys') = Len(keys)
        /\ \A j \in Rowids : keys'[j] = IF j = k /\ Here(k) THEN row ELSE keys[j]
    BY UpdateOneRow
  <1>. QED  BY <1>1 DEF RowsHonest, Honest, Rowids

(* Rows that are added hold no tokens, and deletion takes no bundle.       *)
LEMMA HonestAppend ==
    ASSUME keys \in Seq(Rows), RowsHonest, granted \subseteq granted',
           NEW form, NEW from, keys' = Append(keys, NewRow(form, from))
    PROVE  RowsHonest'
  <1>1. NewRow(form, from).bundle.access = "none" /\ NewRow(form, from).bundle.renewable = FALSE
    BY DEF NewRow, Bundle
  <1>2. PICK row : row = NewRow(form, from)
    OBVIOUS
  <1>3. keys' = Append(keys, row) /\ row.bundle.access = "none" /\ row.bundle.renewable = FALSE
    BY <1>1, <1>2
  <1>. QED  BY <1>3 DEF RowsHonest, Honest, Rowids

LEMMA ScansKept ==
    ASSUME ScansHonest, TokensAreGranted, UNCHANGED scan, granted \subseteq granted'
    PROVE  ScansHonest' /\ TokensAreGranted'
  BY DEF ScansHonest, TokensAreGranted

LEMMA RequestMoves ==
    ASSUME req \in [Requests -> Handlers], RequestsHonest, granted \subseteq granted',
           NEW q \in Requests, NEW h, req' = [req EXCEPT ![q] = h],
           h.at \in {"exchange", "write", "flag"} => Honest(h.sees.bundle)'
    PROVE  RequestsHonest'
  <1>1. \A r \in Requests : req'[r] = IF r = q THEN h ELSE req[r]
    OBVIOUS
  <1>2. ASSUME NEW r \in Requests, req'[r].at \in {"exchange", "write", "flag"}
        PROVE  Honest(req[r].sees.bundle)'
    <2>1. CASE r = q
      BY <1>1, <1>2, <2>1 DEF Honest
    <2>2. CASE r # q
      BY <1>1, <1>2, <2>2 DEF RequestsHonest, Honest
    <2>. QED  BY <2>1, <2>2
  <1>. QED  BY <1>2 DEF RequestsHonest, Honest

LEMMA RequestOver ==
    ASSUME req \in [Requests -> Handlers], RequestsHonest, granted \subseteq granted',
           NEW q \in Requests, req' = [req EXCEPT ![q] = Over]
    PROVE  RequestsHonest'
  <1>1. Over.at \notin {"exchange", "write", "flag"}
    BY DEF Over
  <1>. QED  BY <1>1, RequestMoves

LEMMA HonestSetEnabled ==
    ASSUME GrantedInv, NEW q \in Requests, NEW value \in BOOLEAN,
           req[q].at \in {"write", "flag"}, SetEnabled(q, value)
    PROVE  RowsHonest' /\ RequestsHonest' /\ ScansHonest' /\ TokensAreGranted'
  <1>1. PICK k \in Rowids : k = req[q].key
    BY Recalled DEF GrantedInv, TypeOK
  <1>2. keys[k] \in Rows
    BY DEF GrantedInv, TypeOK, Rowids
  <1>3. PICK row \in Rows : row = [keys[k] EXCEPT !.enabled = value]
    BY <1>2, MadeRows
  <1>4. row.bundle = keys[k].bundle
    BY <1>2, <1>3 DEF Rows
  <1>5. UNCHANGED keys \/ Update(k, row)
    BY <1>1, <1>3 DEF SetEnabled
  <1>6. UNCHANGED granted /\ UNCHANGED scan /\ req' = [req EXCEPT ![q] = Over]
    BY DEF SetEnabled
  <1>7. RowsHonest'
    <2>1. CASE UNCHANGED keys
      BY <1>6, <2>1 DEF GrantedInv, RowsHonest, Honest, Rowids
    <2>2. CASE Update(k, row)
      <3>1. Honest(row.bundle)'
        BY <1>4, <1>6 DEF GrantedInv, RowsHonest, Honest
      <3>. QED  BY <1>6, <2>2, <3>1, HonestUpdate DEF GrantedInv, TypeOK
    <2>. QED  BY <1>5, <2>1, <2>2
  <1>. QED  BY <1>6, <1>7, RequestOver, ScansKept DEF GrantedInv, TypeOK

LEMMA HonestHandler ==
    ASSUME GrantedInv, NEW q \in Requests, Handle(q)
    PROVE  RowsHonest' /\ RequestsHonest' /\ ScansHonest' /\ TokensAreGranted'
  <1>1. ASSUME NEW op \in {"add", "connect"}, Insert(q, op)
        PROVE  RowsHonest' /\ RequestsHonest' /\ ScansHonest' /\ TokensAreGranted'
    <2>1. PICK form : keys' = Append(keys, NewRow(form, issued + 1))
      BY <1>1 DEF Insert
    <2>2. UNCHANGED granted /\ UNCHANGED scan
      BY <1>1 DEF Insert
    <2>3. RowsHonest'
      BY <2>1, <2>2, HonestAppend DEF GrantedInv, TypeOK
    <2>4. PICK h : req' = [req EXCEPT ![q] = h] /\ h.at \in {"reload", "over"}
      <3>1. /\ Over.at = "over"
            /\ [at |-> "reload", op |-> op, key |-> Len(keys) + 1].at = "reload"
        BY DEF Over
      <3>. QED  BY <1>1, <3>1 DEF Insert
    <2>5. RequestsHonest'
      BY <2>2, <2>4, RequestMoves DEF GrantedInv, TypeOK
    <2>. QED  BY <2>2, <2>3, <2>5, ScansKept DEF GrantedInv
  <1>2. ASSUME NEW op, NEW k \in Rowids, Lookup(q, op, k)
        PROVE  RowsHonest' /\ RequestsHonest' /\ ScansHonest' /\ TokensAreGranted'
    <2>1. UNCHANGED keys /\ UNCHANGED granted /\ UNCHANGED scan
      BY <1>2 DEF Lookup
    <2>2. PICK h : req' = [req EXCEPT ![q] = h] /\ h.sees = keys[k]
      <3>1. PICK at : req' = [req EXCEPT ![q] =
                                [at |-> at, op |-> op, key |-> k, sees |-> keys[k]]]
        BY <1>2 DEF Lookup
      <3>2. [at |-> at, op |-> op, key |-> k, sees |-> keys[k]].sees = keys[k]
        OBVIOUS
      <3>. QED  BY <3>1, <3>2
    <2>3. Honest(h.sees.bundle)'
      BY <2>1, <2>2 DEF GrantedInv, RowsHonest, Honest
    <2>4. RequestsHonest'
      BY <2>1, <2>2, <2>3, RequestMoves DEF GrantedInv, TypeOK
    <2>5. RowsHonest'
      BY <2>1 DEF GrantedInv, RowsHonest, Honest, Rowids
    <2>. QED  BY <2>1, <2>4, <2>5, ScansKept DEF GrantedInv
  <1>3. ASSUME Exchange(q)
        PROVE  RowsHonest' /\ RequestsHonest' /\ ScansHonest' /\ TokensAreGranted'
    <2>1. UNCHANGED keys /\ UNCHANGED scan /\ granted \subseteq granted'
      BY <1>3 DEF Exchange
    <2>2. RowsHonest'
      BY <2>1 DEF GrantedInv, RowsHonest, Honest, Rowids
    <2>3. CASE req' = [req EXCEPT ![q] = Over]
      BY <2>1, <2>2, <2>3, RequestOver, ScansKept DEF GrantedInv, TypeOK
    <2>4. CASE req' # [req EXCEPT ![q] = Over]
      <3>1. PICK b : /\ b.from \in granted'
                     /\ req' = [req EXCEPT ![q] =
                                  [at |-> "write", op |-> "token", key |-> req[q].key,
                                   sees |-> [req[q].sees EXCEPT !.bundle = b]]]
        <4>1. Bundle("creds", issued + 1, "fresh", TRUE).from = issued + 1
          BY DEF Bundle
        <4>. QED  BY <1>3, <2>4, <4>1 DEF Exchange
      <3>2. req[q].sees \in Rows
        BY <1>3, Recalled DEF Exchange, GrantedInv, TypeOK
      <3>3. [req[q].sees EXCEPT !.bundle = b].bundle = b
        BY <3>2 DEF Rows
      <3>4. PICK row : row = [req[q].sees EXCEPT !.bundle = b]
        OBVIOUS
      <3>5. Honest(row.bundle)'
        BY <3>1, <3>3, <3>4 DEF Honest
      <3>6. PICK h : req' = [req EXCEPT ![q] = h] /\ h.sees = row
        <4>1. [at |-> "write", op |-> "token", key |-> req[q].key, sees |-> row].sees = row
          OBVIOUS
        <4>. QED  BY <3>1, <3>4, <4>1
      <3>7. RequestsHonest'
        BY <2>1, <3>5, <3>6, RequestMoves DEF GrantedInv, TypeOK
      <3>. QED  BY <2>1, <2>2, <3>7, ScansKept DEF GrantedInv
    <2>. QED  BY <2>3, <2>4
  <1>4. ASSUME Toggle(q)
        PROVE  RowsHonest' /\ RequestsHonest' /\ ScansHonest' /\ TokensAreGranted'
    <2>1. req[q].at \in {"write", "flag"} /\ \E value \in BOOLEAN : SetEnabled(q, value)
      BY <1>4 DEF Toggle
    <2>. QED  BY <2>1, HonestSetEnabled
  <1>5. ASSUME SetFlag(q)
        PROVE  RowsHonest' /\ RequestsHonest' /\ ScansHonest' /\ TokensAreGranted'
    <2>1. req[q].at \in {"write", "flag"} /\ \E value \in BOOLEAN : SetEnabled(q, value)
      BY <1>5 DEF SetFlag
    <2>. QED  BY <2>1, HonestSetEnabled
  <1>6. ASSUME Rotate(q)
        PROVE  RowsHonest' /\ RequestsHonest' /\ ScansHonest' /\ TokensAreGranted'
    <2>1. PICK k \in Rowids : k = req[q].key
      BY <1>6, Recalled DEF Rotate, GrantedInv, TypeOK
    <2>2. keys[k] \in Rows /\ issued + 1 \in Nat
      BY DEF GrantedInv, TypeOK, Rowids
    <2>3. PICK row \in Rows :
            row = [keys[k] EXCEPT !.bundle = Bundle("text", issued + 1, "none", FALSE),
                                  !.mask = issued + 1, !.version = BoxVersion]
      BY <2>2, MadeRows
    <2>4. PICK b : b = Bundle("text", issued + 1, "none", FALSE) /\ b.form = "text"
      <3>1. Bundle("text", issued + 1, "none", FALSE).form = "text"
        BY DEF Bundle
      <3>. QED  BY <3>1
    <2>5. row.bundle = b
      BY <2>2, <2>3, <2>4 DEF Rows
    <2>6. Update(k, row) /\ UNCHANGED granted /\ UNCHANGED scan
                         /\ req' = [req EXCEPT ![q] = Over]
      BY <1>6, <2>1, <2>3 DEF Rotate
    <2>7. Honest(row.bundle)'
      BY <2>4, <2>5 DEF Honest
    <2>8. RowsHonest'
      BY <2>6, <2>7, HonestUpdate DEF GrantedInv, TypeOK
    <2>. QED  BY <2>6, <2>8, RequestOver, ScansKept DEF GrantedInv, TypeOK
  <1>7. ASSUME Delete(q)
        PROVE  RowsHonest' /\ RequestsHonest' /\ ScansHonest' /\ TokensAreGranted'
    <2>1. PICK k \in Rowids : k = req[q].key
      BY <1>7, Recalled DEF Delete, GrantedInv, TypeOK
    <2>2. keys[k] \in Rows
      BY DEF GrantedInv, TypeOK, Rowids
    <2>3. PICK row : row = [keys[k] EXCEPT !.here = FALSE] /\ row.bundle = keys[k].bundle
      <3>1. [keys[k] EXCEPT !.here = FALSE].bundle = keys[k].bundle
        BY <2>2 DEF Rows
      <3>. QED  BY <3>1
    <2>4. /\ keys' = [keys EXCEPT ![k] = row]
          /\ UNCHANGED granted /\ UNCHANGED scan
          /\ req' = [req EXCEPT ![q] = Over]
      BY <1>7, <2>1, <2>3 DEF Delete
    <2>5. /\ Len(keys') = Len(keys)
          /\ \A j \in Rowids : keys'[j] = IF j = k THEN row ELSE keys[j]
      BY <2>4 DEF GrantedInv, TypeOK, Rowids
    <2>6. RowsHonest'
      BY <2>3, <2>4, <2>5 DEF GrantedInv, RowsHonest, Honest, Rowids
    <2>. QED  BY <2>4, <2>6, RequestOver, ScansKept DEF GrantedInv, TypeOK
  <1>8. ASSUME StoreTokens(q)
        PROVE  RowsHonest' /\ RequestsHonest' /\ ScansHonest' /\ TokensAreGranted'
    <2>1. req[q].key \in Rowids /\ req[q].sees \in Rows
      BY <1>8, Recalled DEF StoreTokens, GrantedInv, TypeOK
    <2>2. PICK k \in Rowids : k = req[q].key
      BY <2>1
    <2>3. keys[k] \in Rows
      BY DEF GrantedInv, TypeOK, Rowids
    <2>4. req[q].sees.bundle \in Bundles
      BY <2>1 DEF Rows
    <2>5. PICK row \in Rows : row = [keys[k] EXCEPT !.bundle = req[q].sees.bundle]
      BY <2>3, <2>4, MadeRows
    <2>6. row.bundle = req[q].sees.bundle
      BY <2>3, <2>5 DEF Rows
    <2>7. Update(k, row) /\ UNCHANGED granted /\ UNCHANGED scan
      BY <1>8, <2>2, <2>5 DEF StoreTokens
    <2>8. Honest(row.bundle)'
      BY <1>8, <2>6, <2>7 DEF StoreTokens, GrantedInv, RequestsHonest, Honest
    <2>9. RowsHonest'
      BY <2>7, <2>8, HonestUpdate DEF GrantedInv, TypeOK
    <2>10. PICK h : req' = [req EXCEPT ![q] = h] /\ h.at \in {"reload", "over"}
      <3>1. /\ Over.at = "over"
            /\ [at |-> "reload", op |-> "token", key |-> req[q].key].at = "reload"
        BY DEF Over
      <3>. QED  BY <1>8, <3>1 DEF StoreTokens
    <2>11. RequestsHonest'
      BY <2>7, <2>10, RequestMoves DEF GrantedInv, TypeOK
    <2>. QED  BY <2>7, <2>9, <2>11, ScansKept DEF GrantedInv
  <1>9. ASSUME Reload(q)
        PROVE  RowsHonest' /\ RequestsHonest' /\ ScansHonest' /\ TokensAreGranted'
    <2>1. UNCHANGED keys /\ UNCHANGED granted /\ UNCHANGED scan
      BY <1>9 DEF Reload
    <2>2. PICK h : /\ req' = [req EXCEPT ![q] = h]
                   /\ h.at = "over" \/ h.sees = keys[req[q].key]
      <3>1. /\ Over.at = "over"
            /\ [at |-> "flag", op |-> req[q].op, key |-> req[q].key,
                sees |-> keys[req[q].key]].sees = keys[req[q].key]
        BY DEF Over
      <3>. QED  BY <1>9, <3>1 DEF Reload
    <2>3. req[q].key \in Rowids
      BY <1>9, Recalled DEF Reload, GrantedInv, TypeOK
    <2>4. h.at # "over" => Honest(h.sees.bundle)'
      BY <2>1, <2>2, <2>3 DEF GrantedInv, RowsHonest, Honest
    <2>5. RequestsHonest'
      BY <2>1, <2>2, <2>4, RequestMoves DEF GrantedInv, TypeOK
    <2>6. RowsHonest'
      BY <2>1 DEF GrantedInv, RowsHonest, Honest, Rowids
    <2>. QED  BY <2>1, <2>5, <2>6, ScansKept DEF GrantedInv
  <1>10. ASSUME Crash(q)
         PROVE  RowsHonest' /\ RequestsHonest' /\ ScansHonest' /\ TokensAreGranted'
    <2>1. UNCHANGED keys /\ UNCHANGED granted /\ UNCHANGED scan
                         /\ req' = [req EXCEPT ![q] = Over]
      BY <1>10 DEF Crash
    <2>2. RowsHonest'
      BY <2>1 DEF GrantedInv, RowsHonest, Honest, Rowids
    <2>. QED  BY <2>1, <2>2, RequestOver, ScansKept DEF GrantedInv, TypeOK
  <1>. QED  BY <1>1, <1>2, <1>3, <1>4, <1>5, <1>6, <1>7, <1>8, <1>9, <1>10 DEF Handle

LEMMA HonestScan ==
    ASSUME GrantedInv, NEW s \in Scans, Resolve(s)
    PROVE  RowsHonest' /\ RequestsHonest' /\ ScansHonest' /\ TokensAreGranted'
  <1>. DEFINE Told(h) ==
         /\ h.at \in {"refresh", "store", "return"} => h.bundle.from \in granted
         /\ h.at = "over" /\ h.got = "schwab" => h.from \in granted
  <1>1. UNCHANGED granted /\ UNCHANGED req
    BY DEF Resolve, Select, Refresh, Store, Return
  <1>2. ASSUME NEW h, Told(h), scan' = [scan EXCEPT ![s] = h]
        PROVE  ScansHonest' /\ TokensAreGranted'
    <2>1. \A t \in Scans : scan'[t] = IF t = s THEN h ELSE scan[t]
      BY <1>2 DEF GrantedInv, TypeOK
    <2>. QED  BY <1>1, <1>2, <2>1 DEF GrantedInv, ScansHonest, TokensAreGranted
  <1>3. Told(OtherVendor) /\ Told(Outcome("other", 0, TRUE))
    BY DEF OtherVendor, Outcome
  <1>4. \A from \in granted : Told(Outcome("schwab", from, FALSE))
    BY DEF Outcome
  <1>5. RequestsHonest'
    BY <1>1 DEF GrantedInv, RequestsHonest, Honest
  <1>6. ASSUME UNCHANGED keys PROVE RowsHonest'
    BY <1>1, <1>6 DEF GrantedInv, RowsHonest, Honest, Rowids
  <1>7. CASE Select(s)
    <2>1. CASE scan' = [scan EXCEPT ![s] = OtherVendor]
      BY <1>2, <1>3, <1>5, <1>6, <1>7, <2>1 DEF Select
    <2>2. CASE scan' # [scan EXCEPT ![s] = OtherVendor]
      <3>1. PICK k \in Rowids :
              /\ Serves(keys[k].bundle)
              /\ scan' = [scan EXCEPT ![s] =
                   IF keys[k].bundle.access = "fresh"
                   THEN Outcome("schwab", keys[k].bundle.from, FALSE)
                   ELSE [at |-> "refresh", key |-> k, bundle |-> keys[k].bundle]]
        BY <1>7, <2>2 DEF Select
      <3>2. keys[k].bundle.from \in granted
        BY <3>1 DEF Serves, GrantedInv, RowsHonest, Honest
      <3>3. PICK h : Told(h) /\ scan' = [scan EXCEPT ![s] = h]
        BY <1>4, <3>1, <3>2
      <3>. QED  BY <1>2, <1>5, <1>6, <1>7, <3>3 DEF Select
    <2>. QED  BY <2>1, <2>2
  <1>8. CASE Refresh(s)
    <2>1. scan[s].bundle \in Bundles /\ scan[s].bundle.from \in granted
      BY <1>8, Refreshing DEF Refresh, GrantedInv, TypeOK, ScansHonest
    <2>2. PICK b : b = [scan[s].bundle EXCEPT !.access = "fresh"] /\ b.from \in granted
      <3>1. [scan[s].bundle EXCEPT !.access = "fresh"].from = scan[s].bundle.from
        BY <2>1 DEF Bundles
      <3>. QED  BY <2>1, <3>1
    <2>3. PICK h : Told(h) /\ scan' = [scan EXCEPT ![s] = h]
      <3>1. Told([at |-> "store", key |-> scan[s].key, bundle |-> b])
        BY <2>2
      <3>. QED  BY <1>3, <1>8, <2>2, <3>1 DEF Refresh
    <2>. QED  BY <1>2, <1>5, <1>6, <1>8, <2>3 DEF Refresh
  <1>9. CASE Store(s)
    <2>1. /\ scan[s].key \in Rowids /\ scan[s].bundle \in Bundles
          /\ scan[s].bundle.from \in granted
      BY <1>9, Refreshing DEF Store, GrantedInv, TypeOK, ScansHonest
    <2>2. PICK k \in Rowids : k = scan[s].key
      BY <2>1
    <2>3. keys[k] \in Rows
      BY DEF GrantedInv, TypeOK, Rowids
    <2>4. PICK row \in Rows : row = [keys[k] EXCEPT !.bundle = scan[s].bundle]
      BY <2>1, <2>3, MadeRows
    <2>5. row.bundle = scan[s].bundle
      BY <2>3, <2>4 DEF Rows
    <2>6. Update(k, row)
      BY <1>9, <2>2, <2>4 DEF Store
    <2>7. Honest(row.bundle)'
      BY <1>1, <2>1, <2>5 DEF Honest
    <2>8. RowsHonest'
      BY <1>1, <2>6, <2>7, HonestUpdate DEF GrantedInv, TypeOK
    <2>9. PICK h : Told(h) /\ scan' = [scan EXCEPT ![s] = h]
      <3>1. Told([at |-> "return", key |-> k, bundle |-> scan[s].bundle])
        BY <2>1
      <3>. QED  BY <1>3, <1>9, <2>2, <3>1 DEF Store
    <2>. QED  BY <1>2, <1>5, <2>8, <2>9
  <1>10. CASE Return(s)
    <2>1. scan[s].bundle.from \in granted
      BY <1>10 DEF Return, GrantedInv, ScansHonest
    <2>2. PICK h : Told(h) /\ scan' = [scan EXCEPT ![s] = h]
      BY <1>3, <1>4, <1>10, <2>1 DEF Return
    <2>. QED  BY <1>2, <1>5, <1>6, <1>10, <2>2 DEF Return
  <1>. QED  BY <1>7, <1>8, <1>9, <1>10 DEF Resolve

LEMMA HonestExpire ==
    ASSUME GrantedInv, NEW k \in Rowids, Expire(k)
    PROVE  RowsHonest' /\ RequestsHonest' /\ ScansHonest' /\ TokensAreGranted'
  <1>1. keys[k] \in Rows
    BY DEF GrantedInv, TypeOK, Rowids
  <1>2. PICK row \in Rows : row = [keys[k] EXCEPT !.bundle.access = "stale"]
    BY <1>1, MadeRows
  <1>3. /\ row.bundle.form = keys[k].bundle.form
        /\ row.bundle.from = keys[k].bundle.from
    BY <1>1, <1>2 DEF Rows, Bundles
  <1>4. Update(k, row) /\ UNCHANGED granted /\ UNCHANGED scan /\ UNCHANGED req
    BY <1>2 DEF Expire, Update
  <1>5. Honest(row.bundle)'
    BY <1>3, <1>4 DEF Expire, GrantedInv, RowsHonest, Honest
  <1>6. RowsHonest'
    BY <1>4, <1>5, HonestUpdate DEF GrantedInv, TypeOK
  <1>7. RequestsHonest'
    BY <1>4 DEF GrantedInv, RequestsHonest, Honest
  <1>. QED  BY <1>4, <1>6, <1>7, ScansKept DEF GrantedInv

(* A scan that goes on with Schwab uses tokens that a user's authorization *)
(* code was exchanged for: never those of a credential that is only half   *)
(* connected, nor a rotated secret (TokensAreGranted).                     *)
THEOREM TokensGranted == Spec => []TokensAreGranted
  <1>1. Init => GrantedInv
    BY DEF Init, GrantedInv, TypeOK, Handlers, Resolutions, RowsHonest, Rowids,
           RequestsHonest, ScansHonest, TokensAreGranted, Idle
  <1>2. GrantedInv /\ [Next]_vars => GrantedInv'
    <2>. SUFFICES ASSUME GrantedInv, [Next]_vars PROVE GrantedInv'
      OBVIOUS
    <2>1. TypeOK'
      BY StepTypes DEF GrantedInv
    <2>2. CASE UNCHANGED vars
      BY <2>1, <2>2 DEF vars, GrantedInv, RowsHonest, Honest, Rowids, RequestsHonest,
                        ScansHonest, TokensAreGranted
    <2>3. CASE Next
      BY <2>1, <2>3, HonestHandler, HonestScan, HonestExpire DEF Next, GrantedInv
    <2>. QED  BY <2>2, <2>3
  <1>3. GrantedInv => TokensAreGranted
    BY DEF GrantedInv
  <1>. QED  BY <1>1, <1>2, <1>3, PTL DEF Spec

-----------------------------------------------------------------------------
(* Which steps can turn a row on.  Every UPDATE but that of SetEnabled     *)
(* keeps the column as the row has it, whatever the session remembers.     *)
SameFlags == \A k \in Rowids : keys'[k].enabled => keys[k].enabled

LEMMA FlagsKept ==
    ASSUME TypeOK, NEW k \in Rowids, NEW row \in Rows, row.enabled = keys[k].enabled,
           Update(k, row)
    PROVE  SameFlags
  BY UpdateOneRow DEF TypeOK, SameFlags

LEMMA FlagBySetEnabled ==
    ASSUME TypeOK, NEW q \in Requests, NEW value \in BOOLEAN,
           req[q].at \in {"write", "flag"}, SetEnabled(q, value),
           NEW k \in Rowids, ~keys[k].enabled, keys'[k].enabled
    PROVE  /\ value = TRUE /\ req[q].key = k
           /\ req[q] # req'[q]
  <1>1. req[q].key \in Rowids
    BY DEF TypeOK, Handlers, Idle, Over
  <1>2. PICK j \in Rowids : j = req[q].key
    BY <1>1
  <1>3. keys[j] \in Rows
    BY DEF TypeOK, Rowids
  <1>4. [keys[j] EXCEPT !.enabled = value] \in Rows
    BY <1>3 DEF Rows
  <1>5. PICK row \in Rows : row = [keys[j] EXCEPT !.enabled = value]
    BY <1>4
  <1>6. row.enabled = value
    BY <1>3, <1>5 DEF Rows
  <1>7. Update(j, row)
    BY <1>2, <1>5 DEF SetEnabled
  <1>8. keys'[k] = IF k = j /\ Here(j) THEN row ELSE keys[k]
    BY <1>7, UpdateOneRow DEF TypeOK
  <1>9. k = j /\ value = TRUE
    BY <1>6, <1>8
  <1>10. req'[q] = Over
    BY DEF SetEnabled, TypeOK
  <1>. QED  BY <1>2, <1>9, <1>10 DEF Over

LEMMA FlagByRequest ==
    ASSUME TypeOK, NEW q \in Requests, Handle(q),
           NEW k \in Rowids, ~keys[k].enabled, keys'[k].enabled
    PROVE  /\ req[q] # req'[q]
           /\ req[q].key = k /\ req[q].op \in {"enable", "token"}
  <1>1. CASE Toggle(q)
    <2>1. req[q].at = "write"
      BY <1>1 DEF Toggle
    <2>2. req[q].op = "enable" /\ SetEnabled(q, TRUE)
      BY <1>1, <2>1, FlagBySetEnabled DEF Toggle
    <2>. QED  BY <2>1, <2>2, FlagBySetEnabled
  <1>2. CASE SetFlag(q)
    <2>1. req[q].at = "flag" /\ SetEnabled(q, req[q].op = "token")
      BY <1>2 DEF SetFlag
    <2>. QED  BY <2>1, FlagBySetEnabled
  <1>3. CASE ~Toggle(q) /\ ~SetFlag(q)
    <2>1. SameFlags
      <3>1. CASE UNCHANGED keys
        BY <3>1 DEF SameFlags
      <3>2. CASE \E op \in {"add", "connect"} : Insert(q, op)
        BY <3>2 DEF Insert, TypeOK, SameFlags, Rowids
      <3>3. CASE Rotate(q) \/ StoreTokens(q)
        <4>1. req[q].key \in Rowids /\ keys[req[q].key] \in Rows
          BY <3>3 DEF Rotate, StoreTokens, TypeOK, Handlers, Idle, Over, Rowids
        <4>2. PICK j \in Rowids : j = req[q].key /\ keys[j] \in Rows
          BY <4>1
        <4>3. \E row \in Rows : row.enabled = keys[j].enabled /\ Update(j, row)
          <5>1. CASE Rotate(q)
            <6>1. issued + 1 \in Nat
              BY DEF TypeOK
            <6>2. PICK row \in Rows :
                    row = [keys[j] EXCEPT !.bundle = Bundle("text", issued + 1, "none", FALSE),
                                          !.mask = issued + 1, !.version = BoxVersion]
              BY <4>2, <6>1, MadeRows
            <6>3. row.enabled = keys[j].enabled
              BY <4>2, <6>2 DEF Rows
            <6>4. Update(j, row)
              BY <4>2, <5>1, <6>2 DEF Rotate
            <6>. QED  BY <6>3, <6>4
          <5>2. CASE StoreTokens(q)
            <6>1. req[q].sees.bundle \in Bundles
              <7>1. req[q] \in Handlers /\ req[q].at = "write"
                BY <5>2 DEF StoreTokens, TypeOK
              <7>. QED  BY <7>1, Recalled DEF Rows
            <6>2. [keys[j] EXCEPT !.bundle = req[q].sees.bundle] \in Rows
              BY <4>2, <6>1, MadeRows
            <6>. QED  BY <4>2, <5>2, <6>2 DEF StoreTokens, Rows
          <5>. QED  BY <3>3, <5>1, <5>2
        <4>. QED  BY <4>3, FlagsKept
      <3>4. CASE Delete(q)
        <4>1. \A j \in Rowids : keys[j] \in Rows
          BY DEF TypeOK, Rowids
        <4>. QED  BY <3>4, <4>1 DEF Delete, SameFlags, Rows, Rowids, TypeOK
      <3>. QED  BY <1>3, <3>1, <3>2, <3>3, <3>4 DEF Handle, Lookup, Exchange, Reload, Crash
    <2>. QED  BY <2>1 DEF SameFlags
  <1>. QED  BY <1>1, <1>2, <1>3

(* A key the user has disabled is turned on again by nothing but a request *)
(* that means to: no refresh or rotation writes the column back.           *)
THEOREM DisabledForGood == Spec => DisableSticks
  <1>1. TypeOK /\ [Next]_vars =>
          [\A k \in Rowids : ~keys[k].enabled /\ keys'[k].enabled =>
             \E q \in Requests : /\ req[q] # req'[q]
                                 /\ req[q].key = k /\ req[q].op \in {"enable", "token"}]_vars
    <2>. SUFFICES ASSUME TypeOK, Next, NEW k \in Rowids, ~keys[k].enabled, keys'[k].enabled
                  PROVE  \E q \in Requests : /\ req[q] # req'[q]
                                             /\ req[q].key = k /\ req[q].op \in {"enable", "token"}
      OBVIOUS
    <2>1. CASE \E q \in Requests : Handle(q)
      BY <2>1, FlagByRequest
    <2>2. ASSUME NEW s \in Scans, Resolve(s) PROVE FALSE
      <3>1. CASE Store(s)
        <4>1. scan[s].key \in Rowids /\ scan[s].bundle \in Bundles
          BY <3>1, Refreshing DEF Store, TypeOK
        <4>2. PICK j \in Rowids : j = scan[s].key /\ keys[j] \in Rows
          BY <4>1 DEF TypeOK, Rowids
        <4>3. [keys[j] EXCEPT !.bundle = scan[s].bundle] \in Rows
          BY <4>1, <4>2 DEF Rows
        <4>4. \E row \in Rows : row.enabled = keys[j].enabled /\ Update(j, row)
          BY <3>1, <4>2, <4>3 DEF Store, Rows
        <4>. QED  BY <4>4, FlagsKept DEF SameFlags
      <3>. QED  BY <2>2, <3>1 DEF Resolve, Select, Refresh, Return
    <2>3. ASSUME NEW j \in Rowids, Expire(j) PROVE FALSE
      <3>1. keys[j] \in Rows
        BY DEF TypeOK, Rowids
      <3>2. PICK row \in Rows : row = [keys[j] EXCEPT !.bundle.access = "stale"]
        BY <3>1, MadeRows
      <3>3. row.enabled = keys[j].enabled /\ Update(j, row)
        BY <2>3, <3>1, <3>2 DEF Rows, Expire, Update
      <3>. QED  BY <3>3, FlagsKept DEF SameFlags
    <2>. QED  BY <2>1, <2>2, <2>3 DEF Next
  <1>. QED  BY <1>1, TypeCorrect, PTL DEF Spec, DisableSticks

==============================================================================
