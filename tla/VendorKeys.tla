----------------------------- MODULE VendorKeys -----------------------------
(***************************************************************************)
(* The Schwab credentials among the vendor keys: routes of the settings    *)
(* page add, enable, disable, rotate and delete them and walk through the  *)
(* OAuth connection; scans, mostly in the worker process, take the newest  *)
(* enabled one and refresh its access token when it is stale.              *)
(*                                                                         *)
(* Routes and scans have a session each. A step is one statement with its  *)
(* commit, or one call of Schwab's token endpoint. A session remembers a   *)
(* row as it loaded it, and its UPDATE names only the columns that differ  *)
(* from what it remembers. Encryption is invertible and left out; so are   *)
(* labels and scopes.                                                      *)
(***************************************************************************)
EXTENDS Naturals, Sequences, FiniteSets

CONSTANTS
    Requests,       \* requests to the key routes, each served once
    Scans,          \* resolutions of a Schwab source, each in its session
    MaxKeys         \* bound on the rows ever created

ASSUME MaxKeysAssumption == MaxKeys \in Nat

VARIABLES
    keys,           \* vendor_keys of vendor "schwab", in order of created_at
    given,          \* for each row, the user's latest submission stored in it
    issued,         \* submissions of users so far (secrets and codes)
    granted,        \* those that came with tokens
    req, scan       \* local state of the handlers and of the scans

vars == <<keys, given, issued, granted, req, scan>>

(* What a ciphertext holds: a SchwabCreds bundle, or any other text. It    *)
(* stems from a numbered submission of the user.                           *)
Bundle(form, from, access, renewable) ==
    [form |-> form, from |-> from, access |-> access, renewable |-> renewable]
Bundles == [form : {"creds", "text"}, from : Nat,
            access : {"none", "fresh", "stale"}, renewable : BOOLEAN]
Rows    == [here : BOOLEAN, enabled : BOOLEAN, bundle : Bundles,
            mask : Nat, version : Nat \ {0}]

(* Mutant: the version of a box is left at zero.                           *)
VersionUnset == 0

(* get_secret_box passes no key_version, so every box has the default.     *)
BoxVersion == 1

NewRow(form, from) ==
    [here |-> TRUE, enabled |-> TRUE, bundle |-> Bundle(form, from, "none", FALSE),
     mask |-> from, version |-> BoxVersion]

Rowids  == 1..Len(keys)
Here(k) == keys[k].here

Idle == [at |-> "idle"]
Over == [at |-> "over"]

-----------------------------------------------------------------------------
Init ==
    /\ keys = <<>>
    /\ given = <<>>
    /\ issued = 0
    /\ granted = {}
    /\ req = [q \in Requests |-> Idle]
    /\ scan = [s \in Scans |-> Idle]

(* add_key and the first half of schwab_connect: both insert a row that is *)
(* enabled.                                                                *)
Insert(q, op) ==
    /\ req[q] = Idle
    /\ Len(keys) < MaxKeys
    /\ issued' = issued + 1
    /\ LET form == IF op = "connect" THEN "creds" ELSE "text" IN
       keys' = Append(keys, NewRow(form, issued + 1))
    /\ given' = Append(given, issued + 1)
    /\ req' = [req EXCEPT ![q] =
                 IF op = "connect" THEN [at |-> "reload", op |-> op, key |-> Len(keys) + 1]
                 ELSE Over]
    /\ UNCHANGED <<granted, scan>>

(* session.get in a new session. No row: 404, and nothing happens.         *)
Lookup(q, op, k) ==
    /\ req[q] = Idle
    /\ Here(k)
    /\ req' = [req EXCEPT ![q] =
                 [at |-> IF op = "token" THEN "exchange" ELSE "write",
                  op |-> op, key |-> k, sees |-> keys[k]]]
    /\ UNCHANGED <<keys, given, issued, granted, scan>>

(* exchange_code: new tokens, or a failure that ends the request.          *)
Exchange(q) ==
    /\ req[q].at = "exchange"
    /\ \/ /\ req[q].sees.bundle.form = "creds"
          /\ issued' = issued + 1
          /\ granted' = granted \cup {issued + 1}
          /\ LET tokens == Bundle("creds", issued + 1, "fresh", TRUE) IN
             req' = [req EXCEPT ![q] =
                       [at |-> "write", op |-> "token", key |-> req[q].key,
                        sees |-> [req[q].sees EXCEPT !.bundle = tokens]]]
       \/ /\ req' = [req EXCEPT ![q] = Over]
          /\ UNCHANGED <<issued, granted>>
    /\ UNCHANGED <<keys, given, scan>>

(* Mutant: a row that is gone is inserted again, as a merge would.         *)
Merge(k, row) == keys' = [keys EXCEPT ![k] = [row EXCEPT !.here = TRUE]]

(* An UPDATE that matches no row raises StaleDataError: the request fails. *)
Update(k, row) == keys' = IF Here(k) THEN [keys EXCEPT ![k] = row] ELSE keys

(* set_vendor_key_enabled: nothing is written when the row already had     *)
(* that value when this session loaded it.                                 *)
SetEnabled(q, value) ==
    LET k == req[q].key IN
    /\ IF req[q].sees.enabled = value THEN UNCHANGED keys
       ELSE Update(k, [keys[k] EXCEPT !.enabled = value])
    /\ req' = [req EXCEPT ![q] = Over]
    /\ UNCHANGED <<given, issued, granted, scan>>

Toggle(q) ==
    /\ req[q].at = "write"
    /\ \/ req[q].op = "enable" /\ SetEnabled(q, TRUE)
       \/ req[q].op = "disable" /\ SetEnabled(q, FALSE)

(* rotate_vendor_key: any text, with its mask and the version of the box.  *)
Rotate(q) ==
    LET k == req[q].key IN
    /\ req[q].at = "write" /\ req[q].op = "rotate"
    /\ issued' = issued + 1
    /\ Update(k, [keys[k] EXCEPT !.bundle = Bundle("text", issued + 1, "none", FALSE),
                                 !.mask = issued + 1, !.version = BoxVersion])
    /\ given' = IF Here(k) THEN [given EXCEPT ![k] = issued + 1] ELSE given
    /\ req' = [req EXCEPT ![q] = Over]
    /\ UNCHANGED <<granted, scan>>

Delete(q) ==
    /\ req[q].at = "write" /\ req[q].op = "delete"
    /\ keys' = [keys EXCEPT ![req[q].key].here = FALSE]
    /\ req' = [req EXCEPT ![q] = Over]
    /\ UNCHANGED <<given, issued, granted, scan>>

(* schwab_token stores the bundle: update_vendor_key_ciphertext.           *)
StoreTokens(q) ==
    LET k == req[q].key IN
    /\ req[q].at = "write" /\ req[q].op = "token"
    /\ Update(k, [keys[k] EXCEPT !.bundle = req[q].sees.bundle])
    /\ given' = IF Here(k) THEN [given EXCEPT ![k] = req[q].sees.bundle.from] ELSE given
    /\ req' = [req EXCEPT ![q] =
                 IF Here(k) THEN [at |-> "reload", op |-> "token", key |-> k] ELSE Over]
    /\ UNCHANGED <<issued, granted, scan>>

(* session.refresh after the commit of the first half.                     *)
Reload(q) ==
    LET k == req[q].key IN
    /\ req[q].at = "reload"
    /\ req' = [req EXCEPT ![q] =
                 IF Here(k) THEN [at |-> "flag", op |-> @.op, key |-> k, sees |-> keys[k]]
                 ELSE Over]
    /\ UNCHANGED <<keys, given, issued, granted, scan>>

(* The second half: schwab_connect disables the row, schwab_token enables  *)
(* it.                                                                     *)
SetFlag(q) ==
    /\ req[q].at = "flag"
    /\ SetEnabled(q, req[q].op = "token")

(* The API process dies between two steps of a request.                    *)
Crash(q) ==
    /\ req[q] \notin {Idle, Over}
    /\ req' = [req EXCEPT ![q] = Over]
    /\ UNCHANGED <<keys, given, issued, granted, scan>>

-----------------------------------------------------------------------------
(* get_enabled_key_for.                                                    *)
Usable    == {k \in Rowids : Here(k) /\ keys[k].enabled}
Newest(k) == k \in Usable /\ \A j \in Usable : j <= k

(* A scan goes on with Schwab and the tokens of one submission, or with    *)
(* another vendor; in the last case its session may be unusable.           *)
Outcome(got, from, broken) ==
    [at |-> "over", got |-> got, from |-> from, broken |-> broken]
OtherVendor == Outcome("other", 0, FALSE)

(* Mutant: a bundle without any token counts as one.                       *)
Decodes(b) == b.form = "creds"

(* load_creds decodes it, and it holds a fresh access token or, to get one, *)
(* a refresh token.                                                        *)
Serves(b) == b.form = "creds" /\ (b.access = "fresh" \/ b.renewable)

(* _try_schwab_source up to the call of SchwabAuth.refresh; a fresh token  *)
(* is handed out at once.                                                  *)
Select(s) ==
    /\ scan[s] = Idle
    /\ \/ /\ Usable = {}
          /\ scan' = [scan EXCEPT ![s] = OtherVendor]
       \/ \E k \in Rowids : LET b == keys[k].bundle IN
          /\ Newest(k)
          /\ scan' = [scan EXCEPT ![s] =
               IF ~Serves(b) THEN OtherVendor
               ELSE IF b.access = "fresh" THEN Outcome("schwab", b.from, FALSE)
               ELSE [at |-> "refresh", key |-> k, bundle |-> b]]
    /\ UNCHANGED <<keys, given, issued, granted, req>>

(* Schwab returns a new access token, or refuses.                          *)
Refresh(s) ==
    /\ scan[s].at = "refresh"
    /\ \/ scan' = [scan EXCEPT ![s] =
                       [at |-> "store", key |-> @.key,
                        bundle |-> [@.bundle EXCEPT !.access = "fresh"]]]
       \/ scan' = [scan EXCEPT ![s] = OtherVendor]
    /\ UNCHANGED <<keys, given, issued, granted, req>>

(* Mutant: all columns are written back as the scan had loaded them.       *)
StoreWholeRow(s) ==
    LET k == scan[s].key IN
    /\ scan[s].at = "store"
    /\ Update(k, [keys[k] EXCEPT !.bundle = scan[s].bundle, !.enabled = TRUE])
    /\ scan' = [scan EXCEPT ![s] =
                  IF Here(k) THEN [@ EXCEPT !.at = "return"] ELSE Outcome("other", 0, TRUE)]
    /\ UNCHANGED <<given, issued, granted, req>>

(* update_vendor_key_ciphertext by the scan. The StaleDataError of a row   *)
(* that is gone comes from a flush and leaves the session unusable; the    *)
(* caller catches it and means to fall back on another vendor.             *)
Store(s) ==
    LET k == scan[s].key IN
    /\ scan[s].at = "store"
    /\ Update(k, [keys[k] EXCEPT !.bundle = scan[s].bundle])
    /\ scan' = [scan EXCEPT ![s] =
                  IF Here(k) THEN [at |-> "return", key |-> k, bundle |-> @.bundle]
                  ELSE Outcome("other", 0, TRUE)]
    /\ UNCHANGED <<given, issued, granted, req>>

(* The row is read back, which fails if it is gone by now.                 *)
Return(s) ==
    /\ scan[s].at = "return"
    /\ scan' = [scan EXCEPT ![s] =
                  IF Here(scan[s].key) THEN Outcome("schwab", scan[s].bundle.from, FALSE)
                  ELSE OtherVendor]
    /\ UNCHANGED <<keys, given, issued, granted, req>>

(* A stored access token comes within a minute of its end.                 *)
Expire(k) ==
    /\ Here(k) /\ keys[k].bundle.access = "fresh"
    /\ keys' = [keys EXCEPT ![k].bundle.access = "stale"]
    /\ UNCHANGED <<given, issued, granted, req, scan>>

-----------------------------------------------------------------------------
Handle(q) ==
    \/ \E op \in {"add", "connect"} : Insert(q, op)
    \/ \E op \in {"enable", "disable", "rotate", "delete", "token"}, k \in Rowids :
         Lookup(q, op, k)
    \/ Exchange(q) \/ Toggle(q) \/ Rotate(q) \/ Delete(q)
    \/ StoreTokens(q) \/ Reload(q) \/ SetFlag(q) \/ Crash(q)

Resolve(s) == Select(s) \/ Refresh(s) \/ Store(s) \/ Return(s)

Next ==
    \/ \E q \in Requests : Handle(q)
    \/ \E s \in Scans : Resolve(s)
    \/ \E k \in Rowids : Expire(k)

Spec == Init /\ [][Next]_vars

-----------------------------------------------------------------------------
Ops == {"connect", "enable", "disable", "rotate", "delete", "token"}

Handlers ==
    {Idle, Over}
        \cup [at : {"reload"}, op : Ops, key : Rowids]
        \cup [at : {"exchange", "write", "flag"}, op : Ops, key : Rowids, sees : Rows]

Resolutions ==
    {Idle}
        \cup [at : {"refresh", "store", "return"}, key : Rowids, bundle : Bundles]
        \cup [at : {"over"}, got : {"schwab", "other"}, from : Nat, broken : BOOLEAN]

(* Every handler and every scan remembers rows that exist, and what users  *)
(* submitted is counted.                                                   *)
TypeOK ==
    /\ keys \in Seq(Rows)
    /\ given \in Seq(Nat) /\ Len(given) = Len(keys)
    /\ issued \in Nat
    /\ granted \subseteq 1..issued
    /\ req \in [Requests -> Handlers]
    /\ scan \in [Scans -> Resolutions]

(* A deleted credential stays deleted, whatever refresh or exchange was    *)
(* under way.                                                              *)
GoneIsGone == [][\A k \in Rowids : ~Here(k) => keys'[k] = keys[k]]_vars

(* Only a request that means to enable a key turns it on: refreshing its   *)
(* tokens never brings a key back that the user has disabled meanwhile.    *)
DisableSticks ==
    [][\A k \in Rowids : ~keys[k].enabled /\ keys'[k].enabled =>
         \E q \in Requests : /\ req[q] # req'[q]
                             /\ req[q].key = k /\ req[q].op \in {"enable", "token"}]_vars

(* A scan that goes on with Schwab has tokens that an authorization code   *)
(* of the user was exchanged for: neither a key in the middle of being     *)
(* connected nor a rotated one yields a token.                             *)
TokensAreGranted ==
    \A s \in Scans : scan[s].at = "over" /\ scan[s].got = "schwab" =>
        scan[s].from \in granted

(* _try_schwab_source "returns None (so callers can fall back)" when the   *)
(* refresh fails: the session they fall back with still works.             *)
CallersCanFallBack == \A s \in Scans : scan[s].at = "over" => ~scan[s].broken

(* repo.py: a stored refresh "is an internal credential refresh, not a     *)
(* user-initiated secret swap": the secret stays the user's latest.        *)
SwapSurvives == \A k \in Rowids : Here(k) => keys[k].bundle.from = given[k]
=============================================================================
