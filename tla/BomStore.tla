------------------------------ MODULE BomStore ------------------------------
(***************************************************************************)
(* The object keys of the repository and what internal/store/store.go      *)
(* reads back from them.  The bucket is one flat function from keys to     *)
(* objects: there is no index, no lock and no conditional write, so every  *)
(* question the service asks (does this version exist, which is the        *)
(* latest) is a HEAD or a LIST that may be stale when its answer is used.  *)
(***************************************************************************)
EXTENDS Integers

CONSTANTS
  Urns,      \* serial numbers, urn:uuid:<uuid>
  MaxInt,    \* the largest value of Go's int; the width bound of the model
  Original,  \* the key suffix "original"
  Foreign,   \* a suffix this service never writes (objects put there by others)
  Absent     \* no object under a key

MinInt   == -MaxInt - 1
Versions == MinInt .. MaxInt
Suffixes == Versions \cup {Original, Foreign}
Keys     == Urns \X Suffixes

ASSUME StoreAssumption ==
  /\ MaxInt \in Nat \ {0}
  /\ Original \notin Int /\ Foreign \notin Int /\ Original # Foreign

(***************************************************************************)
(* The object key <urn>-<suffix> (uploadKey, uploadKeyOriginal).           *)
(***************************************************************************)
UploadKey(urn, suffix) == <<urn, suffix>>

(***************************************************************************)
(* KeyExists: HEAD answers whether some object is stored under the key.    *)
(***************************************************************************)
KeyExists(bucket, key) == bucket[key] # Absent

(* The suffixes a LIST with the prefix <urn> finds.                        *)
Listing(bucket, urn) ==
  {s \in Suffixes : bucket[UploadKey(urn, s)] # Absent}

(***************************************************************************)
(* GetObjectVersions on a complete listing: not found when it is empty, an *)
(* error when a suffix is neither a number nor "original", and otherwise   *)
(* the sorted numbers and whether "original" is there.  The numbers are    *)
(* empty, with no error, when "original" is the only object.               *)
(***************************************************************************)
ListingNotFound(listing) == listing = {}
ForeignTolerated(listing) == FALSE
ListingInvalid(listing)  == Foreign \in listing
Numbers(listing)         == listing \cap Versions

(* versions[len(versions)-1] of the sorted slice; none if it is empty.     *)
AnyOf(v, versions) == v \in versions

IsLast(v, versions) == v \in versions /\ \A w \in versions : w <= v

(* Go's int addition of one: it wraps around at MaxInt.                    *)
PlusOne(v) == IF v = MaxInt THEN MinInt ELSE v + 1
=============================================================================
