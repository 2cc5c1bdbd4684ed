-------------------------- MODULE UploadRefinement --------------------------
(***************************************************************************)
(* Uploads that do not overlap implement the registry of Registry.tla.  A  *)
(* request is entered when its numbered object first is in the bucket; the *)
(* "original" copies and the handler's positions are not visible.  A panic *)
(* is an answer that says nothing, like an error.                          *)
(***************************************************************************)
EXTENDS Upload

HolderOf(key) == IF bucket[key] \in Requests THEN bucket[key] ELSE Absent

Abstract(r) ==
  IF bucket[NumberedKey(r)] = r THEN bom[r] ELSE [serialNumber |-> NoSerial, version |-> 0]

R == INSTANCE Registry WITH
  Nobody   <- Absent,
  registry <- [k \in Urns \X (1 .. MaxInt) |-> HolderOf(k)],
  entry    <- [r \in Requests |->
                 IF bom[r].serialNumber = NoSerial
                   THEN [serialNumber |-> NoSerial, version |-> 0] ELSE Abstract(r)],
  answer   <- [r \in Requests |-> IF answer[r] = "panic" THEN "error" ELSE answer[r]]

(* Serial uploads never overwrite an entry, assign exactly the version     *)
(* after the latest, and acknowledge what is stored: the contract of the   *)
(* comment above UploadBOM, for clients that wait for each answer.         *)
ImplementsRegistry == R!Spec
=============================================================================
