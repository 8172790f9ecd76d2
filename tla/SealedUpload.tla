---------------------------- MODULE SealedUpload ----------------------------
(***************************************************************************)
(* What a chunked upload promises, without requests, chunks or files:      *)
(* the uploaded content is open until its last chunk is recorded, is       *)
(* sealed from then on, and is stored and published only when the sealed   *)
(* content is the declared one.  Content sealed bad is never stored.       *)
(***************************************************************************)
CONSTANT CopyInPlace    \* storing the object passes through a torn object

VARIABLES content,      \* "open", or what was sealed: "good" or "bad"
          object,       \* the object under the declared checksum
          published     \* a live row refers to the object

vars == <<content, object, published>>

(* The object may be there, and in use, before this upload begins.         *)
Init ==
    /\ content = "open"
    /\ published \in BOOLEAN
    /\ object = IF published THEN "good" ELSE "absent"

Seal ==
    /\ content = "open"
    /\ content' \in {"good", "bad"}
    /\ UNCHANGED <<object, published>>

BeginStore ==
    /\ CopyInPlace
    /\ content = "good"
    /\ object' = "torn"
    /\ UNCHANGED <<content, published>>

Store ==
    /\ content = "good"
    /\ object' = "good"
    /\ UNCHANGED <<content, published>>

Publish ==
    /\ content = "good"
    /\ object = "good" \/ (CopyInPlace /\ object = "torn")
    /\ published' = TRUE
    /\ UNCHANGED <<content, object>>

Next == Seal \/ BeginStore \/ Store \/ Publish

Spec == Init /\ [][Next]_vars
=============================================================================
