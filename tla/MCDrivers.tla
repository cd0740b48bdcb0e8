------------------------------ MODULE MCDrivers ------------------------------
(***************************************************************************)
(* Values of StoreDrivers' constants for model checking.                   *)
(***************************************************************************)
EXTENDS StoreDrivers

ClassOf(d) ==
  [driver |-> d, stampKey |-> "unset", auth |-> "static", exists |-> "strict", delete |-> TRUE,
   retires |-> FALSE, tagDelete |-> TRUE]

\* Every driver, with its variants.
AllDrivers ==
  {ClassOf(d) : d \in Registered}
    \cup {[ClassOf("s3") EXCEPT !.stampKey = "custom"],
          [ClassOf("oci") EXCEPT !.retires = TRUE],
          [ClassOf("oci") EXCEPT !.tagDelete = FALSE],
          [ClassOf("http") EXCEPT !.exists = "default"],
          [ClassOf("http") EXCEPT !.auth = "clientCredentials"],
          [ClassOf("http") EXCEPT !.delete = FALSE]}

OnlyAMI == {ClassOf("ami")}
HTTPWithStampKey == {[ClassOf("http") EXCEPT !.stampKey = "custom"]}
=============================================================================
