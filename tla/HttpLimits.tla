----------------------------- MODULE HttpLimits -----------------------------
(***************************************************************************)
(* The configuration a server is built with (include/HttpLimits.h) and the *)
(* relation between its fields that HttpLimits::validate() establishes     *)
(* before any connection exists.  Only the fields the transport reads are  *)
(* constants: no code reads read_timeout, write_timeout or                 *)
(* shutdown_timeout.                                                       *)
(***************************************************************************)
EXTENDS Integers

CONSTANTS
  MaxHeaderBytes,             \* limits.max_header_bytes
  MaxBodyBytes,               \* limits.max_body_bytes
  MaxRequestsPerConnection,   \* limits.max_requests_per_connection
  SizeMax                     \* std::numeric_limits<std::size_t>::max()

\* The conditions validate() checks on these fields, including the one that
\* keeps header bytes plus Content-Length inside std::size_t.
Validated ==
  /\ MaxHeaderBytes \in Nat /\ MaxHeaderBytes >= 4
  /\ MaxBodyBytes \in Nat
  /\ SizeMax \in Nat
  /\ MaxBodyBytes <= SizeMax - MaxHeaderBytes
  /\ MaxRequestsPerConnection \in Nat \ {0}

ASSUME LimitsAssumption == Validated

\* Addition in std::size_t.
SizeSum(a, b) == (a + b) % (SizeMax + 1)
=============================================================================
