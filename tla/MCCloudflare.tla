---------------------------- MODULE MCCloudflare ----------------------------
(* Two callers, whose names do not matter; the one error of the SDK after which it is not known what was done. *)
EXTENDS CloudflareProperties

CONSTANTS a, b

MCSdkErrors == {[name |-> "RPCTransportError", code |-> "none"]}
Symmetry == Permutations({a, b})
=============================================================================
