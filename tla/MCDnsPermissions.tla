-------------------------- MODULE MCDnsPermissions --------------------------
(***************************************************************************)
(* Two permissions, answers that live for a short or a long time, and a    *)
(* reserve that can be doubled twice before the longer one leaves no room. *)
(***************************************************************************)
EXTENDS DnsPermissions

=============================================================================
