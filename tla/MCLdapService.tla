--------------------------- MODULE MCLdapService ---------------------------
(***************************************************************************)
(* TLC instance of LdapService: two requests.                              *)
(***************************************************************************)
EXTENDS LdapService
=============================================================================
