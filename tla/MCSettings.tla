----------------------------- MODULE MCSettings -----------------------------
(* Settings on small values; a save is of one of four configurations. *)
EXTENDS Settings

MCConfigs ==
  {Default,
   [Default EXCEPT !.bootstrap_ip = Ip, !.bootstrap_addrs = {"other"}, !.tor_enabled = TRUE],
   [Default EXCEPT !.default_ttl = Ttl, !.storage = "own quota", !.accept_relay = TRUE],
   [Default EXCEPT !.bootstrap_ip = Ip, !.default_ttl = Ttl, !.tor_enabled = TRUE]}
=============================================================================
