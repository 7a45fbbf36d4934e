----------------------------- MODULE MCSettings -----------------------------
(* Instances of ChannelSettings for TLC.                                   *)
EXTENDS ChannelSettings, TLC

Phone == <<"whatsapp_phone_id", "whatsapp_access_token">>

\* Saves, reloads and workers are interchangeable.
Symmetry ==
  Permutations(Saves) \union Permutations(Reloads) \union Permutations(Workers)
=============================================================================
