------------------------------ MODULE MCAssistance ------------------------------
(* Instances of Assistance for TLC.                                        *)
EXTENDS Assistance

\* CELL_LOCATION_PROVIDER=auto
Auto == <<"nrf_cloud", "google", "here">>

\* Google has no key.
TwoKeys == {"nrf_cloud", "here"}

Both == {"nrf", "supl"}
=============================================================================
