---------------------------- MODULE MCSiteEvents ----------------------------
(* Two rows, an answer of at most one, and two polls at a time, of which   *)
(* two may fail.                                                           *)
EXTENDS SiteEvents

MCKind == <<"MRZ_ACTIVATED", "POST_ACTIVATION_PRESSURE_CHANGED">>
MCSymbolOf == <<"ALPHA", "BETA">>
MCPreferences ==
  {[scope |-> "ALL_SYMBOLS", kinds |-> {"MRZ_ACTIVATED", "POST_ACTIVATION_PRESSURE_CHANGED"}],
   [scope |-> "TRACKED_GROUPS_ONLY", kinds |-> {"MRZ_ACTIVATED"}]}
MCGroups == {{}, {"ALPHA"}}
=============================================================================
