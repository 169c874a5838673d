-------------------------- MODULE MCSettingsSection --------------------------
(* TLC instance of SettingsSection: every kind of torch, three cookies, a    *)
(* camera provider that is started twice.                                    *)
EXTENDS SettingsSectionProperties
=============================================================================
