----------------------------- MODULE MCSettings -----------------------------
EXTENDS SettingForms

SystemOnly == [SystemSettings |-> SystemSettings]
=============================================================================
