------------------------------ MODULE MCPhones -------------------------------
EXTENDS Phones

MCApps == <<"whatsapp", "threema">>

=============================================================================
