---------------------------- MODULE MailOutboxMC ----------------------------
(* Instances of MailOutbox for TLC: the configurations give the constants.  *)
EXTENDS MailOutbox
=============================================================================
