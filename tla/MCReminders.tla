---------------------------- MODULE MCReminders ----------------------------
EXTENDS Reminders
=============================================================================
