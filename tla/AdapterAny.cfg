SPECIFICATION MailboxSpec
CONSTANTS
  Writers = {ui, helper}
  Contacts = {alice, bob}
  Texts = {hello}
  Nobody = Nobody
  Torn = Torn
INVARIANTS MailboxTypeOK NoLostWakeup TextIntact
PROPERTIES NewestIsServed
