\* Two events of a session, refreshes that overtake each other, and two of
\* disconnection, restart, failed registration, lost and repeated message.
SPECIFICATION FairSpec
CONSTANTS
  Event <- TwoEvents
  MaxPolls = 2
  MaxFailures = 2
INVARIANT TypeOK
PROPERTIES SidebarSettles LabelStays NamelessUntilRestart
CHECK_DEADLOCK FALSE
