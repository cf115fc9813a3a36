---------------------------- MODULE MCAutomation ----------------------------
EXTENDS Automation

EverySecondTick == {2, 4}
=============================================================================
