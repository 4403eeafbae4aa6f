---- MODULE MCAutonomous ----
EXTENDS Autonomous
====
