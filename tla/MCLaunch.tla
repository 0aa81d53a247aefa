------------------------------- MODULE MCLaunch -------------------------------
\* Two agents and two observers.
EXTENDS Launch

CONSTANTS o1, o2
MCObservers == <<o1, o2>>
=============================================================================
