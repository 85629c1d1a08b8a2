---- MODULE MCAdmission ----
EXTENDS Admission
====
