--------------------------- MODULE MCLinuxEditor ---------------------------
EXTENDS LinuxEditor

\* Bytes written as two digits.
B(high, low) == <<high, low>>

NoBytes == {}
TwoBytes == {<<B(0, 0), B(0, 1)>>}
ThreeBytes == {<<B(0, 0), B(0, 1), B(1, 0)>>}

OneCharacter == {B(1, 1)}
Pasted == {<<B(1, 1)>>}

OnePattern == {<<B(0, 0)>>}
Doubled == {<<B(0, 0), B(0, 0)>>}
=============================================================================
