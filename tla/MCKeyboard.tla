------------------------------ MODULE MCKeyboard ------------------------------
(***************************************************************************)
(* TLC instances of Keyboard.                                              *)
(***************************************************************************)
EXTENDS Keyboard

\* Backspace, tab, Enter, the L key, Alt+F1 and Alt+F2.
FewCodes == {14, 15, 28, 38, 59, 60}

FewModifiers == {"left shift", "right shift", "left ctrl", "right ctrl", "left alt"}

\* A prompt that the L key types with shift, and that fits into the buffer with a
\* newline.
ShortPrompt == <<"L">>

==============================================================================
