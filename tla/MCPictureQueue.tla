--------------------------- MODULE MCPictureQueue ---------------------------
(* The picture ring with the user at the keyboard, the mouse and the       *)
(* window's close button.  The events carry, besides their type, the word  *)
(* that overlaps keysym.sym: for a mouse motion it is the x coordinate.    *)
EXTENDS PictureQueue

Escape == [type |-> "SDL_KEYDOWN", sym |-> SDLK_ESCAPE]
OtherKey == [type |-> "SDL_KEYDOWN", sym |-> 97]
Close == [type |-> "SDL_QUIT", sym |-> 0]
Motion(x) == [type |-> "SDL_MOUSEMOTION", sym |-> x]

UsualEvents == {Escape, OtherKey, Close, Motion(27), Motion(100)}
=============================================================================
