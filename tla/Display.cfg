\* Frames and windows that are wider, higher and of the same ratio as each other;
\* windows the picture is enlarged for, shrunk for, and that vanish.
CONSTANTS
    Sides <- MCSides
    WindowSides <- MCWindowSides
    Formats <- MCFormats
SPECIFICATION DisplaySpec
INVARIANTS TextureFits ObjectsNested Letterboxed
