SPECIFICATION ModulesFairSpec
CONSTANTS
    Modules = {1, 2, 3, 4}
    Deps <- MCDeps
    AutoInstall = {3}
    Excludes <- MCExcludes
    MaxButtons = 3
PROPERTIES   LoadSettles LoadEnds
